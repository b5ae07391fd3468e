----------------------------- MODULE Transmission -----------------------------
(***************************************************************************)
(* src/src/transmission: downloads by transmission-daemon.  The manager    *)
(* keeps a task for each torrent, with its users, in two lists that it     *)
(* writes to storage.json; the observer asks the daemon for its torrents,  *)
(* and answers the calls that wait for it.                                 *)
(*                                                                         *)
(* The daemon, its torrents and their progress are external; it is taken   *)
(* to answer what it was asked first, first: Init before a POST that came  *)
(* meanwhile, which else put its task into lists that are replaced, and    *)
(* wrote a file that was not read yet.  PATCH is empty in this version     *)
(* (manager.js 265), so that pause, resume and destroy cannot be called;   *)
(* and no copy succeeds, as getFruit() gives null (task.js 5): the first   *)
(* task that is downloaded stays in Moving.                                *)
(***************************************************************************)
EXTENDS Integers, Sequences, FiniteSets, Functions

CONSTANTS Calls, Ids, Users, MaxFaults, MaxCrashes

VARIABLES torrents,  \* of the daemon
          state,     \* new before the constructor, Init, Working or Failed
          lists,     \* downloading and downloaded
          task,      \* of the tasks of this process: state and users
          moving,    \* moveReadyQueue and movingQueue
          file,      \* storage.json
          lock,      \* the write under way, and whether another is wanted
          seen,      \* the observer: its state, the calls of this query, those of the next
          call,
          faults, crashes

vars == <<torrents, state, lists, task, moving, file, lock, seen, call, faults, crashes>>

NoTask == [state |-> "none", users |-> {}]
NoCall == [pc |-> "idle", id |-> 0, user |-> "none", answer |-> "none"]
Empty == [downloading |-> <<>>, downloaded |-> <<>>, users |-> [i \in Ids |-> {}]]
Torn == [Empty EXCEPT !.downloading = <<0>>]      \* what a crash leaves of a write
Unlocked == [on |-> FALSE, more |-> FALSE, what |-> Empty]

Listed(L) == {L[k] : k \in DOMAIN L}

TypeOK ==
  /\ \A i \in Ids : torrents[i] \in {"none", "loading", "done"} /\ task[i].users \subseteq Users
  /\ state \in {"new", "Init", "Working", "Failed"}
  /\ IsInjective(lists.downloading) /\ IsInjective(lists.downloaded)
  /\ Listed(lists.downloading) \cap Listed(lists.downloaded) = {}
  /\ \A i \in Listed(lists.downloading) : task[i].state \in {"downloading", "next", "moving"}
  /\ Len(moving.now) <= 1 /\ (moving.now = <<>> => moving.ready = <<>>)
  /\ (lock.more => lock.on) /\ seen.state \in {"none", "Pending", "Working", "between"}
  /\ seen.asked \cup seen.next = {c \in Calls : call[c].pc = "observed"}
  /\ \A c \in Calls : call[c].pc = "done" <=> call[c].answer # "none"

-----------------------------------------------------------------------------
\* getBaseInfor() of all tasks.
Infor(L, T) == [downloading |-> L.downloading, downloaded |-> L.downloaded,
                users |-> [i \in Ids |-> IF i \in Listed(L.downloading) \cup Listed(L.downloaded)
                                         THEN T[i].users ELSE {}]]
\* cache(), called when the lists have changed to L and the tasks to T, and again when the
\* lists have changed once more.
\* Mutant: a change during a write is not written.
CacheOnce(L, T, again) == lock' = IF lock.on THEN lock ELSE [on |-> TRUE, more |-> FALSE, what |-> Infor(L, T)]
Cache(L, T, again) == lock' = IF lock.on THEN [lock EXCEPT !.more = TRUE]
                              ELSE [on |-> TRUE, more |-> again, what |-> Infor(L, T)]
\* The write ends; one that fails keeps the lock for ever.
Written ==
  /\ lock.on /\ file # lock.what
  /\ file' = lock.what
  /\ lock' = IF lock.more THEN [on |-> TRUE, more |-> FALSE, what |-> Infor(lists, task)] ELSE Unlocked
  /\ UNCHANGED <<torrents, state, lists, task, moving, seen, call, faults, crashes>>
WrittenSame ==
  /\ lock.on /\ file = lock.what
  /\ lock' = IF lock.more THEN [on |-> TRUE, more |-> FALSE, what |-> Infor(lists, task)] ELSE Unlocked
  /\ UNCHANGED <<torrents, state, lists, task, moving, file, seen, call, faults, crashes>>

\* removeFromDownloadingQueue(): splice() with one argument takes the rest of the list; an
\* index of -1 its last element.
Rest(L, i) == IF i \in Listed(L) THEN SubSeq(L, 1, (CHOOSE k \in DOMAIN L : L[k] = i) - 1)
              ELSE IF L = <<>> THEN L ELSE SubSeq(L, 1, Len(L) - 1)
\* splice(index, 1): the list without the places K.
Without(L, K) ==
  LET rest == DOMAIN L \ K
  IN  [n \in 1 .. Cardinality(rest) |-> L[CHOOSE k \in rest : Cardinality({j \in rest : j <= k}) = n]]

\* The constructor: is the daemon enabled and active?  If not there is no client, and as
\* nobody listens to Init yet, no observer.
New(ok) ==
  /\ state = "new" /\ (ok \/ faults < MaxFaults)
  /\ faults' = IF ok THEN faults ELSE faults + 1
  /\ state' = IF ok THEN "Init" ELSE "Failed"
  /\ UNCHANGED <<torrents, lists, task, moving, file, lock, seen, call, crashes>>
\* The daemon has answered; the lists are read.  Each task that is made pushes itself and
\* asks for a write, of which the first has seen only the first task; the lists that the
\* tasks are pushed to are replaced when all are made.  Init tells of Working when it is
\* left, to Failed, too: the observer begins, but there is no client.
Start(ok) ==
  /\ state = "Init" /\ (ok \/ faults < MaxFaults)
  /\ faults' = IF ok THEN faults ELSE faults + 1
  /\ seen' = [seen EXCEPT !.state = "Pending"]
  /\ IF ~ok \/ file = Torn
     THEN state' = "Failed" /\ UNCHANGED <<lists, task, lock>>
     ELSE /\ state' = "Working"
          /\ lists' = [downloading |-> file.downloading, downloaded |-> file.downloaded]
          /\ task' = [i \in Ids |->
               CASE i \in Listed(file.downloading) -> [state |-> "downloading", users |-> file.users[i]]
                 [] i \in Listed(file.downloaded) -> [state |-> "finish", users |-> file.users[i]]
                 [] i \notin Listed(file.downloading) \cup Listed(file.downloaded) -> NoTask]
          /\ LET all == file.downloading \o file.downloaded
                 one == IF file.downloaded # <<>>
                        THEN [downloading |-> <<>>, downloaded |-> <<Head(file.downloaded)>>]
                        ELSE [downloading |-> <<Head(all)>>, downloaded |-> <<>>]
             IN  lock' = IF all = <<>> THEN Unlocked
                         ELSE [on |-> TRUE, more |-> Len(all) > 1, what |-> Infor(one, task')]
  /\ UNCHANGED <<torrents, moving, file, call, crashes>>

\* POST, in three steps: the daemon adds the torrent or has it, is asked for it, and the
\* observer is asked to answer.  Without a client it is an error.
Post(c, i, u) ==
  /\ call[c].pc = "idle" /\ state # "new"
  /\ \A d \in Calls : d < c => call[d].pc # "idle"      \* numbered as they come
  /\ call' = [call EXCEPT ![c] =
       IF state = "Failed" THEN [NoCall EXCEPT !.pc = "done", !.id = i, !.user = u, !.answer = "error"]
       ELSE [NoCall EXCEPT !.pc = "add", !.id = i, !.user = u]]
  /\ UNCHANGED <<torrents, state, lists, task, moving, file, lock, seen, faults, crashes>>
Answer(c, what) == call' = [call EXCEPT ![c].pc = "done", ![c].answer = what]
Added(c) ==
  /\ call[c].pc = "add" /\ state # "Init"
  /\ LET i == call[c].id
         listed == Listed(lists.downloading)
     IN  /\ torrents' = [torrents EXCEPT ![i] = IF @ = "none" THEN "loading" ELSE @]
         /\ IF (i \in listed /\ call[c].user \in task[i].users) \/ i \in Listed(lists.downloaded)
                \/ state = "Failed"
            THEN Answer(c, "error")
            ELSE call' = [call EXCEPT ![c].pc = "get"]
  /\ UNCHANGED <<state, lists, task, moving, file, lock, seen, faults, crashes>>
\* A task that is there has no add() (it is its state's): the second user's call fails.  One
\* that is made asks for a write when it pushes itself, and this call once more.
Got(c) ==
  /\ call[c].pc = "get"
  /\ LET i == call[c].id
     IN  IF i \in Listed(lists.downloading)
         THEN Answer(c, "error") /\ UNCHANGED <<lists, task, lock>>
         ELSE /\ lists' = [lists EXCEPT !.downloading = Append(@, i)]
              /\ task' = [task EXCEPT ![i] = [state |-> "downloading", users |-> {call[c].user}]]
              /\ Cache(lists', task', TRUE)
              /\ call' = [call EXCEPT ![c].pc = "cached"]
  /\ UNCHANGED <<torrents, state, moving, file, seen, faults, crashes>>
\* The await of cache(), which is too late for a write of its own and waits for none.
\* Mutant: the observer's answer is not asked for by those it has for the next time.
GetDrops(c) == seen' = IF seen.state = "Pending" THEN [seen EXCEPT !.state = "Working", !.asked = {c}] ELSE seen
Get(c) == seen' = IF seen.state = "Pending" THEN [seen EXCEPT !.state = "Working", !.asked = {c}]
                  ELSE [seen EXCEPT !.next = @ \cup {c}]
Observe(c) ==
  /\ call[c].pc = "cached"
  /\ Get(c) /\ call' = [call EXCEPT ![c].pc = "observed"]
  /\ UNCHANGED <<torrents, state, lists, task, moving, file, lock, faults, crashes>>
PostFails(c) ==
  /\ call[c].pc \in {"add", "get"} /\ faults < MaxFaults /\ faults' = faults + 1
  /\ Answer(c, "error")
  /\ UNCHANGED <<torrents, state, lists, task, moving, file, lock, seen, crashes>>

-----------------------------------------------------------------------------
\* set() for each task that the daemon has: one that is done goes on in nextTick.
Set(L) == [i \in Ids |-> IF i \in Listed(L) /\ torrents[i] = "done" /\ task[i].state = "downloading"
                         THEN [task[i] EXCEPT !.state = "next"] ELSE task[i]]
\* The observer's query.  syncList() drops the tasks whose torrent is not there, one by one: the
\* first asks for a write, which the others are too late for.
After(next) == IF next = {} THEN "Pending" ELSE "between"
Query ==
  /\ seen.state = "Working"
  /\ LET L == lists.downloading
         has == {i \in Ids : torrents[i] # "none"}
         lost == {k \in DOMAIN L : L[k] \notin has}
         first == {k \in lost : \A j \in lost : k <= j}
         less(K) == [lists EXCEPT !.downloading = Without(L, K)]
     IN  /\ task' = Set(L)
         /\ IF lost = {} THEN UNCHANGED <<lists, lock>>
            ELSE lists' = less(lost) /\ Cache(less(first), task', lost # first)
         /\ call' = [c \in Calls |-> IF c \notin seen.asked THEN call[c]
                       ELSE [call[c] EXCEPT !.pc = "done",
                                            !.answer = IF call[c].id \in has THEN "ok" ELSE "error"]]
  /\ seen' = [seen EXCEPT !.asked = {}, !.state = After(seen.next)]
  /\ UNCHANGED <<torrents, state, moving, file, faults, crashes>>
QueryFails ==
  /\ seen.state = "Working" /\ faults < MaxFaults /\ faults' = faults + 1
  /\ call' = [c \in Calls |-> IF c \in seen.asked THEN [call[c] EXCEPT !.pc = "done", !.answer = "error"]
                              ELSE call[c]]
  /\ seen' = [seen EXCEPT !.asked = {}, !.state = After(seen.next)]
  /\ UNCHANGED <<torrents, state, lists, task, moving, file, lock, crashes>>
\* The timers: of two seconds, and of 150 ms when somebody waits.
Timer ==
  /\ seen.state \in {"Pending", "between"} /\ state = "Working"
  /\ seen' = [state |-> "Working", asked |-> seen.next, next |-> {}]
  /\ UNCHANGED <<torrents, state, lists, task, moving, file, lock, call, faults, crashes>>

\* addToMoveQueue() and scheduleMove(): one is moved at a time.
AddToMoveQueue(i) == moving' = IF moving.now = <<>> THEN [moving EXCEPT !.now = <<i>>]
                               ELSE [moving EXCEPT !.ready = Append(@, i)]
\* From Downloading to Moving: the list loses this task, and with it those behind it.
Move(i) ==
  /\ task[i].state = "next"
  /\ task' = [task EXCEPT ![i].state = "moving"]
  /\ lists' = [lists EXCEPT !.downloading = Rest(@, i)]
  /\ Cache(lists', task', FALSE)
  /\ AddToMoveQueue(i)
  /\ UNCHANGED <<torrents, state, file, seen, call, faults, crashes>>

-----------------------------------------------------------------------------
\* The daemon.
Downloaded(i) ==
  /\ torrents[i] = "loading" /\ torrents' = [torrents EXCEPT ![i] = "done"]
  /\ UNCHANGED <<state, lists, task, moving, file, lock, seen, call, faults, crashes>>
Dropped(i) ==
  /\ torrents[i] # "none" /\ faults < MaxFaults /\ faults' = faults + 1
  /\ torrents' = [torrents EXCEPT ![i] = "none"]
  /\ UNCHANGED <<state, lists, task, moving, file, lock, seen, call, crashes>>
\* The process ends, perhaps in a write of the file, which is not atomic, and is started again.
Ends ==
  /\ state' = "new" /\ lists' = [downloading |-> <<>>, downloaded |-> <<>>]
  /\ task' = [i \in Ids |-> NoTask] /\ moving' = [ready |-> <<>>, now |-> <<>>]
  /\ file' \in {file} \cup (IF lock.on THEN {lock.what, Torn} ELSE {})
  /\ lock' = Unlocked /\ seen' = [state |-> "none", asked |-> {}, next |-> {}]
  /\ call' = [c \in Calls |-> IF call[c].pc \in {"idle", "done"} THEN call[c]
                              ELSE [call[c] EXCEPT !.pc = "done", !.answer = "lost"]]
  /\ UNCHANGED <<torrents, faults>>
Crash == crashes < MaxCrashes /\ crashes' = crashes + 1 /\ Ends
\* An observer without a client throws in its timer: with a file that is torn at every start.
Throws == state = "Failed" /\ seen.state = "Pending" /\ Ends /\ UNCHANGED crashes

Init ==
  /\ torrents = [i \in Ids |-> "none"] /\ state = "new"
  /\ lists = [downloading |-> <<>>, downloaded |-> <<>>] /\ task = [i \in Ids |-> NoTask]
  /\ moving = [ready |-> <<>>, now |-> <<>>] /\ file = Empty /\ lock = Unlocked
  /\ seen = [state |-> "none", asked |-> {}, next |-> {}]
  /\ call = [c \in Calls |-> NoCall] /\ faults = 0 /\ crashes = 0

Proceed ==
  \/ New(TRUE) \/ Start(TRUE) \/ Throws \/ Written \/ WrittenSame \/ Query \/ Timer
  \/ \E i \in Ids : Move(i)
  \/ \E c \in Calls : Added(c) \/ Got(c) \/ Observe(c)
Next ==
  \/ Proceed \/ New(FALSE) \/ Start(FALSE) \/ QueryFails \/ Crash
  \/ \E c \in Calls : PostFails(c) \/ \E i \in Ids, u \in Users : Post(c, i, u)
  \/ \E i \in Ids : Downloaded(i) \/ Dropped(i)
Spec == Init /\ [][Next]_vars

-----------------------------------------------------------------------------
\* When no write is under way the file holds the lists as they are: none of the changes
\* that came during a write was forgotten, and a start reads what was there.
CacheFollows == state = "Working" /\ ~lock.on => file = Infor(lists, task)
=============================================================================
