------------------------------ MODULE FileIndex ------------------------------
(***************************************************************************)
(* src/src/fruitmix/vfs/file.js, the part of forest.js and directory.js    *)
(* about files, and lib/xfingerprint.js: the objects of the index that     *)
(* stand for files, their hashes, and the workers that compute them.       *)
(*                                                                         *)
(* A file is its uuid; a hash is the uuid and the version it is the hash   *)
(* of.  A directory is read in two steps, the listing and its use; what    *)
(* may happen inside a listing is in Forest, inside updateFileHash() in    *)
(* Xstat.                                                                  *)
(***************************************************************************)
EXTENDS Integers, Sequences, FiniteSets, SequencesExt

CONSTANTS Files, Dirs, Names,
          MaxChanges,   \* of the disk
          MaxObjects,
          Workers       \* 2 in scheduleFileHash

VARIABLES disk,      \* where each file is, its version, and the hash in its attribute with the version told with it
          mem,       \* the File objects, fileMap, hashlessFiles, hashingFiles, metaMap, fileHashScheduled
          listing,   \* what a reading of each directory has listed
          due,       \* the directories to be read
          down,      \* an exception in a callback has ended the process
          changes

vars == <<disk, mem, listing, due, down, changes>>

Inputs == IsFiniteSet(Files) /\ "none" \notin Dirs /\ Workers \in Nat /\ MaxObjects \in Nat /\ MaxChanges \in Nat

NoHash == <<>>
NoFile == [dir |-> "none", name |-> "none", version |-> 0, hash |-> NoHash, hashed |-> 0]
Unread == [entries |-> {}, taken |-> FALSE]
Resting == [phase |-> "none", dir |-> "none", name |-> "none", time |-> 0, hash |-> NoHash]
NoMem == [obj |-> <<>>, fileMap |-> [f \in Files |-> 0], hashless |-> <<>>, hashing |-> {},
          meta |-> {}, sched |-> FALSE]

Objects == DOMAIN mem.obj
Live == {o \in Objects : mem.obj[o].state # "gone"}
In(M, d) == {o \in DOMAIN M.obj : M.obj[o].state # "gone" /\ M.obj[o].dir = d}

-----------------------------------------------------------------------------
\* The states of a File.  Each of these takes and returns the memory of the index.
Asked(M) == [M EXCEPT !.sched = TRUE]
EnterHashless(M, o) ==
  Asked([M EXCEPT !.obj[o].state = "hashless", !.hashless = Append(@, o)])
EnterHashed(M, o, h) ==
  [M EXCEPT !.obj[o].state = "hashed", !.obj[o].hash = h, !.obj[o].fails = 0,
            !.meta = @ \cup {<<h, o>>}]
EnterFailed(M, o) == [M EXCEPT !.obj[o].state = "failed", !.obj[o].fails = 0]
\* Mutant: a slot that becomes free is not offered.
ExitHashingQuietly(M, o) == [M EXCEPT !.hashing = @ \ {o}]
ExitHashing(M, o) == Asked([M EXCEPT !.hashing = @ \ {o}])

\* new File().
Create(M, d, x) ==
  LET o == Len(M.obj) + 1
      N == [M EXCEPT !.obj = Append(@, [uuid |-> x.uuid, dir |-> d, name |-> x.name, hash |-> x.hash,
                                        state |-> "hashless", fails |-> 0, work |-> Resting]),
                     !.fileMap[x.uuid] = o]
  IN  IF x.hash = NoHash THEN EnterHashless(N, o) ELSE EnterHashed(N, o, x.hash)

\* What is in a queue once.
Without(q, o) == RemoveAt(q, CHOOSE i \in DOMAIN q : q[i] = o)

\* destroy(): the worker is stopped while it digests, before and after it goes on
\* (destroyed is never set).
Stop(w) == IF w.phase = "digest" THEN Resting ELSE w
\* Mutant: the hash keeps the object.
DestroyKeeps(M, o) ==
  LET N == [M EXCEPT !.obj[o].state = "gone", !.obj[o].work = Stop(@), !.fileMap[M.obj[o].uuid] = 0]
  IN  CASE M.obj[o].state = "hashless" -> [N EXCEPT !.hashless = Without(@, o)]
        [] M.obj[o].state = "hashing" -> ExitHashing(N, o)
        [] M.obj[o].state \in {"hashed", "failed"} -> N
Destroy(M, o) ==
  LET N == [M EXCEPT !.obj[o].state = "gone", !.obj[o].work = Stop(@), !.fileMap[M.obj[o].uuid] = 0]
  IN  CASE M.obj[o].state = "hashless" -> [N EXCEPT !.hashless = Without(@, o)]
        [] M.obj[o].state = "hashing" -> ExitHashing(N, o)
        [] M.obj[o].state = "hashed" -> [N EXCEPT !.meta = @ \ {<<M.obj[o].hash, o>>}]
        [] M.obj[o].state = "failed" -> N

-----------------------------------------------------------------------------
\* What readXstat() says of a file: a hash is told while the file has the version recorded with it.
Xstat(f) == [uuid |-> f, name |-> disk[f].name,
             hash |-> IF disk[f].hashed = disk[f].version THEN disk[f].hash ELSE NoHash]
At(d, n) == {f \in Files : disk[f].dir = d /\ disk[f].name = n}

\* updateChildren(): files that changed their name or hash are made anew, lost ones go (in the
\* code behind the loop, to the same effect), and new ones are made unless they are indexed
\* elsewhere: that directory is then read.
Renewed(M, o, d, L) ==
  LET X == {x \in L : x.uuid = M.obj[o].uuid}
      Same(x) == x.name = M.obj[o].name /\ x.hash = M.obj[o].hash
  IN  CASE X = {} -> Destroy(M, o)
        [] X # {} /\ (\A x \in X : Same(x)) -> M
        [] \E x \in X : ~Same(x) -> Create(Destroy(M, o), d, CHOOSE x \in X : TRUE)
Updated(M, d, L) ==
  LET T[o \in 0 .. Len(M.obj)] ==
        IF o = 0 THEN M ELSE IF o \in In(M, d) THEN Renewed(T[o - 1], o, d, L) ELSE T[o - 1]
  IN  T[Len(M.obj)]
New(M, d, L) == {x \in L : \A o \in In(M, d) : M.obj[o].uuid # x.uuid}
\* Mutant: what is indexed elsewhere is indexed here too.
TakenNever(M, d, x) == FALSE
Taken(M, d, x) == M.fileMap[x.uuid] # 0
Indexed(M, d, x) == IF Taken(M, d, x) THEN M ELSE Create(M, d, x)
Added(M, d, L) ==
  LET new == SetToSeq(New(M, d, L))
      T[i \in 0 .. Len(new)] == IF i = 0 THEN M ELSE Indexed(T[i - 1], d, new[i])
  IN  T[Len(new)]
Elsewhere(M, d, L) == {M.obj[M.fileMap[x.uuid]].dir : x \in {y \in New(M, d, L) : M.fileMap[y.uuid] # 0}}

List(d) ==
  /\ ~down /\ due[d] /\ ~listing[d].taken
  /\ listing' = [listing EXCEPT ![d] = [entries |-> {Xstat(f) : f \in {g \in Files : disk[g].dir = d}},
                                        taken |-> TRUE]]
  /\ due' = [due EXCEPT ![d] = FALSE]
  /\ UNCHANGED <<disk, mem, down, changes>>
Update(d) ==
  /\ ~down /\ listing[d].taken
  /\ LET M == Updated(mem, d, listing[d].entries)
     IN  /\ mem' = Added(M, d, listing[d].entries)
         /\ due' = [e \in Dirs |-> due[e] \/ e \in Elsewhere(M, d, listing[d].entries)]
  /\ listing' = [listing EXCEPT ![d] = Unread]
  /\ Len(mem'.obj) <= MaxObjects
  /\ UNCHANGED <<disk, down, changes>>

-----------------------------------------------------------------------------
\* scheduleFileHash(), in nextTick: as many as there is room for.
Started(o) == [mem.obj[o] EXCEPT !.state = "hashing",
                                 !.work = [Resting EXCEPT !.phase = "lstat", !.dir = mem.obj[o].dir,
                                                          !.name = mem.obj[o].name]]
Schedule ==
  /\ ~down /\ mem.sched
  /\ LET room == Workers - Cardinality(mem.hashing)
         n == IF Len(mem.hashless) < room THEN Len(mem.hashless) ELSE room
         first == {mem.hashless[i] : i \in 1 .. n}
     IN  mem' = [mem EXCEPT !.sched = FALSE, !.hashless = SubSeq(@, n + 1, Len(@)), !.hashing = @ \cup first,
                            !.obj = [o \in Objects |-> IF o \in first THEN Started(o) ELSE mem.obj[o]]]
  /\ UNCHANGED <<disk, listing, due, down, changes>>

\* The callback of xfingerprint(), which throws on an object that was destroyed.
Told(M, o, ok) ==
  LET N == ExitHashing([M EXCEPT !.obj[o].work = Resting], o)
  IN  IF ok THEN EnterHashed(N, o, M.obj[o].work.hash)
      ELSE IF M.obj[o].fails + 1 > 3 THEN EnterFailed(N, o)
      ELSE EnterHashless([N EXCEPT !.obj[o].fails = @ + 1], o)
Callback(o, ok) ==
  IF mem.obj[o].state = "gone" THEN down' = TRUE /\ UNCHANGED mem
  ELSE mem' = Told(mem, o, ok) /\ UNCHANGED down
Work(o) == mem.obj[o].work
Found(o) == At(Work(o).dir, Work(o).name)

Lstat(o) ==
  /\ ~down /\ Work(o).phase = "lstat"
  /\ IF Found(o) = {} THEN Callback(o, FALSE)
     ELSE \E f \in Found(o) :
            /\ mem' = [mem EXCEPT !.obj[o].work.phase = "digest", !.obj[o].work.time = disk[f].version]
            /\ UNCHANGED down
  /\ UNCHANGED <<disk, listing, due, changes>>
Digest(o) ==
  /\ ~down /\ Work(o).phase = "digest"
  /\ IF Found(o) = {} THEN Callback(o, FALSE)
     ELSE \E f \in Found(o) :
            /\ mem' = [mem EXCEPT !.obj[o].work.phase = "update",
                                  !.obj[o].work.hash = <<f, disk[f].version>>]
            /\ UNCHANGED down
  /\ UNCHANGED <<disk, listing, due, changes>>
\* updateFileHash(); mutant: of whatever file there is.
IsStillAny(o, f) == disk[f].version = Work(o).time
IsStill(o, f) == disk[f].version = Work(o).time /\ f = mem.obj[o].uuid
Record(o) ==
  /\ ~down /\ Work(o).phase = "update"
  /\ \/ /\ \E f \in Found(o) : /\ IsStill(o, f)
                               /\ disk' = [disk EXCEPT ![f].hashed = Work(o).time, ![f].hash = Work(o).hash]
        /\ Callback(o, TRUE)
     \/ /\ \A f \in Found(o) : ~IsStill(o, f)
        /\ disk' = disk /\ Callback(o, FALSE)
  /\ UNCHANGED <<listing, due, changes>>

-----------------------------------------------------------------------------
\* Others change the disk, and the directories they change are read.  A version is the time it was
\* written: nothing was written later.
Change(dirs) ==
  /\ ~down /\ changes < MaxChanges /\ changes' = changes + 1
  /\ due' = [d \in Dirs |-> due[d] \/ d \in dirs]
  /\ UNCHANGED <<listing, down>>
Move(f, d, n) ==
  /\ disk[f] # NoFile /\ At(d, n) = {}
  /\ disk' = [disk EXCEPT ![f].dir = d, ![f].name = n]
  /\ Change({d, disk[f].dir}) /\ UNCHANGED mem
Write(f) ==
  /\ disk[f] # NoFile
  /\ disk' = [disk EXCEPT ![f].version = changes + 2]
  /\ Change({disk[f].dir}) /\ UNCHANGED mem
Unlink(f) ==
  /\ disk[f] # NoFile
  /\ disk' = [disk EXCEPT ![f] = NoFile]
  /\ Change({disk[f].dir}) /\ UNCHANGED mem

\* The process is started again.
Restart ==
  /\ down /\ down' = FALSE
  /\ mem' = NoMem
  /\ listing' = [d \in Dirs |-> Unread] /\ due' = [d \in Dirs |-> TRUE]
  /\ UNCHANGED <<disk, changes>>

Init ==
  /\ \E place \in [Files -> Dirs \X Names] :
       /\ \A f, g \in Files : place[f] = place[g] => f = g
       /\ disk = [f \in Files |-> [dir |-> place[f][1], name |-> place[f][2], version |-> 1,
                                  hash |-> NoHash, hashed |-> 0]]
  /\ mem = NoMem
  /\ listing = [d \in Dirs |-> Unread] /\ due = [d \in Dirs |-> TRUE]
  /\ down = FALSE /\ changes = 0

Proceed ==
  \/ \E d \in Dirs : List(d) \/ Update(d)
  \/ Schedule \/ Restart
  \/ \E o \in Objects : Lstat(o) \/ Digest(o) \/ Record(o)
Next ==
  \/ Proceed
  \/ \E f \in Files : Write(f) \/ Unlink(f) \/ \E d \in Dirs, n \in Names : Move(f, d, n)

Spec == Init /\ [][Next]_vars

-----------------------------------------------------------------------------
\* The indices of the forest agree: an object for each uuid, found by it; the sets of
\* hashless, hashing and hashed files hold the objects in that state, and no other, so that
\* nothing destroyed is served by its hash; and no more workers are counted than allowed.
Holds(state) == {o \in Live : mem.obj[o].state = state}
IndicesAgree ==
  /\ \A o \in Live : mem.fileMap[mem.obj[o].uuid] = o
  /\ \A f \in Files : mem.fileMap[f] # 0 => mem.fileMap[f] \in Live
  /\ ToSet(mem.hashless) = Holds("hashless") /\ IsInjective(mem.hashless)
  /\ mem.hashing = Holds("hashing") /\ Cardinality(mem.hashing) <= Workers
  /\ mem.meta = {<<mem.obj[o].hash, o>> : o \in Holds("hashed")}

\* A file is never indexed by the hash of another, or by that of a content it has not
\* had, although a worker goes by path and takes its time.
HashIsOwn ==
  /\ \A o \in Holds("hashed") : /\ mem.obj[o].hash[1] = mem.obj[o].uuid
                                /\ disk[mem.obj[o].uuid] # NoFile =>
                                     mem.obj[o].hash[2] <= disk[mem.obj[o].uuid].version
  /\ \A f \in Files : disk[f].hash = NoHash \/ disk[f].hash = <<f, disk[f].hashed>>

\* The code compares the uuid behind the digest only.  A file that was away while its path was
\* digested, another one standing there, and that is back when the hash is recorded, gets the hash
\* of the other.  HashIsOwn is true of the steps where no file comes back that late.
NoReturn ==
  \A o \in Objects, f \in Files :
    /\ Work(o).phase = "update" /\ f = mem.obj[o].uuid
    /\ disk'[f].dir = Work(o).dir /\ disk'[f].name = Work(o).name
    => f \in Found(o)

==============================================================================
