-------------------------------- MODULE Backup --------------------------------
(***************************************************************************)
(* src/src/fruitmix/backup: a directory of a backup drive.  A file has its *)
(* hash for a name, and beside it an attribute file with its versions and  *)
(* its metadata; what was deleted is listed in a whiteout; a directory is  *)
(* emptied and marked when it is deleted.                                  *)
(*                                                                         *)
(* Changes are made by file-attr.js under a lock per path: a queue whose   *)
(* head runs.  Here is one hash, and one subdirectory.  The listing, which *)
(* writes too when it finds no metadata, reads before it takes the lock.   *)
(* A version has the number of the call that made it.                      *)
(***************************************************************************)
EXTENDS Integers, Sequences, FiniteSets, SequencesExt

CONSTANTS Calls, MaxFaults, MaxCrashes

VARIABLES data,     \* the file with the hash is there
          attrs,    \* .xattr.<hash>: who last changed each version; whether it has metadata
          white,    \* the whiteout
          dir,      \* the subdirectory
          queue,    \* the locks: the calls of each path, the first one at work
          task,     \* the calls
          faults, crashes,
          stale     \* history: the versions that a listing wrote as they had been, not as they were

vars == <<data, attrs, white, dir, queue, task, faults, crashes, stale>>

Keys == {"file", "white", "dir"}
NoAttrs == [there |-> FALSE, vers |-> <<>>, meta |-> FALSE]
Gone == [there |-> FALSE, attr |-> FALSE, uuid |-> 0, deleted |-> FALSE, full |-> FALSE]
NoTask == [op |-> "none", id |-> 0, pc |-> "idle", snap |-> NoAttrs, wsnap |-> {}, dsnap |-> Gone, answer |-> "none"]
KeyOf(pc) == CASE pc \in {"link", "attr", "new", "drop", "rmattr", "rmdata", "edit", "meta", "write"} -> "file"
               [] pc \in {"wread", "wwrite"} -> "white"
               [] pc \in {"mkdir", "getdir", "rimraf", "mkdirp", "setdir"} -> "dir"
               [] OTHER -> "none"

TypeOK ==
  /\ attrs.there \/ attrs = NoAttrs
  /\ DOMAIN attrs.vers \subseteq Calls /\ white \subseteq Calls
  /\ dir.there \/ dir = Gone
  /\ \A c \in Calls : /\ task[c].pc = "done" <=> task[c].answer # "none"
                      /\ \A k \in Keys : KeyOf(task[c].pc) = k <=> c \in ToSet(queue[k])

-----------------------------------------------------------------------------
\* call(), and the end of what it called, which lets the next one run.
\* Mutant: all run at once.
RunsAtOnce(c, k) == c \in ToSet(queue[k])
Runs(c, k) == queue[k] # <<>> /\ Head(queue[k]) = c
Shifted(k) == [queue EXCEPT ![k] = Tail(@)]
Goes(c, pc) == task' = [task EXCEPT ![c].pc = pc] /\ UNCHANGED queue
Calls1(c, pc) ==
  task' = [task EXCEPT ![c].pc = pc] /\ queue' = [queue EXCEPT ![KeyOf(pc)] = Append(@, c)]
\* Mutant: a call that fails keeps its lock.
EndsKeeping(c, what) ==
  /\ task' = [task EXCEPT ![c].pc = "done", ![c].answer = what]
  /\ queue' = IF KeyOf(task[c].pc) = "none" \/ what = "error" THEN queue ELSE Shifted(KeyOf(task[c].pc))
Ends(c, what) ==
  /\ task' = [task EXCEPT ![c].pc = "done", ![c].answer = what]
  /\ queue' = IF KeyOf(task[c].pc) = "none" THEN queue ELSE Shifted(KeyOf(task[c].pc))
\* A version was deleted: its whiteout is next.
ThenWhite(c) ==
  /\ task' = [task EXCEPT ![c].pc = "wread"]
  /\ queue' = [Shifted("file") EXCEPT !["white"] = Append(@, c)]
Others == <<faults, crashes, stale>>
Disk == <<data, attrs, white, dir>>

\* A handler of backup.js calls; clients number their calls and name versions they have seen.
Ask(c, op, id, pc) ==
  /\ task[c].pc = "idle" /\ (\A d \in Calls : d < c => task[d].pc # "idle")
  /\ task' = [task EXCEPT ![c] = [NoTask EXCEPT !.op = op, !.id = id, !.pc = pc]]
  /\ queue' = IF pc = "stat" THEN queue ELSE [queue EXCEPT ![KeyOf(pc)] = Append(@, c)]
  /\ UNCHANGED <<Disk, Others>>
newfile(c) == Ask(c, "newfile", 0, "link")
delete(c) == \/ \E id \in DOMAIN attrs.vers : Ask(c, "delete", id, "stat")
             \/ \E op \in {"rmdir", "rmtop"} : Ask(c, op, 0, "getdir")
mkdir(c) == Ask(c, "mkdir", 0, "mkdir")
updateFile(c) == \E id \in DOMAIN attrs.vers : Ask(c, "update", id, "edit")
updateDir(c) == Ask(c, "chdir", 0, "getdir")
readdir(c) == Ask(c, "read", 0, "stat")

\* createFile: the data is linked, if it is not there, and then a version is added.
\* Mutant: a new attribute file is written first.
LinkLater(c) == Goes(c, "attr") /\ UNCHANGED data
LinkFirst(c) == Goes(c, "attr") /\ data' = TRUE
Link(c) == task[c].pc = "link" /\ Runs(c, "file") /\ LinkFirst(c) /\ UNCHANGED <<attrs, white, dir, Others>>
Set(v, id, by) == [x \in DOMAIN v \cup {id} |-> IF x = id THEN by ELSE v[x]]
Writes(c, v, meta) ==
  task' = [task EXCEPT ![c].pc = "write", ![c].snap = [there |-> TRUE, vers |-> v, meta |-> meta]] /\ UNCHANGED queue
Attr(c) ==
  /\ task[c].pc = "attr" /\ Runs(c, "file")
  /\ IF attrs.there THEN Writes(c, Set(attrs.vers, c, c), attrs.meta) ELSE Goes(c, "new")
  /\ UNCHANGED <<Disk, Others>>
New(c) ==
  /\ task[c].pc = "new" /\ Runs(c, "file")
  /\ IF attrs.there THEN Goes(c, "attr") /\ UNCHANGED attrs
     ELSE attrs' = [there |-> TRUE, vers |-> Set(<<>>, c, c), meta |-> FALSE] /\ Ends(c, "ok")
  /\ UNCHANGED <<data, white, dir, Others>>
\* updateFileAttr: metadata too, if there is none.
Edit(c) ==
  /\ task[c].pc = "edit" /\ Runs(c, "file")
  /\ IF task[c].id \in DOMAIN attrs.vers /\ (attrs.meta \/ data)
     THEN Writes(c, Set(attrs.vers, task[c].id, c), TRUE) ELSE Ends(c, "error")
  /\ UNCHANGED <<Disk, Others>>
\* The file is looked for before the lock is taken: by delete and by the listing.
Stat(c) ==
  /\ task[c].pc = "stat"
  /\ CASE ~data -> Ends(c, "error")
       [] data /\ task[c].op = "delete" -> Calls1(c, "drop")
       [] data /\ task[c].op = "read" -> Goes(c, "peek")
  /\ UNCHANGED <<Disk, Others>>
\* deleteFileAttr.
Drop(c) ==
  /\ task[c].pc = "drop" /\ Runs(c, "file")
  /\ LET left == DOMAIN attrs.vers \ {task[c].id}
     IN  CASE task[c].id \notin DOMAIN attrs.vers -> Ends(c, "error")
           [] task[c].id \in DOMAIN attrs.vers /\ left = {} -> Goes(c, "rmattr")
           [] task[c].id \in DOMAIN attrs.vers /\ left # {} ->
                Writes(c, [x \in left |-> attrs.vers[x]], attrs.meta)
  /\ UNCHANGED <<Disk, Others>>
\* Mutant: the data is removed before its attributes.
RemoveDataFirst(c) ==
  \/ task[c].pc = "rmattr" /\ data' = FALSE /\ Goes(c, "rmdata") /\ UNCHANGED attrs
  \/ task[c].pc = "rmdata" /\ attrs' = NoAttrs /\ ThenWhite(c) /\ UNCHANGED data
Remove1(c) ==
  \/ task[c].pc = "rmattr" /\ attrs' = NoAttrs /\ Goes(c, "rmdata") /\ UNCHANGED data
  \/ task[c].pc = "rmdata" /\ data' = FALSE /\ ThenWhite(c) /\ UNCHANGED attrs
Rm(c) == Runs(c, "file") /\ Remove1(c) /\ UNCHANGED <<white, dir, Others>>
\* readFileXstats: what is read here is written, with the metadata, when the lock is had.
Peek(c) ==
  /\ task[c].pc = "peek"
  /\ CASE ~attrs.there -> Ends(c, "error")
       [] attrs.there /\ attrs.meta -> Ends(c, "ok")
       [] attrs.there /\ ~attrs.meta -> /\ task' = [task EXCEPT ![c].pc = "meta", ![c].snap = attrs]
                                        /\ queue' = [queue EXCEPT !["file"] = Append(@, c)]
  /\ UNCHANGED <<Disk, Others>>
Meta(c) ==
  /\ task[c].pc = "meta" /\ Runs(c, "file")
  /\ IF data THEN Writes(c, task[c].snap.vers, TRUE) ELSE Ends(c, "error")
  /\ UNCHANGED <<Disk, Others>>
\* write(): a temporary file renamed.  What has changed since a listing read it is as it was.
Differ(v, w) == {id \in Calls : IF id \in DOMAIN v THEN id \notin DOMAIN w \/ v[id] # w[id] ELSE id \in DOMAIN w}
Older(c) == IF task[c].op = "read" THEN Differ(task[c].snap.vers, attrs.vers) ELSE {}
Write(c) ==
  /\ task[c].pc = "write" /\ Runs(c, "file")
  /\ attrs' = task[c].snap
  /\ IF task[c].op = "delete" THEN ThenWhite(c) ELSE Ends(c, "ok")
  /\ stale' = stale \cup Older(c)
  /\ UNCHANGED <<data, white, dir, faults, crashes>>
\* createWhiteout.
White(c) ==
  /\ Runs(c, "white")
  /\ \/ /\ task[c].pc = "wread" /\ task' = [task EXCEPT ![c].pc = "wwrite", ![c].wsnap = white \cup {task[c].id}]
        /\ UNCHANGED <<white, queue>>
     \/ task[c].pc = "wwrite" /\ white' = task[c].wsnap /\ Ends(c, "ok")
  /\ UNCHANGED <<data, attrs, dir, Others>>

-----------------------------------------------------------------------------
\* createDir: a directory with its attributes is renamed, which replaces one without
\* entries; one with entries gets the attributes of the call.
\* Mutant: and the uuid.
MkdirOver(c) == dir' = [dir EXCEPT !.uuid = c] /\ Ends(c, "ok")
MkdirFull(c) == Goes(c, "getdir") /\ UNCHANGED dir
Mkdir(c) ==
  /\ task[c].pc = "mkdir" /\ Runs(c, "dir")
  /\ IF dir.full THEN MkdirFull(c)
     ELSE dir' = [Gone EXCEPT !.there = TRUE, !.attr = TRUE, !.uuid = c] /\ Ends(c, "ok")
  /\ UNCHANGED <<data, attrs, white, Others>>
\* updateDirAttr: the attribute is read, changed and written; to delete is to remove the
\* directory with all in it, and to make it again, but for one at the top.
GetDir(c) ==
  /\ task[c].pc = "getdir" /\ Runs(c, "dir")
  /\ IF ~dir.attr THEN Ends(c, "error")
     ELSE /\ task' = [task EXCEPT ![c].pc = IF task[c].op \in {"rmdir", "rmtop"} THEN "rimraf" ELSE "setdir",
                                  ![c].dsnap = [dir EXCEPT !.deleted = CASE task[c].op = "mkdir" -> FALSE
                                                                         [] task[c].op = "chdir" -> @
                                                                         [] OTHER -> TRUE]]
          /\ UNCHANGED queue
  /\ UNCHANGED <<Disk, Others>>
RimrafDir(c) ==
  /\ task[c].pc = "rimraf" /\ Runs(c, "dir")
  /\ dir' = Gone /\ IF task[c].op = "rmtop" THEN Ends(c, "ok") ELSE Goes(c, "mkdirp")
  /\ UNCHANGED <<data, attrs, white, Others>>
MkdirP(c) ==
  /\ task[c].pc = "mkdirp" /\ Runs(c, "dir")
  /\ dir' = [Gone EXCEPT !.there = TRUE] /\ Goes(c, "setdir")
  /\ UNCHANGED <<data, attrs, white, Others>>
SetDir(c) ==
  /\ task[c].pc = "setdir" /\ Runs(c, "dir")
  /\ dir' = [dir EXCEPT !.attr = TRUE, !.uuid = task[c].dsnap.uuid, !.deleted = task[c].dsnap.deleted]
  /\ Ends(c, "ok") /\ UNCHANGED <<data, attrs, white, Others>>
\* A file comes into the directory; a listing gives one without attributes a uuid of its own.
Fill == dir.there /\ ~dir.full /\ dir' = [dir EXCEPT !.full = TRUE]
        /\ UNCHANGED <<data, attrs, white, queue, task, Others>>
Repair == dir.there /\ ~dir.attr /\ dir' = [dir EXCEPT !.attr = TRUE, !.uuid = 9]
          /\ UNCHANGED <<data, attrs, white, queue, task, Others>>

-----------------------------------------------------------------------------
Fault(c) ==
  /\ task[c].pc \notin {"idle", "done"} /\ (KeyOf(task[c].pc) # "none" => Runs(c, KeyOf(task[c].pc)))
  /\ faults < MaxFaults /\ faults' = faults + 1
  /\ Ends(c, "error") /\ UNCHANGED <<Disk, crashes, stale>>
Crash ==
  /\ crashes < MaxCrashes /\ crashes' = crashes + 1
  /\ queue' = [k \in Keys |-> <<>>]
  /\ task' = [c \in Calls |-> IF task[c].pc \in {"idle", "done"} THEN task[c]
                              ELSE [task[c] EXCEPT !.pc = "done", !.answer = "lost"]]
  /\ UNCHANGED <<Disk, faults, stale>>

Init ==
  /\ data = FALSE /\ attrs = NoAttrs /\ white = {} /\ dir = Gone
  /\ queue = [k \in Keys |-> <<>>] /\ task = [c \in Calls |-> NoTask]
  /\ faults = 0 /\ crashes = 0 /\ stale = {}

Proceed(c) ==
  \/ Link(c) \/ Attr(c) \/ New(c) \/ Edit(c) \/ Stat(c) \/ Drop(c) \/ Rm(c) \/ Peek(c) \/ Meta(c) \/ Write(c)
  \/ White(c) \/ Mkdir(c) \/ GetDir(c) \/ RimrafDir(c) \/ MkdirP(c) \/ SetDir(c)
Asks(c) == newfile(c) \/ delete(c) \/ mkdir(c) \/ updateFile(c) \/ updateDir(c) \/ readdir(c)
Next == Fill \/ Repair \/ Crash \/ \E c \in Calls : Asks(c) \/ Proceed(c) \/ Fault(c)
Spec == Init /\ [][Next]_vars

-----------------------------------------------------------------------------
\* Wherever the process stops, attributes have their file, for which a listing takes them:
\* the data comes first and goes last.
AttrsHaveData == attrs.there => data

\* A version is lost, and changed, in a step of a call that names it alone, or in that in
\* which a listing writes what it had read before it had the lock: then those that have
\* changed since, and no others.
Named(c, id) == task[c].id = id /\ task'[c] # task[c]
Overwrites(c, id) == task[c].pc = "write" /\ task'[c] # task[c] /\ id \in Older(c)
VersionsStay ==
  \A id \in DOMAIN attrs.vers :
    \/ \E c \in Calls : Named(c, id) \/ Overwrites(c, id)
    \/ id \in DOMAIN attrs'.vers /\ attrs'.vers[id] = attrs.vers[id]

\* Who was told that his version is stored, or deleted and in the whiteout, is right: of the
\* first for as long as nobody asks to delete it, and of both but where a listing wrote this
\* version as it had been.
Kept(c) == \A d \in Calls : ~(task[d].op = "delete" /\ task[d].id = c)
ToldIsTrue ==
  \A c \in Calls : task[c].answer = "ok" =>
    /\ task[c].op = "newfile" /\ Kept(c) /\ c \notin stale => c \in DOMAIN attrs.vers
    /\ task[c].op = "delete" => task[c].id \in white /\ (task[c].id \in stale \/ task[c].id \notin DOMAIN attrs.vers)

\* A directory with entries keeps its uuid, but in the step in which its deletion, that has
\* made it again, gives it back the one it had, over one that a listing gave it meanwhile.
Restores(c) == task[c].op = "rmdir" /\ task[c].pc = "setdir" /\ task'[c].pc = "done"
FullKeepsUuid ==
  dir.full /\ dir.attr /\ dir'.full =>
    \/ dir'.uuid = dir.uuid
    \/ \E c \in Calls : Restores(c) /\ dir'.uuid = task[c].dsnap.uuid
==============================================================================
