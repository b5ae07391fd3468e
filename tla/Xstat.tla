-------------------------------- MODULE Xstat --------------------------------
(***************************************************************************)
(* src/src/lib/xstat.js and its users: the attribute user.fruitmix of a    *)
(* file, which holds its uuid, its hash with the time of change it was     *)
(* computed for, and its tags.  It is read, repaired and written with      *)
(* several system calls on a path, by calls of the API, by the fingerprint *)
(* workers and by readers of directories, while others write or replace    *)
(* the file.                                                               *)
(*                                                                         *)
(* One path.  A content is the sequence of the writes that made it, so     *)
(* that a hash can be compared with what it is the hash of; the time of    *)
(* change is the number of the last write, which no two writes share.      *)
(***************************************************************************)
EXTENDS Integers, Sequences, FiniteSets

CONSTANTS Procs,      \* calls and workers
          Jobs,       \* what they may do: [do, tags]
          MaxWrites,  \* writes and replacements by others
          MaxFiles    \* files (inodes), and uuids, in all

VARIABLES file,     \* the files: mtime, content, attribute
          path,     \* which of them the path names
          proc,     \* the calls and workers
          lockset,  \* whether a reader holds the lock of the path
          uuids,    \* how many uuids were made
          writes,
          kept      \* history: the tags that somebody was told are on the file

vars == <<file, path, proc, lockset, uuids, writes, kept>>

NoAttr == [uuid |-> 0, hash |-> <<>>, time |-> 0, tags |-> {}]
NoProc == [pc |-> "idle", job |-> [do |-> "none", tags |-> {}], time |-> 0, attr |-> NoAttr,
           hash |-> <<>>, content |-> <<>>, stale |-> FALSE, past |-> FALSE, answer |-> "none"]
Inums == DOMAIN file

TypeOK ==
  /\ Len(file) <= MaxFiles /\ path \in Inums
  /\ \A f \in Inums : file[f].mtime \in 1 .. writes + 1 /\ file[f].attr.uuid \in 0 .. uuids
  /\ \A p \in Procs :
       /\ proc[p].pc \in {"idle", "lstat", "get", "set", "decide", "ulstat", "uget", "uset", "digest",
                          "concat", "check", "force", "rename", "done"}
       /\ proc[p].pc = "done" <=> proc[p].answer # "none"
  /\ \E Q \in SUBSET Procs : /\ \A p \in Procs : p \in Q <=> proc[p].pc = "set"
                             /\ Cardinality(Q) <= 1 /\ (Q # {} => lockset)

-----------------------------------------------------------------------------
\* sort() without an argument compares the decimals as strings, isValidTags compares
\* numbers.  Here the ids are below 100.
Decimal(id) == IF id < 10 THEN 20 * id - 1 ELSE 2 * id
isValidTags(tags) == \A a, b \in tags : a < b => Decimal(a) < Decimal(b)

\* readXattr(): what is not an attribute gets a new uuid; a hash of another time goes.
\* Mutant: the tags go with the hash.
readXattrBare(f, time) ==
  LET a == file[f].attr
  IN  IF a.uuid = 0 THEN [NoAttr EXCEPT !.uuid = uuids + 1]
      ELSE IF a.time = time THEN a ELSE [NoAttr EXCEPT !.uuid = a.uuid]
readXattr(f, time) ==
  LET a == file[f].attr
  IN  IF a.uuid = 0 THEN [NoAttr EXCEPT !.uuid = uuids + 1]
      ELSE IF a.time = time THEN a
      ELSE [a EXCEPT !.hash = <<>>, !.time = 0]
Dirty(f, attr) == attr # file[f].attr
Set(f, attr) == file' = [file EXCEPT ![f].attr = attr]

Goes(p, new) == proc' = [proc EXCEPT ![p] = new]
To(p, pc) == [proc[p] EXCEPT !.pc = pc]
Over(answer) == [NoProc EXCEPT !.pc = "done", !.answer = answer]
Ends(p, answer) == Goes(p, Over(answer))

\* history: whoever has read the attribute and will write it has not seen this change
\* ("stale"), nor, if "swap", that the path was given another file, or got the attribute of
\* the file that was there before ("past").
Outdates(but, ps, swap) ==
  [q \in Procs |-> IF q \notin but /\ ps[q].pc \in {"set", "decide", "ulstat", "uget", "uset"}
                   THEN [ps[q] EXCEPT !.stale = TRUE, !.past = @ \/ (swap /\ ps[q].pc \in {"set", "uset"})]
                   ELSE ps[q]]

\* A job begins with readXstat(), or with lstat() if it is the fingerprint worker's, which
\* is given the uuid that was read before.
Begin(p, j) ==
  /\ proc[p].pc = "idle" /\ (j.do = "hash" => file[path].attr.uuid # 0)
  /\ Goes(p, [NoProc EXCEPT !.pc = "lstat", !.job = j,
                            !.attr.uuid = IF j.do = "hash" THEN file[path].attr.uuid ELSE 0])
  /\ UNCHANGED <<file, path, lockset, uuids, writes, kept>>
Lstat(p) ==
  /\ proc[p].pc = "lstat"
  /\ Goes(p, [To(p, IF proc[p].job.do = "hash" THEN "digest" ELSE "get")
                EXCEPT !.time = file[path].mtime])
  /\ UNCHANGED <<file, path, lockset, uuids, writes, kept>>

\* readXstatAsync(): one at a time from the lock to the end of the repair.
\* Mutant: readXstat1, which has no lock.
OpenAlways == TRUE
Open == ~lockset
After(job) == IF job.do = "read" THEN "done" ELSE "decide"
Get(p) ==
  /\ proc[p].pc = "get" /\ Open
  /\ LET attr == readXattr(path, proc[p].time)
         next == IF Dirty(path, attr) THEN "set" ELSE After(proc[p].job)
     IN  /\ Goes(p, IF next = "done" THEN Over("ok")
                    ELSE [To(p, next) EXCEPT !.attr = attr, !.stale = FALSE])
         /\ uuids' = IF attr.uuid > uuids THEN uuids + 1 ELSE uuids
         /\ lockset' = (next = "set")
  /\ UNCHANGED <<file, path, writes, kept>>
Repair(p) ==
  /\ proc[p].pc = "set"
  /\ Set(path, proc[p].attr)
  /\ LET next == After(proc[p].job)
         new == IF next = "done" THEN Over("ok")
                ELSE [To(p, next) EXCEPT !.stale = FALSE, !.past = FALSE]
     IN  proc' = Outdates({p}, [proc EXCEPT ![p] = new], proc[p].past)
  /\ lockset' = FALSE
  /\ kept' = kept \cap proc[p].attr.tags
  /\ UNCHANGED <<path, uuids, writes>>

-----------------------------------------------------------------------------
\* ADDTAGS, REMOVETAGS and SETTAGS, between the reading and the writing.
newTags(job, old) ==
  CASE job.do = "ADDTAGS" -> old \cup job.tags
    [] job.do = "REMOVETAGS" -> old \ job.tags
    [] job.do = "SETTAGS" -> job.tags
Tagging == {"ADDTAGS", "REMOVETAGS", "SETTAGS"}
Decide(p) ==
  /\ proc[p].pc = "decide" /\ proc[p].job.do \in Tagging
  /\ LET job == proc[p].job
         old == proc[p].attr.tags
         new == newTags(job, old)
         same == (job.do = "ADDTAGS" /\ new = old) \/ (job.do = "REMOVETAGS" /\ old = {})
     IN  IF same
         THEN Ends(p, "ok")
         ELSE IF isValidTags(new) THEN Goes(p, To(p, "ulstat")) ELSE Ends(p, "invalid")
  /\ UNCHANGED <<file, path, lockset, uuids, writes, kept>>

\* updateFileTags() and updateFileHash(): lstat, read, write, and no lock.
Update(p) ==
  /\ proc[p].pc = "ulstat"
  /\ IF proc[p].job.do = "hash" /\ file[path].mtime # proc[p].time
     THEN Ends(p, "changed")
     ELSE Goes(p, [To(p, "uget") EXCEPT !.time = file[path].mtime])
  /\ UNCHANGED <<file, path, lockset, uuids, writes, kept>>
\* What updateFileHash() and updateFileTags() assign to the attribute they read.
\* Mutant: the hash is recorded with the time of now.
AssignNow(p, attr) == [attr EXCEPT !.hash = proc[p].hash, !.time = file[path].mtime]
AssignTags(p, attr) == [attr EXCEPT !.tags = newTags(proc[p].job, proc[p].attr.tags)]
AssignHash(p, attr) == [attr EXCEPT !.hash = proc[p].hash, !.time = proc[p].time]
UpdateGet(p) ==
  /\ proc[p].pc = "uget"
  /\ LET attr == readXattr(path, proc[p].time)
     IN  IF attr.uuid # proc[p].attr.uuid THEN Ends(p, "instance")
         ELSE Goes(p, [To(p, "uset") EXCEPT !.stale = proc[p].job.do # "hash" /\ @,
                         !.attr = IF proc[p].job.do = "hash" THEN AssignHash(p, attr)
                                  ELSE AssignTags(p, attr)])
  /\ UNCHANGED <<file, path, lockset, uuids, writes, kept>>
UpdateSet(p) ==
  /\ proc[p].pc = "uset"
  /\ Set(path, proc[p].attr)
  /\ proc' = Outdates({p}, [proc EXCEPT ![p] = Over("ok")], proc[p].past)
  /\ kept' = CASE proc[p].job.do = "ADDTAGS" -> (kept \cap proc[p].attr.tags) \cup proc[p].job.tags
               [] OTHER -> kept \cap proc[p].attr.tags
  /\ UNCHANGED <<path, lockset, uuids, writes>>

\* The worker's digest, of a file that may change while it is read.
Digest(p) ==
  /\ proc[p].pc = "digest"
  /\ Goes(p, [To(p, "ulstat") EXCEPT !.hash = file[path].content])
  /\ UNCHANGED <<file, path, lockset, uuids, writes, kept>>

-----------------------------------------------------------------------------
\* APPEND: the file and the new data are copied to a temporary file, which takes its place
\* if the file is still the one that was read.  It gets the uuid and not the tags.
Room == Len(file) < MaxFiles
AppendDecide(p) ==
  /\ proc[p].pc = "decide" /\ proc[p].job.do = "APPEND"
  /\ IF proc[p].attr.hash = <<>> THEN Ends(p, "mismatch") ELSE Goes(p, To(p, "concat"))
  /\ UNCHANGED <<file, path, lockset, uuids, writes, kept>>
Concat(p) ==
  /\ proc[p].pc = "concat" /\ writes < MaxWrites
  /\ writes' = writes + 1
  /\ Goes(p, [To(p, "check") EXCEPT !.content = Append(file[path].content, writes + 2)])
  /\ UNCHANGED <<file, path, lockset, uuids, kept>>
\* Mutant: the time is not looked at again.
SameAlways(p) == TRUE
Same(p) == file[path].mtime = proc[p].time
Check(p) ==
  /\ proc[p].pc = "check"
  /\ IF Same(p) THEN Goes(p, To(p, "rename")) ELSE Ends(p, "race")
  /\ UNCHANGED <<file, path, lockset, uuids, writes, kept>>
AppendRename(p) ==
  /\ proc[p].pc = "rename" /\ Room
  /\ LET time == proc[p].content[Len(proc[p].content)]
     IN  file' = Append(file, [mtime |-> time, content |-> proc[p].content,
                   attr |-> [uuid |-> proc[p].attr.uuid, time |-> time, tags |-> {},
                             hash |-> Append(proc[p].attr.hash, time)]])
  /\ path' = Len(file) + 1
  /\ proc' = Outdates({p}, [proc EXCEPT ![p] = Over("ok")], TRUE)
  /\ kept' = kept \cap file'[path'].attr.tags
  /\ UNCHANGED <<lockset, uuids, writes>>

-----------------------------------------------------------------------------
\* Others write the file (samba), or put another one in its place: one without an
\* attribute, or one that link() gave the uuid of the file it replaces.
Write ==
  /\ writes < MaxWrites /\ writes' = writes + 1
  /\ file' = [file EXCEPT ![path].mtime = writes + 2, ![path].content = Append(@, writes + 2)]
  /\ UNCHANGED <<path, proc, lockset, uuids, kept>>
Replace ==
  /\ writes < MaxWrites /\ writes' = writes + 1 /\ Room
  /\ \E attr \in {NoAttr, [uuid |-> file[path].attr.uuid, hash |-> <<writes + 2>>,
                           time |-> writes + 2, tags |-> {}]} :
       /\ attr = NoAttr \/ attr.uuid # 0
       /\ file' = Append(file, [mtime |-> writes + 2, content |-> <<writes + 2>>, attr |-> attr])
  /\ path' = Len(file) + 1 /\ kept' = kept \cap file'[path'].attr.tags
  /\ proc' = Outdates({}, proc, TRUE)
  /\ UNCHANGED <<lockset, uuids>>

Init ==
  /\ \E attr \in {NoAttr, [uuid |-> 1, hash |-> <<1>>, time |-> 1, tags |-> {2}]} :
       /\ file = <<[mtime |-> 1, content |-> <<1>>, attr |-> attr]>>
       /\ uuids = attr.uuid /\ kept = attr.tags
  /\ path = 1
  /\ proc = [p \in Procs |-> NoProc]
  /\ lockset = FALSE /\ writes = 0

Proceed(p) ==
  \/ Lstat(p) \/ Get(p) \/ Repair(p) \/ Decide(p) \/ Update(p) \/ UpdateGet(p) \/ UpdateSet(p)
  \/ Digest(p) \/ AppendDecide(p) \/ Concat(p) \/ Check(p) \/ AppendRename(p)
Next ==
  \/ \E p \in Procs : (\E j \in Jobs : Begin(p, j)) \/ Proceed(p)
  \/ Write \/ Replace

Spec == Init /\ [][Next]_vars

-----------------------------------------------------------------------------
\* A hash whose time is that of the file is the hash of its content, however the worker,
\* the readers, APPEND and those who write or replace the file interleave: media are
\* found, and appended to, by it (xstat.js readXattr).
HashSound == \A f \in Inums : LET a == file[f].attr
                              IN  a.hash # <<>> /\ a.time = file[f].mtime => a.hash = file[f].content

\* A file has one uuid: once it has one, no reader who finds it without makes another (the
\* spinlock in xstat.js), and no writer of a hash or of tags gives it the uuid of another file;
\* unless the file came to the path after that process had read the attribute, and it writes
\* what it read of the one before.
OneUuidStep ==
  \A f \in Inums : file[f].attr.uuid \notin {0, file'[f].attr.uuid} =>
    \E p \in Procs : proc'[p].pc # proc[p].pc /\ proc[p].past

\* A tag that somebody was told is on the file stays through everything that repairs and
\* rewrites the attribute.  It goes by a call that takes it away or sets others; by APPEND, whose
\* file has the uuid and none of the tags (VFS.js 612); by one that had read the attribute before
\* it changed and writes all of it (updateFileTags and updateFileHash have no lock); and when
\* others put another file in the place.
TagsStayStep ==
  LET lost == kept \ file'[path'].attr.tags
      may(v) == \/ v.stale \/ v.pc = "rename"
                \/ v.pc = "uset" /\ v.job.do = "SETTAGS"
                \/ v.pc = "uset" /\ v.job.do = "REMOVETAGS" /\ lost \subseteq v.job.tags
  IN  lost # {} => \/ \E p \in Procs : proc'[p].pc # proc[p].pc /\ may(proc[p])
                   \/ path' # path /\ \A p \in Procs : proc'[p].pc = proc[p].pc
==============================================================================
