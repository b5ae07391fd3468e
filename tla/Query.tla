--------------------------------- MODULE Query ---------------------------------
(***************************************************************************)
(* QUERY of src/src/fruitmix/VFS.js: a client lists files page by page,    *)
(* and asks for each page with the last result of the one before.  By      *)
(* structure it walks the index of directories (directory.js iterate),     *)
(* directories first; by time it walks an array of files sorted by time    *)
(* and uuid (sorted-array.js).                                             *)
(*                                                                         *)
(* Names, and files by time and uuid, are numbers in their order; a path   *)
(* begins with the index of its place.  What a walk by structure meets is  *)
(* resolved afterwards, and what is no longer there is left out.           *)
(***************************************************************************)
EXTENDS Integers, Sequences, FiniteSets, SequencesExt, FiniteSetsExt

CONSTANTS Trees,      \* indexes to begin with: sets of entries [path, type]
          Arrays,     \* sets of files to begin with
          Keys,       \* times and uuids
          Counts,     \* sizes of a page
          MaxChanges

VARIABLES order,      \* find, oldest or newest
          fileOnly,
          tree, lost, \* the index, and files of it that the disk has no more
          files,      \* timedFiles: a sequence
          req,        \* the page under way
          got,        \* what the client has, in the order it came
          over,       \* it was given less than it asked for
          deep,       \* history: a page ended below the first level of its place
          kept,       \* history: what was there all the time
          changes

vars == <<order, fileOnly, tree, lost, files, req, got, over, deep, kept, changes>>

-----------------------------------------------------------------------------
\* sorted-array.js indexOf(), counted from 0: the first that is not smaller.
RECURSIVE Search(_, _, _, _, _)
Search(A, key, min, max, mid) ==
  IF min > max
  THEN IF A = <<>> \/ key < A[mid + 1] THEN mid ELSE mid + 1
  ELSE LET m == (min + max) \div 2
       IN  CASE key < A[m + 1] -> Search(A, key, min, m - 1, m)
             [] key > A[m + 1] -> Search(A, key, m + 1, max, m)
             [] key = A[m + 1] -> m
IndexOf(A, key) == Search(A, key, 0, Len(A) - 1, 0)
Insert(A, key) == LET i == IndexOf(A, key) IN SubSeq(A, 1, i) \o <<key>> \o SubSeq(A, i + 1, Len(A))
RemoveAt1(A, key) == LET i == IndexOf(A, key) IN SubSeq(A, 1, i) \o SubSeq(A, i + 2, Len(A))

\* iterateList(): from behind the last result, which may be there or not.
\* Mutant: the last result is not left out.
StartIncl(A, key, way) == LET i == IndexOf(A, key) IN IF i = Len(A) /\ way = "newest" THEN i - 1 ELSE i
Start(A, key, way) ==
  LET i == IndexOf(A, key)
  IN  CASE way = "newest" /\ i = Len(A) -> i - 1
        [] way = "newest" /\ i < Len(A) -> IF A[i + 1] = key THEN i - 1 ELSE i
        [] way = "oldest" -> IF i < Len(A) /\ A[i + 1] = key THEN i + 1 ELSE i
IterateList(A, last, way) ==
  IF way = "newest"
  THEN LET i == IF last = 0 THEN Len(A) - 1 ELSE Start(A, last, way) IN Reverse(SubSeq(A, 1, i + 1))
  ELSE LET i == IF last = 0 THEN 0 ELSE Start(A, last, way) IN SubSeq(A, i + 1, Len(A))

-----------------------------------------------------------------------------
\* iterate(): the directories of a directory, then its files, each sorted.
In(p, type) == LET S == {e \in tree : Len(e.path) = Len(p) + 1 /\ SubSeq(e.path, 1, Len(p)) = p /\ e.type = type}
               IN  SetToSortSeq({e.path[Len(p) + 1] : e \in S}, <)
Entry(p, n, type) == [path |-> Append(p, n), type |-> type]
FilesOf(p, names) == [i \in DOMAIN names |-> Entry(p, names[i], "file")]
RECURSIVE Visit(_, _)
Visit(p, dirs) == FlattenSeq([i \in DOMAIN dirs |->
  LET q == Append(p, dirs[i])
  IN  <<Entry(p, dirs[i], "directory")>> \o Visit(q, In(q, "directory")) \o FilesOf(q, In(q, "file"))])
Inside(p) == Visit(p, In(p, "directory")) \o FilesOf(p, In(p, "file"))

\* From behind a path, which may be there or not.  Below the first level the directories
\* behind the one that is entered are not visited; and if it is gone the files are, twice.
NotBefore(names, n) == SelectSeq(names, LAMBDA m : m >= n)
\* Mutant: NotBefore gives the file that was the last result again.
Behind(names, n) == SelectSeq(names, LAMBDA m : m > n)
RECURSIVE From(_, _, _)
From(p, names, type) ==
  LET dirs == In(p, "directory")
      fs == FilesOf(p, In(p, "file"))
      n == Head(names)
      there == NotBefore(dirs, n) # <<>> /\ Head(NotBefore(dirs, n)) = n
  IN  CASE names = <<>> -> Inside(p)
        [] Len(names) = 1 /\ type = "directory" ->
             (IF there THEN Inside(Append(p, n)) ELSE <<>>) \o Visit(p, Behind(dirs, n)) \o fs
        [] Len(names) = 1 /\ type = "file" -> FilesOf(p, Behind(In(p, "file"), n))
        [] Len(names) > 1 /\ there -> From(Append(p, n), Tail(names), type) \o fs
        [] Len(names) > 1 /\ ~there /\ NotBefore(dirs, n) = <<>> -> fs
        [] Len(names) > 1 /\ ~there /\ NotBefore(dirs, n) # <<>> -> Visit(p, Behind(dirs, n)) \o fs \o fs

\* iterateTreeSync(): the place of the last result, and those behind it.
Places == {1, 2}
Wanted(e) == ~fileOnly \/ e.type = "file"
IterateTree(last) ==
  SelectSeq(IF last = <<>> THEN Inside(<<1>>) \o Inside(<<2>>)
            ELSE LET l == last[1]
                 IN  From(<<l.path[1]>>, Tail(l.path), l.type) \o (IF l.path[1] = 1 THEN Inside(<<2>>) ELSE <<>>),
            Wanted)
Upto(s, n) == SubSeq(s, 1, Min({n, Len(s)}))

-----------------------------------------------------------------------------
\* QUERY, for the next page; by time it is answered from the array.
Ask(n) ==
  /\ req.pc = "idle" /\ ~over
  /\ LET last == IF got = <<>> THEN <<>> ELSE <<Last(got)>>
     IN  IF order = "find"
         THEN /\ req' = [pc |-> "walk", count |-> n, left |-> n, last |-> last, cand |-> <<>>, arr |-> <<>>]
              /\ deep' = (deep \/ (last # <<>> /\ Len(Last(got).path) > 2)) /\ UNCHANGED <<got, over>>
         ELSE /\ LET page == Upto(IterateList(files, IF got = <<>> THEN 0 ELSE Last(got), order), n)
                 IN  got' = got \o page /\ over' = (Len(page) < n)
              /\ UNCHANGED <<req, deep>>
  /\ UNCHANGED <<order, fileOnly, tree, lost, files, kept, changes>>

\* iterateTreeAsync(): candidates are taken and resolved, and others for those not there.
Gives(page) ==
  /\ got' = got \o page /\ over' = (Len(page) < req.count)
  /\ req' = [req EXCEPT !.pc = "idle", !.arr = <<>>, !.cand = <<>>, !.last = <<>>]
Walk ==
  /\ req.pc = "walk"
  /\ LET c == Upto(IterateTree(req.last), req.left)
     IN  IF c = <<>> THEN Gives(req.arr)
         ELSE req' = [req EXCEPT !.pc = "resolve", !.cand = c] /\ UNCHANGED <<got, over>>
  /\ UNCHANGED <<order, fileOnly, tree, lost, files, deep, kept, changes>>
\* Mutant: a page that lost some is given as it is.
GoesOnNot(left) == FALSE
GoesOn(left) == Len(req.cand) = req.left /\ left > 0
Resolve ==
  /\ req.pc = "resolve"
  /\ LET arr == req.arr \o SelectSeq(req.cand, LAMBDA e : e \notin lost)
         left == req.count - Len(arr)
     IN  IF GoesOn(left)
         THEN /\ req' = [req EXCEPT !.pc = "walk", !.arr = arr, !.left = left, !.last = <<Last(req.cand)>>, !.cand = <<>>]
              /\ deep' = (deep \/ Len(Last(req.cand).path) > 2) /\ UNCHANGED <<got, over>>
         ELSE Gives(arr) /\ UNCHANGED deep
  /\ UNCHANGED <<order, fileOnly, tree, lost, files, kept, changes>>

\* The index and the disk change.
Under(p, q) == Len(q) >= Len(p) /\ SubSeq(q, 1, Len(p)) = p
Change == changes < MaxChanges /\ changes' = changes + 1
Lose(e) ==
  /\ order = "find" /\ e.type = "file" /\ e \notin lost /\ Change
  /\ lost' = lost \cup {e} /\ kept' = kept \ {e}
  /\ UNCHANGED <<order, fileOnly, tree, files, req, got, over, deep>>
Unindex(e) ==
  /\ order = "find" /\ Change
  /\ tree' = {f \in tree : ~Under(e.path, f.path)} /\ kept' = kept \cap tree'
  /\ UNCHANGED <<order, fileOnly, lost, files, req, got, over, deep>>
InsertFile(k) ==
  /\ order # "find" /\ k \notin ToSet(files) /\ Change
  /\ files' = Insert(files, k)
  /\ UNCHANGED <<order, fileOnly, tree, lost, req, got, over, deep, kept>>
RemoveFile(k) ==
  /\ order # "find" /\ k \in ToSet(files) /\ Change
  /\ files' = RemoveAt1(files, k) /\ kept' = kept \ {k}
  /\ UNCHANGED <<order, fileOnly, tree, lost, req, got, over, deep>>

Idle == [pc |-> "idle", count |-> 0, left |-> 0, last |-> <<>>, cand |-> <<>>, arr |-> <<>>]
Init ==
  /\ \/ order = "find" /\ fileOnly \in BOOLEAN /\ files = <<>>
        /\ tree \in Trees /\ kept = tree
     \/ order \in {"newest", "oldest"} /\ fileOnly = FALSE /\ tree = {}
        /\ \E A \in Arrays : files = SetToSortSeq(A, <) /\ kept = A
  /\ lost = {} /\ req = Idle /\ got = <<>> /\ over = FALSE /\ deep = FALSE /\ changes = 0

Next ==
  \/ \E n \in Counts : Ask(n)
  \/ Walk \/ Resolve
  \/ \E e \in tree : Lose(e) \/ Unindex(e)
  \/ \E k \in Keys : InsertFile(k) \/ RemoveFile(k)
Spec == Init /\ [][Next]_vars

-----------------------------------------------------------------------------
\* The array is sorted, and its binary search finds the place of every key, there or not.
Sorted(A) == \A i, j \in DOMAIN A : i < j => A[i] < A[j]
SearchFinds ==
  /\ Sorted(files)
  /\ \A k \in Keys : IndexOf(files, k) = Cardinality({i \in DOMAIN files : files[i] < k})

\* Pages do not repeat a file, and when one is short everything that was there all the time
\* has come.  By time this holds whatever comes and goes, but that the newest first repeats
\* one when the last result is gone.  By structure the index is not to change; and what
\* follows a page that ended below the first level is missing.
Steady == \/ order = "oldest"
          \/ order = "newest" /\ changes = 0
          \/ order = "find" /\ changes = Cardinality(lost)
All == IF order = "find" THEN {e \in kept : Wanted(e)} ELSE kept
PagesPartition ==
  /\ Steady => IsInjective(got)
  /\ over /\ ~deep /\ (order = "find" => Steady) => All \subseteq ToSet(got)

\* "when fewer results are returned than the client asked for, the query is complete".
ShortIsComplete == over /\ changes = 0 => All \subseteq ToSet(got)
================================================================================
