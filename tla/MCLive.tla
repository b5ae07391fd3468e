------------------------------- MODULE MCLive -------------------------------
(* XCopy and Forest for TLC under fairness: each behaviour is one of the     *)
(* two, chosen at the start; the variables of the other hold 0.  The copy is *)
(* XCopy itself, so that TLC finds the ancestors in its tree once.           *)
EXTENDS XCopy, TLC

CONSTANTS root, f1, d1, f2, d2,   \* a tree to copy: two files, two directories
          a, b, x, c1, c2         \* a drive: two directories, a name, two clients

VARIABLES part, disk, node, caller, due, faults, down, missed, skipped

mcNodes == {root, f1, d1, f2, d2}
mcParent == f1 :> root @@ d1 :> root @@ f2 :> d1 @@ d2 :> d1
mcTasks == [mode : {"clean"}, stepping : {FALSE}]
mcClashes == {[n \in mcNodes |-> IF n \in {f1, d1} THEN "same" ELSE "none"]}
mcGlobals == {[k \in {"file", "dir"} |-> <<"none", "none">>]}
mcUpdates == {<<"skip", "skip">>, <<"replace", "replace">>}

place(u, n) == [up |-> u, name |-> n, mtime |-> 1]
nested == root :> place("none", "none") @@ a :> place(root, x) @@ b :> place(a, x)
Drive == INSTANCE Forest WITH
  Dirs <- {root, a, b}, Root <- root, Names <- {x}, Clients <- {c1, c2}, ReadLimit <- 2,
  Trees <- {nested}, MaxFaults <- nested :> 1, client <- caller

driveVars == <<disk, node, caller, due, faults, down, missed, skipped>>
liveVars == <<part, vars, driveVars>>

LiveInit ==
  \/ /\ part = "copies" /\ Init
     /\ disk = 0 /\ node = 0 /\ caller = 0 /\ due = 0 /\ faults = 0 /\ down = 0
     /\ missed = 0 /\ skipped = 0
  \/ /\ part = "drive" /\ Drive!Init
     /\ task = 0 /\ st = 0 /\ call = 0 /\ used = 0 /\ local = 0 /\ global = 0 /\ kept = 0
     /\ src = 0 /\ dst = 0 /\ clash = 0 /\ scheduled = 0 /\ step = 0 /\ watching = 0
     /\ destroyed = 0 /\ broken = 0
LiveNext ==
  \/ part = "copies" /\ Next /\ UNCHANGED <<part, driveVars>>
  \/ part = "drive" /\ Drive!Next /\ UNCHANGED <<part, vars>>

\* nextTick callbacks run, calls of the file system return, whichever directory they are for.
CopySched == part = "copies" /\ Sched /\ UNCHANGED <<part, driveVars>>
CopyReturn(n) == part = "copies" /\ Return(n) /\ UNCHANGED <<part, driveVars>>
DriveSched == part = "drive" /\ Drive!Sched /\ UNCHANGED <<part, vars>>
DriveEvent(d) == part = "drive" /\ Drive!Event(d) /\ UNCHANGED <<part, vars>>
DriveCall(c) == part = "drive" /\ (Drive!Ask(c) \/ Drive!Removed(c)) /\ UNCHANGED <<part, vars>>
LiveSpec == /\ LiveInit /\ [][LiveNext]_liveVars
            /\ WF_liveVars(CopySched) /\ \A n \in mcNodes : WF_liveVars(CopyReturn(n))
            /\ WF_liveVars(DriveSched) /\ \A d \in {root, a, b} : WF_liveVars(DriveEvent(d))
            /\ \A c \in {c1, c2} : WF_liveVars(DriveCall(c))

-----------------------------------------------------------------------------
\* A copy ends, is deleted, or comes to rest where only the client can go on (xcopy.js).
Settles == <>[](part = "copies" =>
                  finished \/ destroyed \/
                  (Running = {} /\ ((\E n \in mcNodes : st[n] = "Conflict") \/ Stepping)))

\* A watcher hears when nothing runs any more, unless the task is deleted (xcopy.js watch).
WatchAnswered == (part = "copies" /\ watching) ~> (part = "copies" => ~watching \/ destroyed)

\* Every call that waits for a read of a directory is answered (directory.js read, restart,
\* destroy), as long as no name was lost to updateName() and the process runs.
CallsAnswered ==
  \A c \in {c1, c2} :
    (part = "drive" /\ caller[c].turn = "waiting") ~>
      (part = "drive" => caller[c].turn # "waiting" \/ down \/ Drive!Misnamed)

\* The reads come to an end: errors, races and changes during a read do not keep the
\* directories re-reading each other for ever (what DirReadDone of forest.js announces);
\* and the index is the disk by then, although a read failed.
ComesToRest ==
  /\ <>[](part = "drive" =>
           down \/ Drive!Misnamed \/ \A d \in Drive!Indexed(node) : node[d].state = "Idle")
  /\ [](part = "drive" => Drive!AgreesAtRest)
===============================================================================
