------------------------------ MODULE MCFiles ------------------------------
(* FileParts for TLC: two calls on one directory, two processes on one    *)
(* attribute, two files in two directories.                               *)
EXTENDS FileParts

CONSTANTS s, t, none   \* two paths elsewhere

O(api, from, same, diff) == [api |-> api, from |-> from, same |-> same, diff |-> diff]
mcOps == {O("NEWFILE", none, "none", "none"), O("NEWFILE", none, "replace", "skip"),
          O("NEWFILE", none, "rename", "rename"),
          O("MKDIR", none, "skip", "none"), O("MKDIR", none, "rename", "replace"),
          O("CPFILE", s, "rename", "none"), O("RENAME", s, "rename", "rename"),
          O("RENAME", t, "none", "replace"),
          O("MVFILE", s, "replace", "none"), O("MVFILE", s, "rename", "none"), O("MVDIRS", t, "rename", "rename"),
          O("REMOVE", s, "none", "none"), O("REMOVE", 1, "none", "none")}
mcBegins == {[p \in {1, 2, 3, 4, s, t} |->
                CASE p = s -> [kind |-> "file", obj |-> 10]
                  [] p = t -> [kind |-> "dir", obj |-> 11]
                  [] p = 1 /\ k # "none" -> [kind |-> k, obj |-> 12]
                  [] p \in {2, 3, 4} \/ (p = 1 /\ k = "none") -> [kind |-> "none", obj |-> 0]] :
              k \in {"none", "file", "dir", "special"}}

mcJobs == [do : {"read", "hash", "APPEND"}, tags : {{}}] \cup
          {[do |-> "ADDTAGS", tags |-> {9}], [do |-> "ADDTAGS", tags |-> {10}],
           [do |-> "REMOVETAGS", tags |-> {2}], [do |-> "SETTAGS", tags |-> {9, 10}]}

\* The two directories of the index are alike: the first file is in the first.
MCInit == FilesInit /\ (part = "index" => disk[1].dir = "d")
MCSpec == MCInit /\ [][FilesNext]_filesVars /\ WF_filesVars(FilesProceed)

-----------------------------------------------------------------------------
\* Every call on a name is answered, but behind a flag that leaked (of two calls alike the
\* first stands for both); every file of the index gets a hash or is given up: failures are
\* retried three times, a place that becomes free is used.
FilesSettle ==
  /\ (part = "names" /\ 1 \in Active) ~>
       (part # "names" \/ 1 \notin Active \/ (call[1].pc = "wait" /\ Leaked))
  /\ <>[](part = "index" => Index!Holds("hashless") \cup Index!Holds("hashing") = {})
============================================================================
