------------------------------- MODULE MCXCopy -------------------------------
(* Instances of XCopy for TLC: a root with a file and a directory, which   *)
(* holds a file and an empty directory.                                    *)
EXTENDS XCopy, TLC

CONSTANTS root, f1, d1, f2, d2

mcNodes == {root, f1, d1, f2, d2}
mcParent == f1 :> root @@ d1 :> root @@ f2 :> d1 @@ d2 :> d1
mcClashes == {[n \in mcNodes |-> IF n \in C THEN "same"
                                 ELSE IF n \in D THEN "diff" ELSE Clean] :
                C \in {{}, {d1}, {f1, d1, f2, d2}}, D \in {{}, {d1}, {f2}}}
mcTasks == [mode : {"copy", "move", "clean"}, stepping : {FALSE}]
             \cup [mode : {"copy"}, stepping : {TRUE}]

NoGlobals == {[k \in {"file", "dir"} |-> Unset]}
mcGlobals == NoGlobals \cup
  {("file" :> <<"skip", "replace">>) @@ ("dir" :> <<"keep", "skip">>)}
mcUpdates == {<<"skip", "skip">>, <<"replace", "skip">>, <<"keep", "replace">>}
==============================================================================
