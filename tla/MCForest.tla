------------------------------- MODULE MCForest -------------------------------
(* Instances of Forest for TLC: a drive with two directories.            *)
EXTENDS Forest, TLC

CONSTANTS root, a, b, x, y, c1, c2, c3

place(u, n) == [up |-> u, name |-> n, mtime |-> 1]
gone == [up |-> None, name |-> None, mtime |-> 0]
mcTrees == {root :> place(None, None) @@ a :> place(root, x) @@ b :> p :
              p \in {place(a, y), gone}}
racedTrees == {root :> place(None, None) @@ a :> place(root, x) @@ b :> place(root, y)}
\* One thing goes wrong on the drive that begins with both: a read fails, or entries cannot be
\* read, or changes come in one millisecond; without it there is room for new directories.
mcFaults == [t \in mcTrees |-> IF t[b] = gone THEN 0 ELSE 1]
noFaults == [t \in racedTrees |-> 0]
sym == Permutations({c1, c2})
==============================================================================
