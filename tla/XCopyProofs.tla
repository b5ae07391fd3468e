----------------------------- MODULE XCopyProofs -----------------------------
(* Safety of XCopy, for any tree, tasks, limits, clashes and policies.     *)
EXTENDS XCopy, FiniteSetTheorems, TLAPS

-----------------------------------------------------------------------------
(* The tree.                                                               *)

\* What holds of the root, and of a node whenever of its parent, holds of all.
LEMMA Downward ==
  ASSUME NEW S \in SUBSET Nodes, Root \in S,
         \A n \in Nodes \ {Root} : Parent[n] \in S => n \in S
  PROVE  S = Nodes
<1>1. Nodes \ S \in SUBSET (Nodes \ {Root})
  OBVIOUS
<1>2. ASSUME Nodes \ S # {} PROVE FALSE
  <2>1. PICK n \in Nodes \ S : Parent[n] \notin Nodes \ S
    BY <1>1, <1>2, TreeAssumption
  <2>2. Parent[n] \in Nodes
    BY <2>1, TreeAssumption
  <2> QED BY <2>1, <2>2
<1> QED BY <1>2

\* A path has its foot, is closed upward and is the least such set.
LEMMA PathFacts ==
  ASSUME NEW n \in Nodes
  PROVE  /\ Path(n) \subseteq Nodes /\ n \in Path(n) /\ Upward(Path(n))
         /\ \A S \in SUBSET Nodes : n \in S /\ Upward(S) => Path(n) \subseteq S
<1>1. Path(n) \subseteq Nodes /\ n \in Path(n)
  BY DEF Path
<1>2. \A S \in SUBSET Nodes : n \in S /\ Upward(S) => Path(n) \subseteq S
  BY DEF Path
<1>3. ASSUME NEW a \in Path(n) \ {Root} PROVE Parent[a] \in Path(n)
  <2>1. Parent[a] \in Nodes
    BY <1>1, TreeAssumption
  <2>2. ASSUME NEW S \in SUBSET Nodes, n \in S, Upward(S) PROVE Parent[a] \in S
    BY <1>2, <2>2 DEF Upward
  <2> QED BY <2>1, <2>2 DEF Path
<1> QED BY <1>1, <1>2, <1>3 DEF Upward

\* The path of a node is the node and the path of its parent.
LEMMA PathStep ==
  /\ Path(Root) = {Root}
  /\ \A n \in Nodes \ {Root} : Path(n) = {n} \cup Path(Parent[n])
<1>1. Path(Root) = {Root}
  <2>1. Root \in Nodes /\ {Root} \in SUBSET Nodes /\ Upward({Root})
    BY TreeAssumption DEF Upward
  <2> QED BY <2>1, PathFacts
<1>2. ASSUME NEW n \in Nodes \ {Root} PROVE Path(n) = {n} \cup Path(Parent[n])
  <2> DEFINE p == Parent[n]
  <2>1. p \in Nodes
    BY TreeAssumption
  <2>2. Path(p) \subseteq Path(n)
    BY <2>1, PathFacts DEF Upward
  <2>3. Upward({n} \cup Path(p))
    BY <2>1, PathFacts DEF Upward
  <2>4. Path(n) \subseteq {n} \cup Path(p)
    BY <2>1, <2>3, PathFacts
  <2> QED BY <2>2, <2>4, PathFacts
<1> QED BY <1>1, <1>2

\* No node is above its parent.
LEMMA NoCycle == \A n \in Nodes \ {Root} : n \notin Path(Parent[n])
<1> DEFINE S == {n \in Nodes : n = Root \/ n \notin Path(Parent[n])}
<1>1. ASSUME NEW n \in Nodes \ {Root}, Parent[n] \in S PROVE n \in S
  <2> DEFINE p == Parent[n]
  <2>1. p \in Nodes
    BY TreeAssumption
  <2>2. CASE p = Root
    BY <2>2, PathStep
  <2>3. CASE p # Root
    <3>1. p \notin Path(Parent[p]) /\ Path(p) = {p} \cup Path(Parent[p])
      BY <1>1, <2>1, <2>3, PathStep
    <3>2. n \in Path(Parent[p]) => p \in Path(Parent[p])
      BY <2>1, <2>3, PathFacts, TreeAssumption DEF Upward
    <3> QED BY <3>1, <3>2
  <2> QED BY <2>2, <2>3
<1>2. S = Nodes
  <2>1. S \in SUBSET Nodes /\ Root \in S
    BY TreeAssumption
  <2> HIDE DEF S
  <2> QED BY <1>1, <2>1, Downward
<1> QED BY <1>2

\* The ancestors of a node are its parent and that one's ancestors, directories all,
\* and none of them is the node.
LEMMA AncestorFacts ==
  /\ Ancestors[Root] = {}
  /\ \A n \in Nodes \ {Root} :
       /\ Parent[n] \in Dirs
       /\ Ancestors[n] = {Parent[n]} \cup Ancestors[Parent[n]]
  /\ \A n \in Nodes : Ancestors[n] \subseteq Dirs /\ n \notin Ancestors[n]
<1>1. \A n \in Nodes : Ancestors[n] = IF n = Root THEN {} ELSE Path(Parent[n])
  BY DEF Ancestors
<1>2. Ancestors[Root] = {} /\ \A n \in Nodes \ {Root} : Parent[n] \in Dirs
  BY <1>1, TreeAssumption DEF Dirs
<1>3. \A n \in Nodes : Path(n) = {n} \cup Ancestors[n]
  BY <1>1, PathStep
<1>4. \A n \in Nodes \ {Root} : Ancestors[n] = {Parent[n]} \cup Ancestors[Parent[n]]
  BY <1>1, <1>2, <1>3 DEF Dirs
<1>5. \A n \in Nodes : n \notin Ancestors[n]
  BY <1>1, NoCycle
<1> DEFINE S == {n \in Nodes : Ancestors[n] \subseteq Dirs}
<1>6. S = Nodes
  <2>1. S \in SUBSET Nodes /\ Root \in S
    BY <1>2, TreeAssumption
  <2>2. \A n \in Nodes \ {Root} : Parent[n] \in S => n \in S
    BY <1>2, <1>4
  <2> HIDE DEF S
  <2> QED BY <2>1, <2>2, Downward
<1> QED BY <1>2, <1>4, <1>5, <1>6

\* Above is transitive, and the ancestors of a node stand above each other.
LEMMA AboveOrder ==
  ASSUME NEW n \in Nodes
  PROVE  /\ \A a \in Ancestors[n] : Ancestors[a] \subseteq Ancestors[n]
         /\ \A a, b \in Ancestors[n] \cup {n} :
              a = b \/ a \in Ancestors[b] \/ b \in Ancestors[a]
<1> DEFINE S == {m \in Nodes :
                  /\ \A a \in Ancestors[m] : Ancestors[a] \subseteq Ancestors[m]
                  /\ \A a, b \in Ancestors[m] \cup {m} :
                       a = b \/ a \in Ancestors[b] \/ b \in Ancestors[a]}
<1>1. S \in SUBSET Nodes /\ Root \in S
  BY AncestorFacts, TreeAssumption
<1>2. ASSUME NEW m \in Nodes \ {Root}, Parent[m] \in S PROVE m \in S
  <2>1. Ancestors[m] = {Parent[m]} \cup Ancestors[Parent[m]]
    BY AncestorFacts
  <2>2. \A a \in Ancestors[m] : Ancestors[a] \subseteq Ancestors[m]
    BY <1>2, <2>1
  <2>3. \A a, b \in Ancestors[m] \cup {m} : a = b \/ a \in Ancestors[b] \/ b \in Ancestors[a]
    BY <1>2, <2>1
  <2> QED BY <2>2, <2>3
<1>3. S = Nodes
  <2> HIDE DEF S
  <2> QED BY <1>1, <1>2, Downward
<1> QED BY <1>3

\* Between a directory and what is below it is one of its children.
LEMMA ChildBetween ==
  ASSUME NEW d \in Nodes, NEW m \in Below(d)
  PROVE  \E c \in Children(d) : m = c \/ c \in Ancestors[m]
<1> DEFINE S == {n \in Nodes : d \in Ancestors[n] =>
                                 \E c \in Children(d) : n = c \/ c \in Ancestors[n]}
<1>1. S \in SUBSET Nodes /\ Root \in S
  BY AncestorFacts, TreeAssumption
<1>2. ASSUME NEW n \in Nodes \ {Root}, Parent[n] \in S PROVE n \in S
  <2>1. Ancestors[n] = {Parent[n]} \cup Ancestors[Parent[n]]
    BY AncestorFacts
  <2>2. CASE Parent[n] = d
    BY <2>2 DEF Children
  <2>3. CASE Parent[n] # d
    BY <1>2, <2>1, <2>3
  <2> QED BY <2>2, <2>3
<1>3. S = Nodes
  <2> HIDE DEF S
  <2> QED BY <1>1, <1>2, Downward
<1> QED BY <1>3 DEF Below

-----------------------------------------------------------------------------
(* The inductive invariant.                                                *)

Pends(S, n) == S[n] \notin {"none", "Failed", "Finish"}

\* The first two parts of TreeShape, of any states S, and the third.
Shape(S) ==
  /\ \A n \in Nodes \ {Root} : Pends(S, n) => S[Parent[n]] = "Parent"
  /\ \A d \in Dirs : S[d] = "Parent" => \E c \in Children(d) : Pends(S, c)
  /\ S[Root] \in {"none", "Preparing", "Parent", "Failed", "Finish"}

\* Which states are a file's and a directory's, and when a source is being removed.
Kinds ==
  /\ clash \in [Nodes -> {Clean, "same", "diff"}]
  /\ \A n \in Nodes : /\ st[n] = "Working" => n \in Files
                      /\ st[n] \in {"Mkdir", "Preparing", "Parent", "Finishing"} => n \in Dirs
                      /\ call[n] = "delete" => st[n] = "Working" /\ n \in dst

\* A stopped task has nothing at work and no tick to come.
Stops == Stepping /\ ~destroyed /\ step = "Stopped" => ~scheduled /\ Running = {}

\* Of states S, source R, target D and merged directories K: what left the source, and
\* what was merged with, is in the target.
Arrived(R, D, K) == D \subseteq Nodes /\ Nodes \ R \subseteq D /\ K \subseteq D

\* A directory is made before it is entered, and not while it is in conflict.
Entered(S, D) == \A d \in Dirs :
                   /\ S[d] \in {"waiting", "Preparing", "Parent", "Finishing"} => d \in D
                   /\ S[d] \in {"Mkdir", "Conflict"} => d \notin D

\* Nothing is seen below a directory that was not read.
Early == {"none", "waiting", "Working", "Mkdir", "Conflict", "Preparing"}
Unseen(S) == \A n \in Nodes : S[n] \in Early => \A m \in Below(n) : S[m] = "none"

\* An unseen node in the target came there with one above it, and with all below it.
Carried(S, R, D) == \A n \in Nodes \ {Root} :
                      S[n] = "none" /\ n \in D => n \notin R /\ Below(n) \subseteq D

\* A node that finished was placed or met something.
Met(S, D) == \A n \in Nodes : S[n] = "Finish" => n \in D \/ clash[n] # Clean

\* What a directory passed over is in the target, or the directory was skipped.
Skipped(n, D) == n \notin D /\ clash[n] # Clean
PassedOver(c, d, D) == c \in D \/ Skipped(d, D)
Passed(S, D) == \A n \in Nodes \ {Root} :
                  S[n] = "none" /\ S[Parent[n]] \in {"Parent", "Finishing", "Finish"} =>
                    PassedOver(n, Parent[n], D)

Placed(S, R, D, K) == /\ Root \in D /\ Arrived(R, D, K) /\ Entered(S, D) /\ Unseen(S)
                      /\ Carried(S, R, D) /\ Met(S, D) /\ Passed(S, D)

IInv == TypeOK /\ Shape(st) /\ Kinds /\ Stops /\ Placed(st, src, dst, kept)
          /\ FileConflictIsOpen

-----------------------------------------------------------------------------
(* What End and TryFinish do to the tree.                                  *)

\* Whoever is below a pending node's ancestors is below directories in Parent.
LEMMA AboveWaits ==
  ASSUME NEW S \in [Nodes -> States], Shape(S), NEW n \in Nodes, Pends(S, n)
  PROVE  \A a \in Ancestors[n] : S[a] = "Parent"
<1> DEFINE T == {m \in Nodes : Pends(S, m) => \A a \in Ancestors[m] : S[a] = "Parent"}
<1>1. T \in SUBSET Nodes /\ Root \in T
  BY AncestorFacts, TreeAssumption
<1>2. ASSUME NEW m \in Nodes \ {Root}, Parent[m] \in T PROVE m \in T
  <2>1. Pends(S, m) => S[Parent[m]] = "Parent"
    BY DEF Shape
  <2>2. Pends(S, m) => Pends(S, Parent[m])
    BY <2>1 DEF Pends
  <2> QED BY <1>2, <2>1, <2>2, AncestorFacts
<1>3. T = Nodes
  <2> HIDE DEF T
  <2> QED BY <1>1, <1>2, Downward
<1> QED BY <1>3

\* The states after node n ended in s and its ancestors in Closing followed.
Ended(n, s, S) == [m \in Nodes |-> IF m = n THEN s
                                   ELSE IF m \notin Closing(n, S) THEN S[m]
                                   ELSE IF Cleans(m) THEN "Finishing" ELSE "Finish"]

\* A cascade leaves a tree of the same shape, and touches ancestors in Parent only.
LEMMA EndedShape ==
  ASSUME NEW S \in [Nodes -> States], Shape(S), NEW n \in Nodes, Pends(S, n),
         S[n] # "Parent", NEW s \in {"Failed", "Finish"}
  PROVE  /\ Ended(n, s, S) \in [Nodes -> States]
         /\ Shape(Ended(n, s, S))
         /\ \A m \in Nodes \ {n} : \/ Ended(n, s, S)[m] = S[m]
                                   \/ /\ S[m] = "Parent" /\ m \in Dirs
                                      /\ Ended(n, s, S)[m] \in {"Finishing", "Finish"}
<1> DEFINE T == Ended(n, s, S)
           up == Closing(n, S)
<1>1. /\ T \in [Nodes -> States] /\ up \subseteq Ancestors[n]
      /\ \A m \in Nodes : T[m] = IF m = n THEN s ELSE IF m \notin up THEN S[m]
                                  ELSE IF Cleans(m) THEN "Finishing" ELSE "Finish"
  BY DEF Ended, States, Closing
<1>2. /\ \A a \in Ancestors[n] : S[a] = "Parent" /\ a \in Dirs /\ a # n
      /\ n # Root => S[Parent[n]] = "Parent"
  BY AboveWaits, AncestorFacts DEF Shape
<1>3. \A m \in Nodes \ {n} : \/ T[m] = S[m]
                             \/ S[m] = "Parent" /\ m \in Dirs /\ T[m] \in {"Finishing", "Finish"}
  BY <1>1, <1>2
<1>4. \A a \in up : \A m \in Below(a) \ {n} : ~Pends(S, m) \/ (m \in Ancestors[n] /\ ~Cleans(m))
  BY DEF Closing, Pends
<1>5. ASSUME NEW a \in Ancestors[n], a \notin up
      PROVE  \E m \in Below(a) \ {n} : Pends(S, m) /\ (m \in Ancestors[n] => Cleans(m))
  <2>1. ~ \A m \in Below(a) \ {n} : S[m] \in {"none", "Failed", "Finish"} \/ (m \in Ancestors[n] /\ ~Cleans(m))
    BY <1>5 DEF Closing
  <2> QED BY <2>1 DEF Pends
<1>6. \A a \in Nodes : \A m \in Below(a) : Below(m) \subseteq Below(a)
  BY AboveOrder DEF Below
<1>7. ASSUME NEW m \in Nodes \ {Root}, Pends(T, m) PROVE T[Parent[m]] = "Parent"
  <2> DEFINE p == Parent[m]
  <2>1. m # n /\ p \in Dirs /\ p \in Nodes /\ m \in Below(p) /\ p # m
    BY <1>1, <1>7, AncestorFacts DEF Pends, Below, Dirs
  <2>2. Pends(S, m)
    BY <1>3, <1>7, <2>1 DEF Pends
  <2>3. S[p] = "Parent"
    BY <2>2 DEF Shape
  <2>4. ASSUME p \in up PROVE FALSE
    <3>1. m \in Ancestors[n] /\ ~Cleans(m)
      BY <1>4, <2>1, <2>2, <2>4
    <3>2. m \in up
      BY <1>4, <1>6, <2>1, <2>4, <3>1 DEF Closing, Pends
    <3> QED BY <1>1, <1>7, <2>1, <3>1, <3>2 DEF Pends
  <2>5. p # n
    BY <2>3
  <2> QED BY <1>1, <2>1, <2>3, <2>4, <2>5
<1>8. ASSUME NEW d \in Dirs, T[d] = "Parent" PROVE \E c \in Children(d) : Pends(T, c)
  <2>1. d \in Nodes /\ d # n /\ d \notin up /\ S[d] = "Parent"
    BY <1>1, <1>8 DEF Dirs
  <2>2. PICK c \in Children(d) : Pends(S, c)
    BY <2>1 DEF Shape
  <2>3. c \in Nodes \ {Root} /\ Parent[c] = d /\ Ancestors[c] = {d} \cup Ancestors[d]
    BY AncestorFacts DEF Children
  <2>4. CASE c # n /\ (c \notin up \/ Cleans(c))
    BY <1>1, <2>2, <2>3, <2>4 DEF Pends
  <2>5. CASE c = n \/ (c \in up /\ ~Cleans(c))
    <3>1. d \in Ancestors[n]
      BY <1>1, <2>3, <2>5, AboveOrder
    <3>2. PICK m \in Below(d) \ {n} : Pends(S, m) /\ (m \in Ancestors[n] => Cleans(m))
      BY <1>5, <2>1, <3>1
    <3>3. PICK e \in Children(d) : m = e \/ e \in Ancestors[m]
      BY <2>1, ChildBetween
    <3>4. e \in Nodes \ {Root} /\ Parent[e] = d /\ Ancestors[e] = {d} \cup Ancestors[d] /\ m \in Nodes
      BY AncestorFacts DEF Children, Below
    <3>5. Pends(S, e)
      BY <3>2, <3>3, <3>4, AboveWaits DEF Pends
    <3>6. CASE e # c
      <4>1. e \notin Ancestors[c] /\ c \notin Ancestors[e]
        BY <2>3, <3>4, <3>6, AncestorFacts, AboveOrder
      <4>2. c \in Ancestors[n] \cup {n}
        BY <1>1, <2>5
      <4>3. e \notin Ancestors[n] \cup {n}
        BY <3>6, <4>1, <4>2, AboveOrder
      <4> QED BY <1>1, <3>4, <3>5, <4>3 DEF Pends
    <3>7. CASE e = c
      <4>1. CASE c = n
        <5>1. n \in Ancestors[m]
          BY <3>2, <3>3, <3>7, <4>1
        <5> QED BY <3>2, <3>4, <5>1, AboveWaits
      <4>2. CASE c \in up /\ ~Cleans(c)
        <5>1. m # c
          BY <1>1, <3>2, <4>2
        <5>2. m \in Below(c)
          BY <3>3, <3>4, <3>7, <5>1 DEF Below
        <5> QED BY <1>4, <3>2, <4>2, <5>2
      <4> QED BY <2>5, <4>1, <4>2
    <3> QED BY <3>6, <3>7
  <2> QED BY <2>4, <2>5
<1>9. T[Root] \in {"none", "Preparing", "Parent", "Failed", "Finish"}
  <2>1. Root \in Nodes /\ ~Cleans(Root)
    BY TreeAssumption DEF Cleans
  <2> QED BY <1>1, <2>1 DEF Shape
<1> HIDE DEF T
<1>10. Shape(T)
  BY <1>7, <1>8, <1>9 DEF Shape
<1> QED BY <1>1, <1>3, <1>10 DEF T

Calls == {"none", "op", "batch", "delete"}

\* What End and TryFinish of node n have in common, from states S.
Cascade(n, S) ==
  /\ st' \in [Nodes -> States] /\ Shape(st')
  /\ \A m \in Nodes \ {n} : \/ st'[m] = S[m]
                            \/ S[m] = "Parent" /\ m \in Dirs /\ st'[m] \in {"Finishing", "Finish"}
  /\ call' \in [Nodes -> Calls]
  /\ \A m \in Nodes : call'[m] = "delete" => call[m] = "delete" /\ m # n

\* End takes node n to s with such a cascade.
LEMMA EndStep ==
  ASSUME NEW S \in [Nodes -> States], Shape(S), NEW n \in Nodes, Pends(S, n),
         S[n] # "Parent", NEW s \in {"Failed", "Finish"}, call \in [Nodes -> Calls],
         End(n, s, S)
  PROVE  Cascade(n, S) /\ st'[n] = s
<1>1. st' = Ended(n, s, S) /\ st'[n] = s
  BY DEF End, Ended
<1>2. call' = [m \in Nodes |-> IF m \in Closing(n, S) /\ Cleans(m) THEN "op"
                               ELSE IF m = n THEN "none" ELSE call[m]]
  BY DEF End
<1>3. call' \in [Nodes -> Calls] /\ \A m \in Nodes : call'[m] = "delete" => call[m] = "delete" /\ m # n
  BY <1>2 DEF Calls
<1> QED BY <1>1, <1>3, EndedShape DEF Cascade

\* TryFinish takes directory d to Finishing if it cleans its source and ends it if not.
LEMMA TryFinishStep ==
  ASSUME NEW S \in [Nodes -> States], Shape(S), NEW d \in Dirs, Pends(S, d),
         S[d] # "Parent", call \in [Nodes -> Calls], TryFinish(d, S)
  PROVE  Cascade(d, S) /\ st'[d] = IF Cleans(d) THEN "Finishing" ELSE "Finish"
<1>0. d \in Nodes
  BY DEF Dirs
<1>1. CASE Cleans(d)
  <2>1. st' = [S EXCEPT ![d] = "Finishing"] /\ call' = [call EXCEPT ![d] = "op"] /\ d # Root
    BY <1>1 DEF TryFinish, Cleans
  <2>2. /\ st' \in [Nodes -> States] /\ st'[d] = "Finishing"
        /\ \A m \in Nodes \ {d} : st'[m] = S[m]
        /\ call' \in [Nodes -> Calls] /\ \A m \in Nodes : call'[m] = "delete" => call[m] = "delete" /\ m # d
    BY <1>0, <2>1 DEF States, Calls
  <2>3. \A n \in Nodes : Pends(st', n) <=> Pends(S, n)
    BY <1>0, <2>2 DEF Pends
  <2>4. \A n \in Nodes \ {Root} : Pends(st', n) => st'[Parent[n]] = "Parent"
    BY <2>2, <2>3, AncestorFacts DEF Shape, Dirs
  <2>5. \A e \in Dirs : st'[e] = "Parent" => \E c \in Children(e) : Pends(st', c)
    BY <1>0, <2>2, <2>3 DEF Shape, Dirs, Children
  <2>6. Shape(st')
    BY <2>1, <2>2, <2>4, <2>5, TreeAssumption DEF Shape
  <2> QED BY <1>1, <2>2, <2>6 DEF Cascade
<1>2. CASE ~Cleans(d)
  BY <1>0, <1>2, EndStep DEF TryFinish
<1> QED BY <1>1, <1>2

\* A pending node that goes on as a pending one that does not wait for its children,
\* as it did not before, leaves the shape.
LEMMA PendingShape ==
  ASSUME NEW S \in [Nodes -> States], Shape(S), NEW n \in Nodes, Pends(S, n), S[n] # "Parent",
         NEW s \in States, s \notin {"none", "Parent", "Failed", "Finish"},
         n = Root => s = "Preparing"
  PROVE  Shape([S EXCEPT ![n] = s])
<1> DEFINE T == [S EXCEPT ![n] = s]
<1>1. T[n] = s /\ \A m \in Nodes \ {n} : T[m] = S[m]
  OBVIOUS
<1> HIDE DEF T
<1>2. \A m \in Nodes : Pends(T, m) <=> Pends(S, m)
  BY <1>1 DEF Pends
<1>3. \A m \in Nodes \ {Root} : Pends(T, m) => T[Parent[m]] = "Parent"
  BY <1>1, <1>2, AncestorFacts DEF Shape, Dirs
<1>4. \A d \in Dirs : T[d] = "Parent" => \E c \in Children(d) : Pends(T, c)
  BY <1>1, <1>2 DEF Shape, Dirs, Children
<1>5. T[Root] \in {"none", "Preparing", "Parent", "Failed", "Finish"}
  BY <1>1, TreeAssumption DEF Shape
<1>6. Shape(T)
  BY <1>3, <1>4, <1>5 DEF Shape
<1> QED BY <1>6 DEF T

-----------------------------------------------------------------------------
(* What the steps do to what is placed.                                    *)

\* Directories in Parent may go on.
LEMMA ParentsGoOn ==
  ASSUME NEW S \in [Nodes -> States], NEW T \in [Nodes -> States],
         NEW R, NEW D, NEW K, Placed(S, R, D, K),
         \A m \in Nodes : \/ T[m] = S[m]
                          \/ S[m] = "Parent" /\ m \in Dirs /\ T[m] \in {"Finishing", "Finish"}
  PROVE  Placed(T, R, D, K)
<1>1. Entered(T, D)
  BY DEF Placed, Entered, Dirs
<1>2. Unseen(T)
  BY DEF Placed, Unseen, Early, Below
<1>3. Carried(T, R, D)
  BY DEF Placed, Carried
<1>4. Met(T, D)
  BY DEF Placed, Met, Entered
<1>5. Passed(T, D)
  <2>1. \A n \in Nodes \ {Root} : Parent[n] \in Nodes
    BY TreeAssumption
  <2> QED BY <2>1 DEF Placed, Passed
<1> QED BY <1>1, <1>2, <1>3, <1>4, <1>5 DEF Placed

\* One node goes on, and may be placed itself; or it is moved with all below it.
LEMMA NodeGoesOn ==
  ASSUME st \in [Nodes -> States], NEW n \in Nodes, NEW s \in States, s # "none",
         st[n] # "none" \/ n = Root, Placed(st, src, dst, kept),
         NEW R, NEW D, NEW K,
         R \subseteq src, dst \subseteq D, Arrived(R, D, K),
         \/ D \subseteq dst \cup {n}
         \/ /\ D \subseteq dst \cup {n} \cup Below(n) /\ st[n] \in Early
            /\ Below(n) \subseteq D \ R,
         s \in {"waiting", "Preparing", "Parent", "Finishing"} => n \in D \/ n \in Files,
         s \in {"Mkdir", "Conflict"} => n \notin D \/ n \in Files,
         s \in Early => st[n] \in Early,
         s = "Finish" => n \in D \/ clash[n] # Clean,
         s \in {"Parent", "Finishing", "Finish"} =>
           \A c \in Children(n) : st[c] = "none" => PassedOver(c, n, D)
  PROVE  Placed([st EXCEPT ![n] = s], R, D, K)
<1> DEFINE T == [st EXCEPT ![n] = s]
<1>0. /\ T \in [Nodes -> States] /\ T[n] = s /\ \A m \in Nodes \ {n} : T[m] = st[m]
      /\ \A m \in Nodes : Below(m) \subseteq Nodes /\ m \notin Below(m)
  BY AncestorFacts DEF Below
<1> HIDE DEF T
<1>1. Entered(T, D)
  <2>1. ASSUME NEW d \in Dirs, d # n, st[d] \in {"Mkdir", "Conflict"} PROVE d \notin D
    BY <2>1 DEF Placed, Entered, Unseen
  <2> QED BY <1>0, <2>1 DEF Placed, Entered, Dirs
<1>2. Unseen(T)
  <2>1. ASSUME NEW m \in Nodes, T[m] \in Early, NEW x \in Below(m) PROVE T[x] = "none"
    <3>1. st[m] \in Early /\ st[x] = "none" /\ x \in Nodes
      BY <1>0, <2>1 DEF Placed, Unseen
    <3>2. x # n
      BY <1>0, <2>1, <3>1, AncestorFacts DEF Below
    <3> QED BY <1>0, <3>1, <3>2
  <2> QED BY <2>1 DEF Unseen
<1>3. Carried(T, R, D)
  <2>1. ASSUME NEW m \in Nodes \ {Root}, T[m] = "none", m \in D PROVE m \notin R /\ Below(m) \subseteq D
    <3>1. m # n /\ st[m] = "none"
      BY <1>0, <2>1
    <3>2. CASE m \in dst
      BY <3>1, <3>2 DEF Placed, Carried
    <3>3. CASE m \notin dst
      <4>1. m \in Below(n) /\ Below(n) \subseteq D \ R
        BY <2>1, <3>1, <3>3
      <4>2. Below(m) \subseteq Below(n)
        BY <4>1, AboveOrder DEF Below
      <4> QED BY <4>1, <4>2
    <3> QED BY <3>2, <3>3
  <2> QED BY <2>1 DEF Carried
<1>4. Met(T, D)
  BY <1>0 DEF Placed, Met
<1>5. Passed(T, D)
  <2>1. ASSUME NEW m \in Nodes \ {Root}, T[m] = "none",
               T[Parent[m]] \in {"Parent", "Finishing", "Finish"}
        PROVE  PassedOver(m, Parent[m], D)
    <3> DEFINE p == Parent[m]
    <3>1. m # n /\ st[m] = "none" /\ p \in Nodes
      BY <1>0, <2>1, TreeAssumption
    <3>2. CASE p = n
      BY <1>0, <2>1, <3>1, <3>2 DEF Children
    <3>3. CASE p # n
      <4>1. PassedOver(m, p, dst)
        BY <1>0, <2>1, <3>1, <3>3 DEF Placed, Passed
      <4>2. CASE m \in dst
        BY <4>2 DEF PassedOver
      <4>3. CASE Skipped(p, dst)
        <5>1. CASE p \in D
          <6>1. p \in Below(n) /\ Below(n) \subseteq D
            BY <3>3, <4>3, <5>1 DEF Skipped
          <6>2. m \in Below(n)
            BY <6>1, AncestorFacts DEF Below
          <6> QED BY <6>1, <6>2 DEF PassedOver
        <5> QED BY <4>3, <5>1 DEF PassedOver, Skipped
      <4> QED BY <4>1, <4>2, <4>3 DEF PassedOver
    <3> QED BY <3>2, <3>3
  <2> QED BY <2>1 DEF Passed
<1> QED BY <1>1, <1>2, <1>3, <1>4, <1>5 DEF Placed, T

\* The children of directory d are on their way in S: those in N were made, of which
\* those in M were moved with all below them.
OnTheirWay(d, S, R, D, N, M) ==
  /\ N \subseteq Children(d) /\ M \subseteq N
  /\ \A x \in D \ (dst \cup N) : \E c \in M : x \in Below(c)
  /\ \A c \in M : Below(c) \subseteq D \ R
  /\ \A m \in Nodes \ (Children(d) \cup {d}) : S[m] = st[m]
  /\ \A c \in Children(d) :
       /\ S[c] \in {"none", "waiting", "Failed", "Finish", "Conflict"}
       /\ S[c] = "none" => c \in dst \ N
       /\ S[c] = "waiting" => c \in D \/ c \in Files
       /\ S[c] = "Conflict" => c \notin D
       /\ S[c] = "Finish" => (c \in M /\ c \in D) \/ Skipped(c, D)

LEMMA ChildrenGoOn ==
  ASSUME st \in [Nodes -> States], Placed(st, src, dst, kept),
         NEW d \in Dirs, st[d] = "Preparing", NEW S \in [Nodes -> States], S[d] = "Parent",
         NEW R, NEW D, NEW K, R \subseteq src, dst \subseteq D, Arrived(R, D, K),
         NEW N, NEW M, OnTheirWay(d, S, R, D, N, M)
  PROVE  Placed(S, R, D, K)
<1> USE DEF OnTheirWay
<1>0. /\ d \in Nodes /\ \A c \in Children(d) : c \in Nodes \ {Root} /\ Parent[c] = d /\ c \in Below(d)
      /\ \A c \in Children(d) : Below(c) \subseteq Below(d)
  BY AncestorFacts, AboveOrder DEF Children, Below, Dirs
<1>1. /\ \A m \in Below(d) : m \in Nodes /\ st[m] = "none"
      /\ d \notin Below(d)
  BY <1>0, AncestorFacts DEF Placed, Unseen, Early, Below
<1>2. \A m \in Nodes : \A x \in Below(m) :
        /\ x \in Nodes \ {Root}
        /\ Parent[x] \in {m} \cup Below(m)
  BY AncestorFacts DEF Below, Dirs
<1>3. Entered(S, D)
  <2>1. ASSUME NEW m \in Dirs, m \notin Children(d) \cup {d}, st[m] \in {"Mkdir", "Conflict"}
        PROVE  m \notin D
    <3>1. m \notin Below(d) /\ m \notin dst
      BY <1>1, <2>1 DEF Placed, Entered
    <3> QED BY <1>0, <2>1, <3>1
  <2> QED BY <1>0, <2>1 DEF Placed, Entered, Dirs
<1>4. Unseen(S)
  <2> SUFFICES ASSUME NEW m \in Nodes, S[m] \in Early, NEW x \in Below(m)
               PROVE  S[x] = "none"
    BY DEF Unseen
  <2>1. m # d
    BY DEF Early
  <2>2. st[m] \in Early /\ d \notin Below(m)
    <3>1. CASE m \in Children(d)
      BY <1>0, <1>1, <3>1 DEF Early
    <3>2. CASE m \notin Children(d)
      BY <2>1, <3>2 DEF Placed, Unseen
    <3> QED BY <3>1, <3>2
  <2>3. st[x] = "none" /\ x \in Nodes \ {d}
    BY <1>2, <2>2 DEF Placed, Unseen
  <2>4. x \notin Children(d)
    BY <1>0, <1>2, <2>1, <2>2
  <2> QED BY <2>3, <2>4
<1>5. Carried(S, R, D)
  <2> SUFFICES ASSUME NEW m \in Nodes \ {Root}, S[m] = "none", m \in D
               PROVE  m \notin R /\ Below(m) \subseteq D
    BY DEF Carried
  <2>1. m # d /\ st[m] = "none" /\ m \notin N
    BY <1>0, <1>1
  <2>2. CASE m \in dst
    BY <2>1, <2>2 DEF Placed, Carried
  <2>3. CASE m \notin dst
    <3>1. PICK c \in M : m \in Below(c)
      BY <2>1, <2>3
    <3>2. Below(m) \subseteq Below(c)
      BY <1>0, <3>1, AboveOrder DEF Below
    <3> QED BY <3>1, <3>2
  <2> QED BY <2>2, <2>3
<1>6. Met(S, D)
  <2>1. \A m \in Nodes \ (Children(d) \cup {d}) : st[m] = "Finish" => m \in D \/ clash[m] # Clean
    BY DEF Placed, Met
  <2> QED BY <2>1 DEF Met, Skipped
<1>7. Passed(S, D)
  <2> SUFFICES ASSUME NEW m \in Nodes \ {Root}, S[m] = "none",
                      S[Parent[m]] \in {"Parent", "Finishing", "Finish"}
               PROVE  PassedOver(m, Parent[m], D)
    BY DEF Passed
  <2> DEFINE p == Parent[m]
  <2>1. p \in Nodes /\ m \in Below(p)
    BY AncestorFacts DEF Below, Dirs
  <2>2. CASE p = d
    BY <2>2 DEF Children, PassedOver
  <2>3. CASE p \in Children(d)
    <3>1. S[p] = "Finish"
      BY <2>3
    <3> QED BY <2>1, <2>3, <3>1 DEF PassedOver
  <2>4. CASE p \notin Children(d) \cup {d}
    <3>1. m \notin Children(d) /\ m # d
      BY <2>4 DEF Children
    <3>2. PassedOver(m, p, dst)
      BY <2>1, <2>4, <3>1 DEF Placed, Passed
    <3>3. CASE p \in D /\ p \notin dst
      <4>1. PICK c \in M : p \in Below(c)
        BY <2>4, <3>3
      <4>2. m \in Below(c)
        BY <1>0, <2>1, <4>1, AncestorFacts DEF Below
      <4> QED BY <4>2 DEF PassedOver
    <3> QED BY <3>2, <3>3 DEF PassedOver, Skipped
  <2> QED BY <2>2, <2>3, <2>4
<1> QED BY <1>3, <1>4, <1>5, <1>6, <1>7 DEF Placed

\* Of a directory that is read nothing below is seen; its children may then be pending
\* if it waits for one of them.
LEMMA ReadShape ==
  ASSUME st \in [Nodes -> States], Shape(st), Unseen(st),
         NEW d \in Dirs, st[d] = "Preparing", NEW S \in [Nodes -> States],
         \A m \in Nodes \ (Children(d) \cup {d}) : S[m] = st[m],
         \A c \in Children(d) : S[c] # "Parent",
         \/ S[d] = "Parent" /\ \E c \in Children(d) : Pends(S, c)
         \/ S[d] = "Preparing" /\ \A c \in Children(d) : ~Pends(S, c)
  PROVE  Shape(S)
<1>1. /\ d \in Nodes /\ \A c \in Children(d) : c \in Nodes \ {Root} /\ Parent[c] = d /\ c # d
      /\ \A c \in Children(d) : st[c] = "none"
  BY AncestorFacts DEF Children, Dirs, Unseen, Early, Below
<1>2. ASSUME NEW m \in Nodes \ {Root}, Pends(S, m) PROVE S[Parent[m]] = "Parent"
  <2>1. CASE m \in Children(d)
    BY <1>1, <1>2, <2>1
  <2>2. CASE m \notin Children(d)
    <3>1. Pends(st, m)
      BY <1>2, <2>2 DEF Pends
    <3>2. st[Parent[m]] = "Parent" /\ Parent[m] \in Nodes
      BY <3>1, TreeAssumption DEF Shape
    <3> QED BY <1>1, <3>2
  <2> QED BY <2>1, <2>2
<1>3. ASSUME NEW e \in Dirs, S[e] = "Parent" PROVE \E c \in Children(e) : Pends(S, c)
  <2>1. CASE e = d
    BY <1>3, <2>1
  <2>2. CASE e # d
    <3>1. e \in Nodes /\ st[e] = "Parent"
      BY <1>3, <2>2 DEF Dirs
    <3>2. PICK c \in Children(e) : Pends(st, c)
      BY <3>1 DEF Shape
    <3>3. c \notin Children(d) /\ c \in Nodes
      BY <2>2, <3>2 DEF Children
    <3>4. Pends(S, c)
      BY <3>2, <3>3 DEF Pends
    <3> QED BY <3>4
  <2> QED BY <2>1, <2>2
<1>4. S[Root] \in {"none", "Preparing", "Parent", "Failed", "Finish"}
  BY <1>1, TreeAssumption DEF Shape
<1> QED BY <1>2, <1>3, <1>4 DEF Shape

-----------------------------------------------------------------------------
(* The actions: one lemma for each keeps the invariant.                    *)

\* Merging and looking up policies gives policies.
LEMMA PolicyTypes ==
  /\ Unset \in Policies
  /\ \A p, q \in Policies : Merge(p, q) \in Policies
  /\ TypeOK => \A n \in Nodes : GetPolicy(n) \in Policies
<1>1. Unset \in Policies
  BY DEF Unset, Policies
<1>2. \A p, q \in Policies : Merge(p, q) \in Policies
  BY DEF Merge, Policies
<1>3. TypeOK => \A n \in Nodes : local[n] \in Policies /\ global[Kind(n)] \in Policies
  BY DEF TypeOK, Kind
<1> QED BY <1>1, <1>2, <1>3 DEF GetPolicy

\* The parts of the invariant, of the states after a step.
LEMMA Together ==
  ASSUME TypeOK', Shape(st'), Kinds', Stops', Placed(st', src', dst', kept'),
         clash' = clash, FileConflictIsOpen'
  PROVE  IInv'
<1>1. Placed(st, src, dst, kept)'
  BY DEF Placed, Arrived, Entered, Unseen, Carried, Met, Passed, PassedOver, Skipped
<1>2. Shape(st)'
  BY DEF Shape, Pends
<1> QED BY <1>1, <1>2 DEF IInv

\* A node that is at work ends, or cleans its source, with a cascade.
LEMMA CascadeInv ==
  ASSUME IInv, NEW n \in Nodes, st[n] \in {"Working", "Mkdir", "Preparing", "Finishing"},
         ~destroyed, Cascade(n, st), st'[n] \in {"Failed", "Finish", "Finishing"},
         Goes, UNCHANGED <<used, policies>>,
         src' \subseteq src, dst \subseteq dst', kept' \subseteq Dirs,
         Arrived(src', dst', kept'),
         \/ dst' \subseteq dst \cup {n}
         \/ /\ dst' \subseteq dst \cup {n} \cup Below(n) /\ st[n] \in Early
            /\ Below(n) \subseteq dst' \ src',
         st'[n] = "Finishing" => n \in dst' /\ n \in Dirs,
         st'[n] = "Finish" => n \in dst' \/ clash[n] # Clean,
         st'[n] # "Failed" => \A c \in Children(n) : st[c] = "none" => PassedOver(c, n, dst')
  PROVE  IInv'
<1>1. TypeOK'
  BY DEF IInv, TypeOK, Cascade, Calls, Goes, given, client, policies, Arrived
<1>2. Shape(st')
  BY DEF Cascade
<1>3. Kinds'
  <2>1. \A m \in Nodes : call'[m] = "delete" => call[m] = "delete" /\ m # n
    BY DEF Cascade
  <2>2. \A m \in Nodes \ {n} : \/ st'[m] = st[m]
                               \/ st[m] = "Parent" /\ m \in Dirs /\ st'[m] \in {"Finishing", "Finish"}
    BY DEF Cascade
  <2> QED BY <2>1, <2>2 DEF IInv, Kinds, Goes, given
<1>4. Stops'
  <2>1. n \in Running
    BY DEF Running, RunningFiles, RunningDirs, IInv, Kinds
  <2> QED BY <2>1 DEF Stops, IInv, Goes, given, client, Stepping
<1>5. Placed(st', src', dst', kept')
  <2> DEFINE S == [st EXCEPT ![n] = st'[n]]
  <2>1. st'[n] \in States /\ st \in [Nodes -> States] /\ Placed(st, src, dst, kept)
    BY DEF IInv, TypeOK, Cascade
  <2>2. Placed(S, src', dst', kept')
    BY <2>1, NodeGoesOn DEF Early, Dirs
  <2>3. /\ S \in [Nodes -> States] /\ st' \in [Nodes -> States]
        /\ \A m \in Nodes : \/ st'[m] = S[m]
                            \/ S[m] = "Parent" /\ m \in Dirs /\ st'[m] \in {"Finishing", "Finish"}
    BY <2>1 DEF Cascade
  <2>4. clash' = clash
    BY DEF Goes, given
  <2> HIDE DEF S
  <2> QED BY <2>2, <2>3, ParentsGoOn
<1>6. Placed(st, src, dst, kept)'
  BY <1>5 DEF Goes, given, Placed, Arrived, Entered, Unseen, Carried, Met, Passed, PassedOver, Skipped
<1>7. FileConflictIsOpen'
  <2>1. \A m \in Files : st'[m] = "Conflict" => st[m] = "Conflict"
    BY TreeAssumption DEF Cascade
  <2> QED BY <2>1 DEF IInv, FileConflictIsOpen, Goes, given, policies, Resolve, GetPolicy, Merge, Kind
<1> QED BY <1>1, <1>2, <1>3, <1>4, <1>6, <1>7 DEF IInv, Shape, Pends

\* A file that is at work ends, in one of the ways it may.
LEMMA FileEndInv ==
  ASSUME IInv, NEW n \in Nodes,
         FileFails(n) \/ FileSkips(n) \/ (FilePlaced(n) /\ Mode # "clean")
                      \/ (FileDeleted(n) /\ ~destroyed)
  PROVE  IInv'
<1>1. /\ st[n] = "Working" /\ n \in Files /\ ~destroyed /\ Goes
      /\ UNCHANGED <<used, policies, kept>>
      /\ \/ End(n, "Failed", st) /\ UNCHANGED <<src, dst>>
         \/ /\ End(n, "Finish", st)
            /\ \/ UNCHANGED <<src, dst>> /\ clash[n] # Clean
               \/ UNCHANGED <<src, dst>> /\ n \in dst
               \/ dst' = dst \cup {n} /\ src' \in {src, src \ {n}}
               \/ UNCHANGED dst /\ n \in dst /\ src' \in {src, src \ {n}}
  BY DEF FileFails, FileSkips, FilePlaced, FileDeleted, IInv, Kinds, Answered, Resolve
<1>2. PICK s \in {"Failed", "Finish"} : End(n, s, st)
  BY <1>1
<1>3. Cascade(n, st) /\ st'[n] = s
  <2>1. st \in [Nodes -> States] /\ Shape(st) /\ Pends(st, n) /\ st[n] # "Parent" /\ call \in [Nodes -> Calls]
    BY <1>1 DEF IInv, TypeOK, Pends, Calls
  <2> QED BY <1>2, <2>1, EndStep
<1>4. /\ src' \subseteq src /\ dst \subseteq dst' /\ kept' \subseteq Dirs
      /\ Arrived(src', dst', kept') /\ dst' \subseteq dst \cup {n}
  BY <1>1 DEF IInv, TypeOK, Placed, Arrived
<1>5. st'[n] = "Finish" => n \in dst' \/ clash[n] # Clean
  <2>1. s = "Finish" => ~ (s = "Failed")
    OBVIOUS
  <2>2. s = "Finish" => ~End(n, "Failed", st)
    BY <1>2, <1>3 DEF End
  <2> QED BY <1>1, <1>3, <2>2
<1>6. Children(n) = {}
  BY <1>1, TreeAssumption DEF Children
<1> QED BY <1>1, <1>3, <1>4, <1>5, <1>6, CascadeInv

\* A file at work may appear in the target, and then leave the source.
LEMMA FileArrives ==
  ASSUME Placed(st, src, dst, kept), NEW n \in Files, st[n] = "Working",
         dst' \in {dst, dst \cup {n}}, src' \in {src, src \ {n}}, n \in dst' \/ src' = src,
         UNCHANGED <<st, kept, clash>>
  PROVE  Placed(st', src', dst', kept')
<1>1. n \in Nodes /\ n \notin Dirs /\ Below(n) = {} /\ \A m \in Nodes \ {Root} : Parent[m] # n
  BY AncestorFacts, TreeAssumption DEF Dirs, Below
<1> QED BY <1>1 DEF Placed, Arrived, Entered, Unseen, Carried, Met, Passed, PassedOver, Skipped

\* A file that was placed before its source is removed.
LEMMA FilePlacedInv ==
  ASSUME IInv, NEW n \in Nodes, FilePlaced(n), Mode = "clean"
  PROVE  IInv'
<1>1. /\ st[n] = "Working" /\ n \in Files /\ ~destroyed
      /\ dst' = dst \cup {n} /\ src' = src /\ call' = [call EXCEPT ![n] = "delete"]
      /\ UNCHANGED <<st, scheduled, given, client, broken, used, policies, kept>>
  BY DEF FilePlaced, IInv, Kinds, Answered
<1> USE DEF given, client, policies
<1>2. TypeOK'
  BY <1>1 DEF IInv, TypeOK
<1>3. Shape(st)' /\ Stops'
  BY <1>1 DEF IInv, Shape, Pends, Stops, Running, RunningFiles, RunningDirs, Stepping
<1>4. Kinds'
  BY <1>1 DEF IInv, Kinds, TypeOK
<1>5. Placed(st', src', dst', kept')
  BY <1>1, FileArrives DEF IInv
<1>6. FileConflictIsOpen'
  BY <1>1 DEF IInv, FileConflictIsOpen, Resolve, GetPolicy, Merge, Kind
<1> QED BY <1>1, <1>2, <1>3, <1>4, <1>5, <1>6, Together

\* The states, source and target stay: so does what is placed, and what is open.
LEMMA PlacedStays ==
  ASSUME Placed(st, src, dst, kept), UNCHANGED <<st, src, dst, kept, clash>>
  PROVE  Placed(st, src, dst, kept)'
  BY DEF Placed, Arrived, Entered, Unseen, Carried, Met, Passed, PassedOver, Skipped

\* A file in conflict waits, or is tried again with a newer policy.
LEMMA FileConflictsInv == ASSUME IInv, NEW n \in Nodes, FileConflicts(n) PROVE IInv'
<1>1. /\ st[n] = "Working" /\ n \in Files /\ ~destroyed /\ scheduled' = TRUE
      /\ UNCHANGED <<given, client, broken, policies, kept, src, dst>>
  BY DEF FileConflicts, IInv, Kinds, Answered, Goes
<1> USE DEF given, client, policies
<1>2. Stops'
  BY <1>1 DEF IInv, Stops, Running, RunningFiles, Stepping
<1>3. CASE used' = [used EXCEPT ![n] = GetPolicy(n)] /\ UNCHANGED <<st, call>>
  <2>1. TypeOK'
    BY <1>1, <1>3, PolicyTypes DEF IInv, TypeOK
  <2>2. Shape(st)' /\ Kinds' /\ FileConflictIsOpen'
    BY <1>1, <1>3 DEF IInv, Shape, Pends, Kinds, FileConflictIsOpen, Resolve, GetPolicy, Merge, Kind
  <2>3. Placed(st, src, dst, kept)'
    BY <1>1, <1>3, PlacedStays DEF IInv
  <2> QED BY <1>2, <2>1, <2>2, <2>3 DEF IInv
<1>4. CASE /\ st' = [st EXCEPT ![n] = "Conflict"] /\ call' = [call EXCEPT ![n] = "none"]
           /\ UNCHANGED used /\ Resolve(n, GetPolicy(n)) = "conflict"
  <2>1. TypeOK'
    BY <1>1, <1>4 DEF IInv, TypeOK, States
  <2>2. Shape(st)'
    <3>1. /\ st \in [Nodes -> States] /\ Shape(st) /\ Pends(st, n) /\ n # Root
          /\ "Conflict" \in States
      BY <1>1, TreeAssumption DEF IInv, TypeOK, Pends, States
    <3>2. Shape([st EXCEPT ![n] = "Conflict"])
      BY <1>1, <3>1, PendingShape
    <3> QED BY <1>4, <3>2 DEF Shape, Pends
  <2>3. Kinds'
    BY <1>1, <1>4 DEF IInv, Kinds, TypeOK
  <2>4. Placed(st', src', dst', kept')
    <3>1. Children(n) = {} /\ Arrived(src', dst', kept')
      BY <1>1, TreeAssumption DEF Children, IInv, Placed, Arrived
    <3> QED BY <1>1, <1>4, <3>1, NodeGoesOn DEF IInv, TypeOK, States, Early
  <2>5. Placed(st, src, dst, kept)'
    BY <1>1, <2>4 DEF Placed, Arrived, Entered, Unseen, Carried, Met, Passed, PassedOver, Skipped
  <2>6. FileConflictIsOpen'
    BY <1>1, <1>4 DEF IInv, TypeOK, FileConflictIsOpen, Resolve, GetPolicy, Merge, Kind
  <2> QED BY <1>2, <2>1, <2>2, <2>3, <2>5, <2>6 DEF IInv
<1> QED BY <1>3, <1>4 DEF FileConflicts

\* A directory that may not be read, or that has nothing to read, ends; otherwise its
\* files wait, or its directories are made first.
LEMMA DirReadInv == ASSUME IInv, NEW d \in Nodes, DirRead(d) PROVE IInv'
<1> DEFINE kids == Children(d) \cap src
           wait == [n \in Nodes |-> IF n \in kids THEN "waiting" ELSE st[n]]
<1>1. /\ st[d] = "Preparing" /\ d \in Dirs /\ ~destroyed
      /\ UNCHANGED <<policies, kept, src, dst>>
  BY DEF DirRead, Answered, IInv, Kinds
<1>2. /\ st \in [Nodes -> States] /\ Shape(st) /\ Pends(st, d) /\ st[d] # "Parent"
      /\ call \in [Nodes -> Calls] /\ TypeOK /\ Placed(st, src, dst, kept)
  BY <1>1 DEF IInv, TypeOK, Pends, Calls
<1>3. /\ \A c \in Children(d) : /\ c \in Nodes \ {Root, d} /\ st[c] = "none"
                                /\ c \in src \/ c \in dst
      /\ d \in dst /\ Arrived(src, dst, kept) /\ kept \subseteq Dirs
  <2>1. \A c \in Children(d) : c \in Nodes \ {Root} /\ c \in Below(d) /\ d \notin Below(d)
    BY AncestorFacts DEF Children, Below
  <2> QED BY <1>1, <1>2, <2>1 DEF Placed, Unseen, Early, Entered, Arrived, TypeOK
<1>4. CASE End(d, "Failed", st) /\ Goes /\ UNCHANGED used
  <2>1. Cascade(d, st) /\ st'[d] = "Failed"
    BY <1>2, <1>4, EndStep
  <2> QED BY <1>1, <1>3, <1>4, <2>1, CascadeInv
<1>5. CASE kids = {} /\ TryFinish(d, st) /\ Goes /\ UNCHANGED used
  <2>1. Cascade(d, st) /\ st'[d] \in {"Finishing", "Finish"}
    BY <1>1, <1>2, <1>5, TryFinishStep
  <2>2. \A c \in Children(d) : PassedOver(c, d, dst')
    BY <1>1, <1>3, <1>5 DEF PassedOver
  <2> QED BY <1>1, <1>3, <1>5, <2>1, <2>2, CascadeInv
<1>6. CASE /\ kids # {} /\ kids \subseteq Files
           /\ st' = [wait EXCEPT ![d] = "Parent"] /\ call' = [call EXCEPT ![d] = "none"]
           /\ Goes /\ UNCHANGED used
  <2> DEFINE S == [wait EXCEPT ![d] = "Parent"]
  <2>1. /\ S \in [Nodes -> States] /\ S[d] = "Parent"
        /\ \A m \in Nodes \ (Children(d) \cup {d}) : S[m] = st[m]
        /\ \A c \in Children(d) : S[c] = IF c \in src THEN "waiting" ELSE "none"
    <3>1. wait \in [Nodes -> States] /\ "Parent" \in States
      BY <1>2 DEF States
    <3>2. \A m \in Nodes : wait[m] = IF m \in kids THEN "waiting" ELSE st[m]
      OBVIOUS
    <3> HIDE DEF wait
    <3>3. S \in [Nodes -> States] /\ S[d] = "Parent" /\ \A m \in Nodes \ {d} : S[m] = wait[m]
      BY <3>1
    <3> HIDE DEF S
    <3> QED BY <1>3, <3>2, <3>3
  <2> HIDE DEF S
  <2>2. \A c \in Children(d) : c \in src => c \in Files
    BY <1>6
  <2>3. Placed(S, src, dst, kept)
    <3>1. OnTheirWay(d, S, src, dst, {}, {})
      BY <1>3, <2>1, <2>2 DEF OnTheirWay
    <3> QED BY <1>1, <1>2, <1>3, <2>1, <3>1, ChildrenGoOn
  <2>4. Shape(S)
    <3>1. \E c \in Children(d) : Pends(S, c)
      BY <1>6, <2>1 DEF Pends
    <3> QED BY <1>1, <1>2, <2>1, <3>1, ReadShape DEF Placed
  <2>5. st' = S
    BY <1>6 DEF S
  <2>6. TypeOK'
    BY <1>1, <1>2, <1>6, <2>1, <2>5 DEF TypeOK, Goes, given, client, policies
  <2>7. Kinds'
    <3>1. call' = [call EXCEPT ![d] = "none"] /\ dst' = dst /\ clash' = clash
      BY <1>1, <1>6 DEF Goes, given
    <3>2. \A m \in Nodes : /\ call'[m] = "delete" => call[m] = "delete" /\ m # d
                           /\ m = d \/ st'[m] = st[m] \/ (st[m] = "none" /\ st'[m] = "waiting")
      BY <1>2, <1>3, <2>1, <2>5, <3>1
    <3>3. st'[d] = "Parent"
      BY <2>1, <2>5
    <3> QED BY <1>1, <3>1, <3>2, <3>3 DEF IInv, Kinds
  <2>8. Stops'
    <3>1. d \in Running
      BY <1>1 DEF Running, RunningDirs
    <3> QED BY <1>6, <3>1 DEF IInv, Stops, Goes, given, client, Stepping
  <2>9. FileConflictIsOpen'
    <3>1. \A m \in Files : st'[m] = "Conflict" => st[m] = "Conflict"
      BY <2>1, <2>5, TreeAssumption
    <3> QED BY <1>1, <1>6, <3>1 DEF IInv, FileConflictIsOpen, Goes, given, policies, Resolve, GetPolicy, Merge, Kind
  <2> QED BY <1>1, <1>6, <2>3, <2>4, <2>5, <2>6, <2>7, <2>8, <2>9, Together DEF Goes, given
<1>7. CASE /\ call' = [call EXCEPT ![d] = "batch"] /\ used' = [used EXCEPT ![d] = global["dir"]]
           /\ UNCHANGED <<st, scheduled, given, client, broken>>
  <2> USE DEF given, client, policies
  <2>1. TypeOK'
    BY <1>1, <1>2, <1>7 DEF TypeOK
  <2>2. Shape(st') /\ Stops' /\ Placed(st', src', dst', kept')
    BY <1>1, <1>2, <1>7 DEF IInv, Stops, Running, RunningFiles, RunningDirs, Stepping
  <2>3. Kinds'
    BY <1>1, <1>2, <1>7 DEF IInv, Kinds, TypeOK
  <2>4. FileConflictIsOpen'
    BY <1>1, <1>7 DEF IInv, FileConflictIsOpen, Resolve, GetPolicy, Merge, Kind
  <2> QED BY <1>7, <2>1, <2>2, <2>3, <2>4, Together
<1> QED BY <1>4, <1>5, <1>6, <1>7 DEF DirRead

\* No child of a directory is below another one, nor is the directory.
LEMMA Siblings ==
  ASSUME NEW d \in Nodes
  PROVE  /\ d \notin Children(d) /\ d \notin Below(d) /\ Children(d) \subseteq Nodes \ {Root}
         /\ \A c, e \in Children(d) : c \notin Below(e)
         /\ \A c \in Children(d) : c \in Below(d) /\ d \notin Below(c)
         /\ \A n \in Nodes : Below(n) \subseteq Nodes
<1>1. /\ \A c \in Children(d) : c \in Nodes \ {Root} /\ Ancestors[c] = {d} \cup Ancestors[d]
      /\ d \notin Ancestors[d]
  BY AncestorFacts DEF Children
<1>2. \A c \in Children(d) : c \notin Ancestors[d] /\ c # d
  BY <1>1, AncestorFacts, AboveOrder
<1> QED BY <1>1, <1>2 DEF Below

\* What a rename takes along is the source at and below what it moves.
LEMMA TakenFacts ==
  ASSUME NEW D, NEW p
  PROVE  \A x : x \in Taken(D, p) <=>
                 x \in src /\ \E n \in D : Moves(n, p) /\ (x = n \/ x \in Below(n))
<1> DEFINE M == {m \in D : Moves(m, p)}
           U == UNION {{n} \cup Below(n) : n \in M}
<1>1. Taken(D, p) = src \cap U
  BY DEF Taken
<1>2. ASSUME NEW x PROVE x \in U <=> \E n \in M : x \in {n} \cup Below(n)
  OBVIOUS
<1>3. \A x : x \in M <=> x \in D /\ Moves(x, p)
  OBVIOUS
<1> HIDE DEF U, M
<1> QED BY <1>1, <1>2, <1>3

\* The directories of a batch are made, moved, met or missed, and the directory waits
\* for those that have something left to do, or finishes.
LEMMA BatchDoneInv == ASSUME IInv, NEW d \in Nodes, BatchDone(d) PROVE IInv'
<1>1. /\ st[d] = "Preparing" /\ d \in Dirs /\ ~destroyed
      /\ Goes /\ UNCHANGED <<used, policies>>
  BY DEF BatchDone, IInv, Kinds
<1>2. /\ st \in [Nodes -> States] /\ Shape(st) /\ Pends(st, d) /\ st[d] # "Parent"
      /\ call \in [Nodes -> Calls] /\ TypeOK /\ Placed(st, src, dst, kept)
  BY <1>1 DEF IInv, TypeOK, Pends, Calls
<1>3. /\ \A c \in Children(d) : st[c] = "none" /\ (c \in src => c \notin dst)
      /\ d \in dst /\ Arrived(src, dst, kept) /\ kept \subseteq Dirs
      /\ src \subseteq Nodes /\ Nodes \ src \subseteq dst /\ dst \subseteq Nodes
  BY <1>1, <1>2, Siblings DEF Placed, Unseen, Early, Entered, Arrived, TypeOK, Carried
<1>4. CASE End(d, "Failed", st) /\ UNCHANGED <<kept, src, dst>>
  <2>1. Cascade(d, st) /\ st'[d] = "Failed"
    BY <1>2, <1>4, EndStep
  <2> QED BY <1>1, <1>3, <1>4, <2>1, CascadeInv
<1>5. ASSUME NEW bad \in SUBSET (Children(d) \cap Dirs \cap src), NEW p, NEW good, NEW S,
             p = used[d], good = (Children(d) \cap Dirs \cap src) \ bad,
             S = [n \in Nodes |->
                   IF n \in Children(d) \cap Files \cap src THEN "waiting"
                   ELSE IF n \in bad THEN "Failed"
                   ELSE IF n \notin good THEN st[n]
                   ELSE IF Resolve(n, p) = "conflict" THEN "Conflict"
                   ELSE IF Resolve(n, p) = "skip" \/ Moves(n, p) THEN "Finish"
                   ELSE "waiting"],
             dst' = dst \cup Made(good, p) \cup Taken(good, p),
             src' = src \ Taken(good, p),
             kept' = kept \cup {n \in good : Resolve(n, p) = "merge"},
             IF \E n \in Children(d) : S[n] \in {"waiting", "Conflict"}
             THEN /\ st' = [S EXCEPT ![d] = "Parent"]
                  /\ call' = [call EXCEPT ![d] = "none"]
             ELSE TryFinish(d, S)
      PROVE  IInv'
  <2> DEFINE N == Made(good, p)
             M == {n \in good : Moves(n, p)}
             P == [S EXCEPT ![d] = "Parent"]
  <2>1. /\ good \subseteq Children(d) /\ good \subseteq Dirs /\ good \subseteq src
        /\ \A c \in Children(d) : c \in src => c \in good \/ c \in bad \/ c \in Files
        /\ good \cap Files = {} /\ good \cap bad = {} /\ bad \cap Files = {}
    BY <1>3, <1>5, Siblings DEF Dirs
  <2>2. /\ S \in [Nodes -> States] /\ S[d] = "Preparing"
        /\ \A m \in Nodes \ Children(d) : S[m] = st[m]
        /\ \A c \in Children(d) :
             S[c] = IF c \notin src THEN "none" ELSE IF c \in Files THEN "waiting"
                    ELSE IF c \in bad THEN "Failed"
                    ELSE IF Resolve(c, p) = "conflict" THEN "Conflict"
                    ELSE IF Resolve(c, p) = "skip" \/ Moves(c, p) THEN "Finish"
                    ELSE "waiting"
    <3>1. \A c \in Children(d) : c \in Nodes /\ c # d
      BY Siblings
    <3>2. \A m \in Nodes \ Children(d) : m \notin good /\ m \notin bad
      BY <2>1
    <3>3. S \in [Nodes -> States]
      BY <1>2, <1>5 DEF States
    <3> QED BY <1>1, <1>3, <1>5, <2>1, <3>1, <3>2, <3>3, Siblings
  <2>3. P \in [Nodes -> States] /\ P[d] = "Parent" /\ \A m \in Nodes \ {d} : P[m] = S[m]
    BY <2>2 DEF States
  <2>4. /\ N \subseteq Children(d) /\ M \subseteq N
        /\ N = {n \in good : Resolve(n, p) \in {"place", "merge"}}
        /\ \A x : x \in Taken(good, p) <=> x \in src /\ \E n \in M : x = n \/ x \in Below(n)
    <3>1. /\ N \subseteq Children(d) /\ M \subseteq N
          /\ N = {n \in good : Resolve(n, p) \in {"place", "merge"}}
      BY <2>1 DEF Made, Moves
    <3>2. \A x : x \in Taken(good, p) <=> x \in src /\ \E n \in M : x = n \/ x \in Below(n)
      BY TakenFacts
    <3> QED BY <3>1, <3>2
  <2>5. /\ src' \subseteq src /\ dst \subseteq dst' /\ N \subseteq dst'
        /\ Arrived(src', dst', kept') /\ kept' \subseteq Dirs /\ kept' \subseteq Nodes
        /\ src' \subseteq Nodes /\ dst' \subseteq Nodes
    <3>1. Taken(good, p) \subseteq src /\ N \subseteq Nodes
      BY <2>4, Siblings
    <3>2. kept' \subseteq dst' /\ kept' \subseteq Dirs
      BY <1>3, <1>5, <2>1, <2>4 DEF Arrived
    <3> QED BY <1>3, <1>5, <3>1, <3>2 DEF Arrived, Dirs
  <2>6. \A x \in dst' \ (dst \cup N) : \E c \in M : x \in Below(c)
    <3>1. dst' = dst \cup N \cup Taken(good, p)
      BY <1>5
    <3> HIDE DEF M, N
    <3> QED BY <2>4, <3>1
  <2>7. \A c \in M : Below(c) \subseteq dst' \ src'
    <3>1. ASSUME NEW c \in M, NEW x \in Below(c) PROVE x \in dst' /\ x \notin src'
      <4>1. x \in Nodes
        BY Siblings, <2>1, <2>4
      <4>2. x \in src => x \in Taken(good, p)
        BY <2>4, <3>1
      <4> QED BY <1>3, <1>5, <4>1, <4>2
    <3> QED BY <3>1
  <2>8. \A c \in good : Resolve(c, p) \in {"conflict", "skip"} => c \notin dst'
    <3>1. ASSUME NEW c \in good, Resolve(c, p) \in {"conflict", "skip"} PROVE c \notin dst'
      <4>1. c \notin dst /\ c \notin N /\ c \notin M
        BY <1>3, <2>1, <2>4, <3>1
      <4>2. \A n \in M : c \notin Below(n)
        BY <2>1, <2>4, Siblings
      <4> QED BY <2>6, <4>1, <4>2
    <3> QED BY <3>1
  <2>9. \A c \in Children(d) :
          /\ P[c] \in {"none", "waiting", "Failed", "Finish", "Conflict"}
          /\ P[c] = "none" => c \in dst \ N
          /\ P[c] = "waiting" => c \in dst' \/ c \in Files
          /\ P[c] = "Conflict" => c \notin dst'
          /\ P[c] = "Finish" => (c \in M /\ c \in dst') \/ Skipped(c, dst')
    <3> SUFFICES ASSUME NEW c \in Children(d)
                 PROVE  /\ P[c] \in {"none", "waiting", "Failed", "Finish", "Conflict"}
                        /\ P[c] = "none" => c \in dst \ N
                        /\ P[c] = "waiting" => c \in dst' \/ c \in Files
                        /\ P[c] = "Conflict" => c \notin dst'
                        /\ P[c] = "Finish" => (c \in M /\ c \in dst') \/ Skipped(c, dst')
      OBVIOUS
    <3>1. c \in Nodes /\ c # d /\ P[c] = S[c]
      BY <2>3, Siblings
    <3>2. CASE c \notin src
      BY <1>3, <2>1, <2>2, <2>4, <3>1, <3>2
    <3>3. CASE c \in src /\ c \in Files
      BY <2>2, <3>1, <3>3
    <3>4. CASE c \in src /\ c \in bad /\ c \notin Files
      BY <2>2, <3>1, <3>4
    <3>5. CASE c \in src /\ c \in good /\ c \notin Files /\ c \notin bad
      <4>1. CASE Resolve(c, p) = "conflict"
        BY <2>2, <2>8, <3>1, <3>5, <4>1
      <4>2. CASE Resolve(c, p) = "skip"
        <5>1. clash[c] # Clean
          BY <4>2 DEF Resolve
        <5> QED BY <2>2, <2>8, <3>1, <3>5, <4>2, <5>1 DEF Skipped
      <4>3. CASE Moves(c, p)
        <5>1. Resolve(c, p) = "place" /\ c \in M
          BY <3>5, <4>3 DEF Moves
        <5> QED BY <2>2, <2>4, <2>5, <3>1, <3>5, <4>3, <5>1
      <4>4. CASE Resolve(c, p) \notin {"conflict", "skip"} /\ ~Moves(c, p)
        <5>1. c \in N
          BY <2>4, <3>5, <4>4 DEF Resolve
        <5> QED BY <2>2, <2>5, <3>1, <3>5, <4>4, <5>1
      <4> QED BY <4>1, <4>2, <4>3, <4>4
    <3> QED BY <2>1, <3>2, <3>3, <3>4, <3>5
  <2>10. Placed(P, src', dst', kept')
    <3>1. \A m \in Nodes \ (Children(d) \cup {d}) : P[m] = st[m]
      BY <2>2, <2>3
    <3>2. OnTheirWay(d, P, src', dst', N, M)
      BY <2>4, <2>6, <2>7, <2>9, <3>1 DEF OnTheirWay
    <3>3. st \in [Nodes -> States] /\ Placed(st, src, dst, kept) /\ d \in Dirs /\ st[d] = "Preparing"
      BY <1>1, <1>2
    <3> HIDE DEF P, N, M
    <3> QED BY <2>3, <2>5, <3>2, <3>3, ChildrenGoOn
  <2> HIDE DEF P, N, M
  <2>11. /\ st' \in [Nodes -> States] /\ Shape(st') /\ Placed(st', src', dst', kept')
         /\ call' \in [Nodes -> Calls]
         /\ \A m \in Nodes : call'[m] = "delete" => call[m] = "delete" /\ m # d
         /\ st'[d] \in {"Parent", "Finishing", "Finish"}
         /\ \A m \in Nodes \ {d} :
              st'[m] = S[m] \/ (m \in Dirs /\ st'[m] \in {"Finishing", "Finish"})
    <3>1. CASE \E n \in Children(d) : S[n] \in {"waiting", "Conflict"}
      <4>1. st' = P /\ call' = [call EXCEPT ![d] = "none"]
        BY <1>5, <3>1 DEF P
      <4>2. \E c \in Children(d) : Pends(P, c)
        BY <2>3, <3>1, Siblings DEF Pends
      <4>3. Shape(P)
        <5>1. \A c \in Children(d) : P[c] # "Parent"
          BY <2>9
        <5>2. \A m \in Nodes \ (Children(d) \cup {d}) : P[m] = st[m]
          BY <2>2, <2>3
        <5> QED BY <1>1, <1>2, <2>3, <4>2, <5>1, <5>2, ReadShape DEF Placed
      <4>4. /\ call' \in [Nodes -> Calls]
            /\ \A m \in Nodes : call'[m] = "delete" => call[m] = "delete" /\ m # d
        BY <1>2, <4>1 DEF Calls
      <4> QED BY <2>3, <2>10, <4>1, <4>3, <4>4
    <3>2. CASE ~ \E n \in Children(d) : S[n] \in {"waiting", "Conflict"}
      <4>1. TryFinish(d, S)
        BY <1>5, <3>2
      <4>2. Shape(S)
        <5>1. \A c \in Children(d) : S[c] # "Parent" /\ ~Pends(S, c)
          BY <2>3, <2>9, <3>2, Siblings DEF Pends
        <5> QED BY <1>1, <1>2, <2>2, <5>1, ReadShape DEF Placed
      <4>3. Cascade(d, S) /\ st'[d] \in {"Finishing", "Finish"}
        <5>1. Pends(S, d) /\ S[d] # "Parent"
          BY <2>2 DEF Pends
        <5> QED BY <1>1, <1>2, <2>2, <4>1, <4>2, <5>1, TryFinishStep
      <4>4. Placed(st', src', dst', kept')
        <5>1. st' \in [Nodes -> States]
          BY <4>3 DEF Cascade
        <5>2. \A m \in Nodes : \/ st'[m] = P[m]
                               \/ P[m] = "Parent" /\ m \in Dirs /\ st'[m] \in {"Finishing", "Finish"}
          BY <1>1, <2>3, <4>3 DEF Cascade
        <5> QED BY <2>3, <2>10, <5>1, <5>2, ParentsGoOn
      <4> QED BY <4>3, <4>4 DEF Cascade
    <3> QED BY <3>1, <3>2
  <2>12. \A m \in Nodes :
           \/ st'[m] = st[m]
           \/ m \in Dirs /\ st'[m] \in {"Parent", "Finishing", "Finish", "Conflict"}
           \/ st[m] = "none" /\ st'[m] \in {"waiting", "Failed", "Finish"}
    <3>1. \A c \in Children(d) : \/ S[c] \in {"none", "waiting", "Failed", "Finish"}
                                 \/ S[c] = "Conflict" /\ c \in Dirs
      BY <2>1, <2>2
    <3> QED BY <1>1, <1>3, <2>2, <2>11, <3>1
  <2>13. TypeOK'
    BY <1>1, <1>2, <2>5, <2>11 DEF TypeOK, Calls, Goes, given, client, policies
  <2>14. Kinds'
    <3>1. \A m \in Nodes : call'[m] = "delete" => st'[m] = "Working" /\ m \in dst'
      <4>1. \A m \in Nodes : call'[m] = "delete" => st[m] = "Working" /\ m \in dst /\ m # d
        BY <2>11 DEF IInv, Kinds
      <4>2. \A m \in Nodes : st[m] = "Working" => m \in Files /\ m \notin Dirs
        BY DEF IInv, Kinds, Dirs
      <4> QED BY <2>5, <2>12, <4>1, <4>2
    <3> QED BY <1>1, <2>12, <3>1 DEF IInv, Kinds, Goes, given
  <2>15. Stops'
    <3>1. d \in Running
      BY <1>1 DEF Running, RunningDirs
    <3> QED BY <1>1, <3>1 DEF IInv, Stops, Goes, given, client, Stepping
  <2>16. FileConflictIsOpen'
    <3>1. \A m \in Files : st'[m] = "Conflict" => st[m] = "Conflict"
      BY <2>12, TreeAssumption DEF Dirs
    <3> QED BY <1>1, <3>1 DEF IInv, FileConflictIsOpen, Goes, given, policies, Resolve, GetPolicy, Merge, Kind
  <2>17. clash' = clash
    BY <1>1 DEF Goes, given
  <2> QED BY <2>11, <2>13, <2>14, <2>15, <2>16, <2>17, Together
<1> QED BY <1>4, <1>5 DEF BatchDone

\* A directory tried again meets a conflict once more, is skipped or moved, or is made.
LEMMA MkdirDoneInv == ASSUME IInv, NEW d \in Nodes, MkdirDone(d) PROVE IInv'
<1> DEFINE p == used[d]
<1>1. /\ st[d] = "Mkdir" /\ d \in Dirs /\ ~destroyed
      /\ Goes /\ UNCHANGED <<used, policies>>
  BY DEF MkdirDone, Answered, IInv, Kinds
<1>2. /\ st \in [Nodes -> States] /\ Shape(st) /\ Pends(st, d) /\ st[d] # "Parent"
      /\ call \in [Nodes -> Calls] /\ TypeOK /\ Placed(st, src, dst, kept)
  BY <1>1 DEF IInv, TypeOK, Pends, Calls
<1>3. /\ d # Root /\ d \notin dst /\ d \in src /\ d \notin kept
      /\ \A c \in Children(d) : st[c] = "none"
      /\ Arrived(src, dst, kept) /\ kept \subseteq Dirs
      /\ src \subseteq Nodes /\ Nodes \ src \subseteq dst /\ dst \subseteq Nodes /\ kept \subseteq dst
  BY <1>1, <1>2, Siblings DEF Shape, Placed, Unseen, Early, Entered, Arrived, TypeOK
<1>4. CASE End(d, "Failed", st) /\ UNCHANGED <<kept, src, dst>>
  <2>1. Cascade(d, st) /\ st'[d] = "Failed"
    BY <1>2, <1>4, EndStep
  <2> QED BY <1>1, <1>3, <1>4, <2>1, CascadeInv
<1>5. ASSUME NEW s \in {"Conflict", "Preparing"}, NEW o \in {"none", "op"},
             st' = [st EXCEPT ![d] = s], call' = [call EXCEPT ![d] = o],
             src' = src, dst' = IF s = "Preparing" THEN dst \cup {d} ELSE dst,
             kept' = kept \/ (kept' = kept \cup {d} /\ s = "Preparing")
      PROVE  IInv'
  <2>1. /\ s \in States /\ Arrived(src', dst', kept') /\ kept' \subseteq Dirs
        /\ src' \subseteq Nodes /\ dst' \subseteq Nodes
    BY <1>1, <1>3, <1>5 DEF States, Arrived
  <2>2. TypeOK'
    BY <1>1, <1>2, <1>5, <2>1 DEF TypeOK, Goes, given, client, policies
  <2>3. Shape(st')
    BY <1>2, <1>3, <1>5, <2>1, PendingShape
  <2>4. \A m \in Nodes : st'[m] = st[m] \/ (m = d /\ st'[m] = s)
    BY <1>2, <1>5
  <2>5. Kinds'
    <3>1. \A m \in Nodes : call'[m] = "delete" => call[m] = "delete" /\ m # d
      BY <1>2, <1>5
    <3>2. dst \subseteq dst' /\ clash' = clash
      BY <1>1, <1>5 DEF Goes, given
    <3> QED BY <1>1, <2>4, <3>1, <3>2 DEF IInv, Kinds
  <2>6. Stops'
    <3>1. d \in Running
      BY <1>1 DEF Running, RunningDirs
    <3> QED BY <1>1, <3>1 DEF IInv, Stops, Goes, given, client, Stepping
  <2>7. Placed(st', src', dst', kept')
    BY <1>1, <1>2, <1>3, <1>5, <2>1, NodeGoesOn DEF Early, Dirs
  <2>8. FileConflictIsOpen'
    <3>1. \A m \in Files : st'[m] = "Conflict" => st[m] = "Conflict"
      BY <1>1, <2>4, TreeAssumption DEF Dirs
    <3> QED BY <1>1, <3>1 DEF IInv, FileConflictIsOpen, Goes, given, policies, Resolve, GetPolicy, Merge, Kind
  <2> QED BY <1>1, <2>2, <2>3, <2>5, <2>6, <2>7, <2>8, Together DEF Goes, given
<1>6. CASE /\ Resolve(d, p) = "skip" \/ Moves(d, p)
           /\ dst' = dst \cup Taken({d}, p) /\ src' = src \ Taken({d}, p)
           /\ IF Mode = "move" THEN TryFinish(d, st) ELSE End(d, "Finish", st)
           /\ UNCHANGED kept
  <2>1. End(d, "Finish", st)
    BY <1>3, <1>6 DEF TryFinish, Cleans
  <2>2. Cascade(d, st) /\ st'[d] = "Finish"
    BY <1>2, <2>1, EndStep
  <2>3. \A x : x \in Taken({d}, p) <=> x \in src /\ Moves(d, p) /\ (x = d \/ x \in Below(d))
    BY TakenFacts
  <2>4. Arrived(src', dst', kept') /\ src' \subseteq src /\ dst \subseteq dst'
    BY <1>3, <1>6, <2>3 DEF Arrived
  <2>5. CASE Moves(d, p)
    <3>1. /\ dst' \subseteq dst \cup {d} \cup Below(d) /\ st[d] \in Early
          /\ Below(d) \subseteq dst' \ src' /\ d \in dst'
      BY <1>1, <1>3, <1>6, <2>3, <2>5, Siblings DEF Early
    <3>2. \A c \in Children(d) : PassedOver(c, d, dst')
      BY <3>1, Siblings DEF PassedOver
    <3> QED BY <1>1, <1>3, <1>6, <2>2, <2>4, <3>1, <3>2, CascadeInv
  <2>6. CASE ~Moves(d, p) /\ Resolve(d, p) = "skip"
    <3>1. dst' = dst /\ src' = src
      BY <1>6, <2>3, <2>6
    <3>2. clash[d] # Clean
      BY <2>6 DEF Resolve
    <3>3. \A c \in Children(d) : PassedOver(c, d, dst')
      BY <1>3, <3>1, <3>2 DEF PassedOver, Skipped
    <3> QED BY <1>1, <1>3, <1>6, <2>2, <2>4, <3>1, <3>2, <3>3, CascadeInv
  <2> QED BY <1>6, <2>5, <2>6
<1> QED BY <1>4, <1>5, <1>6 DEF MkdirDone

\* A directory whose source was removed, or not, ends.
LEMMA DirCleanedInv == ASSUME IInv, NEW d \in Nodes, DirCleaned(d) PROVE IInv'
<1>1. /\ st[d] = "Finishing" /\ d \in Dirs /\ ~destroyed
      /\ Goes /\ UNCHANGED <<used, policies, kept, dst>> /\ src' \in {src, src \ {d}}
  BY DEF DirCleaned, Answered, IInv, Kinds
<1>2. PICK s \in {"Failed", "Finish"} : End(d, s, st)
  BY DEF DirCleaned
<1>3. /\ st \in [Nodes -> States] /\ Shape(st) /\ Pends(st, d) /\ st[d] # "Parent"
      /\ call \in [Nodes -> Calls] /\ TypeOK /\ Placed(st, src, dst, kept)
  BY <1>1 DEF IInv, TypeOK, Pends, Calls
<1>4. Cascade(d, st) /\ st'[d] = s
  BY <1>2, <1>3, EndStep
<1>5. d \in dst /\ Arrived(src', dst', kept') /\ kept' \subseteq Dirs
  BY <1>1, <1>3 DEF Placed, Entered, Arrived, TypeOK
<1>6. \A c \in Children(d) : st[c] = "none" => PassedOver(c, d, dst')
  BY <1>1, <1>3 DEF Placed, Passed, Children
<1> QED BY <1>1, <1>4, <1>5, <1>6, CascadeInv

\* The calls of a destroyed task return: a file may still arrive, or its source leave.
LEMMA LateInv ==
  ASSUME IInv, NEW n \in Nodes, Late(n) \/ (FileDeleted(n) /\ destroyed)
  PROVE  IInv'
<1>1. /\ destroyed /\ call' = [call EXCEPT ![n] = "none"]
      /\ UNCHANGED <<st, used, policies, kept, given, scheduled, client>>
      /\ broken' \in {TRUE, broken}
      /\ \/ UNCHANGED <<src, dst>>
         \/ /\ st[n] = "Working" /\ n \in Files
            /\ dst' \in {dst, dst \cup {n}} /\ src' \in {src, src \ {n}} /\ n \in dst'
  BY DEF Late, FileDeleted, IInv, Kinds
<1> USE DEF given, client, policies
<1>2. TypeOK'
  BY <1>1 DEF IInv, TypeOK
<1>3. Shape(st') /\ Stops'
  BY <1>1 DEF IInv, Stops
<1>4. Kinds'
  <2>1. \A m \in Nodes : call'[m] = "delete" => call[m] = "delete"
    BY <1>1 DEF IInv, TypeOK
  <2> QED BY <1>1, <2>1 DEF IInv, Kinds
<1>5. Placed(st', src', dst', kept')
  BY <1>1, FileArrives DEF IInv
<1>6. FileConflictIsOpen'
  BY <1>1 DEF IInv, FileConflictIsOpen, Resolve, GetPolicy, Merge, Kind
<1> QED BY <1>1, <1>2, <1>3, <1>4, <1>5, <1>6, Together

\* Nodes that wait or are in conflict are taken up: the tree stays as it is.
LEMMA TakenUp ==
  ASSUME IInv, UNCHANGED <<kept, src, dst, clash>>, st' \in [Nodes -> States],
         \A m \in Nodes :
           \/ st'[m] = st[m]
           \/ st[m] = "waiting" /\ st'[m] = IF m \in Files THEN "Working" ELSE "Preparing"
           \/ st[m] = "Conflict" /\ st'[m] = IF m \in Files THEN "Working" ELSE "Mkdir"
  PROVE  Shape(st') /\ Placed(st', src', dst', kept')
<1>0. /\ st \in [Nodes -> States] /\ Shape(st) /\ Placed(st, src, dst, kept)
      /\ \A m \in Nodes \ {Root} : Parent[m] \in Nodes
      /\ \A m \in Nodes : Below(m) \subseteq Nodes
  BY TreeAssumption DEF IInv, TypeOK, Below
<1>1. \A m \in Nodes : /\ Pends(st', m) <=> Pends(st, m)
                       /\ st'[m] = "Parent" <=> st[m] = "Parent"
  BY DEF Pends
<1>2. Shape(st')
  <2>1. \A n \in Nodes \ {Root} : Pends(st', n) => st'[Parent[n]] = "Parent"
    BY <1>0, <1>1 DEF Shape
  <2>2. \A d \in Dirs : st'[d] = "Parent" => \E c \in Children(d) : Pends(st', c)
    BY <1>0, <1>1 DEF Shape, Dirs, Children
  <2>3. st'[Root] = st[Root]
    BY <1>0, TreeAssumption DEF Shape
  <2> QED BY <1>0, <2>1, <2>2, <2>3 DEF Shape
<1>3. Entered(st', dst)
  BY <1>0 DEF Placed, Entered, Dirs
<1>4. Unseen(st')
  BY <1>0 DEF Placed, Unseen, Early
<1>5. Carried(st', src, dst)
  BY <1>0 DEF Placed, Carried
<1>6. Met(st', dst)
  BY <1>0 DEF Placed, Met
<1>7. Passed(st', dst)
  BY <1>0 DEF Placed, Passed
<1> QED BY <1>0, <1>2, <1>3, <1>4, <1>5, <1>6, <1>7 DEF Placed

\* The scheduler starts files and directories that wait.
LEMMA StartInv ==
  ASSUME IInv, NEW F \in SUBSET Files, NEW D \in SUBSET Dirs, Start(F, D),
         UNCHANGED <<policies, kept, src, dst, given, destroyed, broken>>,
         scheduled' \in BOOLEAN, watching' \in BOOLEAN, step' \in {"Stopped", "Stepping"}, Stops'
  PROVE  IInv'
<1> USE DEF given, policies
<1>1. /\ \A n \in F : n \in Nodes /\ st[n] = "waiting"
      /\ \A n \in D : n \in Nodes /\ st[n] = "waiting" /\ n \notin Files
      /\ st' = [n \in Nodes |-> IF n \in F THEN "Working"
                                ELSE IF n \in D THEN "Preparing" ELSE st[n]]
      /\ used' = [n \in Nodes |-> IF n \in F THEN GetPolicy(n) ELSE used[n]]
  BY TreeAssumption DEF Start, Dirs
<1>2. PICK o \in Started(F \cup D) :
        call' = [n \in Nodes |-> IF n \in F \cup D THEN o[n] ELSE call[n]]
  BY DEF Start
<1>3. \A n \in F \cup D : o[n] \in {"op", "none"}
  BY DEF Started
<1>4. st' \in [Nodes -> States]
  BY <1>1 DEF IInv, TypeOK, States
<1>5. /\ call' \in [Nodes -> Calls]
      /\ \A n \in Nodes : call'[n] = "delete" => call[n] = "delete" /\ n \notin F \cup D
  BY <1>2, <1>3 DEF IInv, TypeOK, Calls
<1>6. used' \in [Nodes -> Policies]
  BY <1>1, PolicyTypes DEF IInv, TypeOK
<1>7. TypeOK'
  BY <1>4, <1>5, <1>6 DEF IInv, TypeOK, Calls
<1>8. Shape(st') /\ Placed(st', src', dst', kept')
  BY <1>1, <1>4, TakenUp
<1>9. Kinds'
  BY <1>1, <1>5 DEF IInv, Kinds, Dirs
<1>10. FileConflictIsOpen'
  <2>1. \A m \in Files : st'[m] = "Conflict" => st[m] = "Conflict"
    BY <1>1, TreeAssumption
  <2> QED BY <2>1 DEF IInv, FileConflictIsOpen, Resolve, GetPolicy, Merge, Kind
<1> QED BY <1>7, <1>8, <1>9, <1>10, Together

LEMMA SchedInv == ASSUME IInv, Sched PROVE IInv'
<1> USE DEF given, policies
<1>0. /\ scheduled /\ watching' \in BOOLEAN
      /\ UNCHANGED <<policies, kept, src, dst, given, destroyed, broken>>
  BY DEF Sched, IInv, TypeOK
<1>1. CASE UNCHANGED <<st, call, used>> /\ scheduled' \in BOOLEAN
           /\ step' \in {"Stopped", "Stepping"} /\ Stops'
  <2>1. TypeOK' /\ Shape(st') /\ Kinds' /\ Placed(st', src', dst', kept')
    BY <1>0, <1>1 DEF IInv, TypeOK, Kinds
  <2>2. FileConflictIsOpen'
    BY <1>0, <1>1 DEF IInv, FileConflictIsOpen, Resolve, GetPolicy, Merge, Kind
  <2> QED BY <1>0, <1>1, <2>1, <2>2, Together
<1>2. CASE Stepping
  <2>1. /\ UNCHANGED <<st, call, used>> /\ scheduled' = FALSE
        /\ step' = IF Running = {} THEN "Stopped" ELSE step
    BY <1>2 DEF Sched
  <2>2. Stops'
    BY <1>0, <1>2, <2>1 DEF IInv, Stops, Stepping, Running, RunningFiles, RunningDirs
  <2> QED BY <1>1, <2>1, <2>2 DEF IInv, TypeOK
<1>3. CASE ~Stepping
  <2>1. step' = step /\ step \in {"Stopped", "Stepping"} /\ Stops'
    BY <1>0, <1>3 DEF Sched, Stops, Stepping, IInv, TypeOK
  <2>2. \/ UNCHANGED <<st, call, used, scheduled>>
        \/ \E F \in SUBSET Files, D \in SUBSET Dirs : Start(F, D) /\ scheduled' = (F \cup D # {})
    BY <1>3 DEF Sched
  <2> QED BY <1>0, <1>1, <2>1, <2>2, StartInv DEF IInv, TypeOK
<1> QED BY <1>2, <1>3

\* Everything but the root is below the root.
LEMMA BelowRoot == Root \in Dirs /\ Below(Root) = Nodes \ {Root}
<1> DEFINE S == {n \in Nodes : n = Root \/ Root \in Ancestors[n]}
<1>1. S \in SUBSET Nodes /\ Root \in S
  BY TreeAssumption
<1>2. ASSUME NEW n \in Nodes \ {Root}, Parent[n] \in S PROVE n \in S
  BY <1>2, AncestorFacts
<1>3. S = Nodes
  <2> HIDE DEF S
  <2> QED BY <1>1, <1>2, Downward
<1> QED BY <1>3, AncestorFacts, TreeAssumption DEF Below, Dirs

LEMMA StepInv == ASSUME IInv, Step PROVE IInv'
<1> USE DEF given, policies
<1>1. /\ step' = "Stepping" /\ ~destroyed /\ scheduled' \in BOOLEAN /\ watching' \in BOOLEAN
      /\ UNCHANGED <<policies, kept, src, dst, given, destroyed, broken>>
  BY DEF Step, IInv, TypeOK
<1>2. Stops'
  BY <1>1 DEF Stops
<1>3. CASE /\ st[Root] = "none" /\ UNCHANGED <<used, watching>>
           /\ st' = [st EXCEPT ![Root] = "Preparing"] /\ call' = [call EXCEPT ![Root] = "op"]
  <2>1. /\ Root \in Nodes /\ Root \in Dirs /\ st \in [Nodes -> States] /\ call \in [Nodes -> Calls]
        /\ \A m \in Nodes \ {Root} : st[m] = "none"
    BY <1>3, BelowRoot DEF IInv, TypeOK, Calls, Dirs, Placed, Unseen, Early
  <2>2. /\ st' \in [Nodes -> States] /\ st'[Root] = "Preparing"
        /\ \A m \in Nodes \ {Root} : st'[m] = "none"
        /\ call' \in [Nodes -> Calls] /\ \A m \in Nodes : call'[m] = "delete" => call[m] = "delete"
    BY <1>3, <2>1 DEF States, Calls
  <2>3. TypeOK'
    BY <1>1, <1>3, <2>2 DEF IInv, TypeOK, Calls
  <2>4. Shape(st')
    BY <2>1, <2>2 DEF Shape, Pends, Dirs
  <2>5. Kinds'
    BY <1>1, <1>3, <2>1, <2>2 DEF IInv, Kinds
  <2>6. Placed(st', src', dst', kept')
    <3>1. Root \in dst /\ Arrived(src', dst', kept') /\ Placed(st, src, dst, kept) /\ "Preparing" \in States
      BY <1>1 DEF IInv, Placed, Arrived, States
    <3> QED BY <1>1, <1>3, <2>1, <3>1, NodeGoesOn DEF Early
  <2>7. FileConflictIsOpen'
    BY <2>2, TreeAssumption DEF FileConflictIsOpen
  <2> QED BY <1>1, <1>2, <2>3, <2>4, <2>5, <2>6, <2>7, Together
<1>4. CASE \E F \in SUBSET Files, D \in SUBSET Dirs : Start(F, D)
  BY <1>1, <1>2, <1>4, StartInv
<1> QED BY <1>3, <1>4 DEF Step

\* Whatever policy the client sets, the files left in conflict are of the other kind or
\* were not meant.
LEMMA UpdateInv ==
  ASSUME IInv, NEW n \in Nodes, NEW p \in Updates, NEW all \in BOOLEAN, Update(n, p, all)
  PROVE  IInv'
<1> DEFINE again == {m \in Nodes : st[m] = "Conflict" /\ (m = n \/ (all /\ Kind(m) = Kind(n)))}
<1> USE DEF given
<1>1. /\ ~destroyed /\ scheduled' = TRUE /\ step' = Kick
      /\ UNCHANGED <<kept, src, dst, given, watching, destroyed, broken>>
      /\ local' = [local EXCEPT ![n] = Merge(p, local[n])]
      /\ global' = IF all THEN [global EXCEPT ![Kind(n)] = Merge(p, @)] ELSE global
      /\ st' = [m \in Nodes |-> IF m \notin again THEN st[m]
                                ELSE IF m \in Files THEN "Working" ELSE "Mkdir"]
      /\ call' = [m \in Nodes |-> IF m \in again THEN "op" ELSE call[m]]
      /\ used' = [m \in Nodes |->
                   IF m \notin again THEN used[m]
                   ELSE Merge(local'[m], (IF m = n THEN global ELSE global')[Kind(m)])]
  BY DEF Update
<1>2. \A m \in again : m \in Nodes /\ st[m] = "Conflict"
  OBVIOUS
<1>3. p \in Policies /\ \A m \in Nodes : Kind(m) \in {"file", "dir"}
  BY PolicyAssumption DEF Kind
<1>4. local' \in [Nodes -> Policies] /\ global' \in [{"file", "dir"} -> Policies]
  BY <1>1, <1>3, PolicyTypes DEF IInv, TypeOK
<1>5. used' \in [Nodes -> Policies]
  <2>1. \A m \in Nodes : Merge(local'[m], (IF m = n THEN global ELSE global')[Kind(m)]) \in Policies
    BY <1>3, <1>4, PolicyTypes DEF IInv, TypeOK
  <2> QED BY <1>1, <2>1 DEF IInv, TypeOK
<1>6. FileConflictIsOpen'
  <2> SUFFICES ASSUME NEW m \in Files, st'[m] = "Conflict"
               PROVE  (Resolve(m, GetPolicy(m)) = "conflict")'
    BY DEF FileConflictIsOpen
  <2>1. m \in Nodes /\ m \notin again /\ st[m] = "Conflict"
    BY <1>1, TreeAssumption
  <2>2. m # n /\ ~(all /\ Kind(m) = Kind(n))
    BY <2>1
  <2>3. local'[m] = local[m] /\ global'[Kind(m)] = global[Kind(m)]
    BY <1>1, <1>3, <2>1, <2>2 DEF IInv, TypeOK
  <2>4. Resolve(m, GetPolicy(m)) = "conflict"
    BY <2>1 DEF IInv, FileConflictIsOpen
  <2> QED BY <1>1, <2>3, <2>4 DEF Resolve, GetPolicy, Merge, Kind
<1> HIDE DEF again
<1>7. st' \in [Nodes -> States]
  BY <1>1 DEF IInv, TypeOK, States
<1>8. /\ call' \in [Nodes -> Calls]
      /\ \A m \in Nodes : call'[m] = "delete" => call[m] = "delete" /\ m \notin again
  BY <1>1 DEF IInv, TypeOK, Calls
<1>9. TypeOK'
  BY <1>1, <1>4, <1>5, <1>7, <1>8 DEF IInv, TypeOK, Calls, Kick
<1>10. Shape(st') /\ Placed(st', src', dst', kept')
  BY <1>1, <1>2, <1>7, TakenUp
<1>11. Kinds'
  BY <1>1, <1>2, <1>8 DEF IInv, Kinds, Dirs
<1>12. Stops'
  BY <1>1 DEF Stops, Kick, Stepping
<1> QED BY <1>1, <1>6, <1>9, <1>10, <1>11, <1>12, Together

\* Nothing that the invariant speaks of changes.
LEMMA QuietInv ==
  ASSUME IInv, Watch \/ Destroy \/ UNCHANGED vars
  PROVE  IInv'
<1>1. /\ UNCHANGED <<task, st, call, used, local, global, kept, src, dst, clash, scheduled, step>>
      /\ broken' = broken /\ watching' \in BOOLEAN /\ (destroyed' = TRUE \/ UNCHANGED destroyed)
  BY DEF Watch, Destroy, vars, given, policies, client, IInv, TypeOK
<1>2. TypeOK' /\ Shape(st') /\ Kinds' /\ Placed(st', src', dst', kept')
  BY <1>1 DEF IInv, TypeOK, Kinds
<1>3. Stops'
  <2>1. CASE destroyed' = TRUE
    BY <2>1 DEF Stops
  <2>2. CASE UNCHANGED destroyed
    BY <1>1, <2>2 DEF IInv, Stops, Stepping, Running, RunningFiles, RunningDirs
  <2> QED BY <1>1, <2>1, <2>2
<1>4. FileConflictIsOpen'
  BY <1>1 DEF IInv, FileConflictIsOpen, Resolve, GetPolicy, Merge, Kind
<1> QED BY <1>1, <1>2, <1>3, <1>4, Together

-----------------------------------------------------------------------------
(* The theorems.                                                           *)

LEMMA InitInv == Init => IInv
<1> SUFFICES ASSUME Init PROVE IInv
  OBVIOUS
<1>1. /\ st = [n \in Nodes |-> IF n = Root /\ ~Stepping THEN "Preparing" ELSE "none"]
      /\ call = [n \in Nodes |-> IF n = Root /\ ~Stepping THEN "op" ELSE "none"]
      /\ Root \in Dirs /\ Root \in Nodes /\ Dirs \subseteq Nodes
      /\ \A n \in Nodes \ {Root} : Parent[n] \in Nodes
  BY TreeAssumption DEF Init, Dirs
<1>2. TypeOK
  BY <1>1, PolicyTypes, PolicyAssumption DEF Init, TypeOK, States
<1>3. Shape(st)
  BY <1>1 DEF Shape, Pends
<1>4. Kinds
  BY <1>1, ClashAssumption DEF Init, Kinds
<1>5. Stops
  <2>1. ASSUME Stepping PROVE ~scheduled /\ Running = {}
    <3>1. ~scheduled
      BY <2>1 DEF Init
    <3>2. \A n \in Nodes : st[n] = "none"
      BY <1>1, <2>1
    <3>3. RunningFiles = {} /\ RunningDirs = {}
      BY <1>1, <3>2, TreeAssumption DEF RunningFiles, RunningDirs
    <3> QED BY <3>1, <3>3 DEF Running
  <2> QED BY <2>1 DEF Stops
<1>6. Placed(st, src, dst, kept)
  <2>1. \A m \in Nodes : Below(m) \subseteq Nodes \ {Root}
    BY AncestorFacts DEF Below
  <2> QED BY <1>1, <2>1 DEF Init, Placed, Arrived, Entered, Unseen, Carried, Met, Passed
<1>7. FileConflictIsOpen
  BY <1>1, TreeAssumption DEF FileConflictIsOpen
<1> QED BY <1>2, <1>3, <1>4, <1>5, <1>6, <1>7 DEF IInv

LEMMA NextInv == IInv /\ [Next]_vars => IInv'
<1> SUFFICES ASSUME IInv, [Next]_vars PROVE IInv'
  OBVIOUS
<1>1. ASSUME NEW n \in Nodes, Return(n) PROVE IInv'
  <2>1. CASE FileFails(n) \/ FileSkips(n) \/ (FilePlaced(n) /\ Mode # "clean")
                          \/ (FileDeleted(n) /\ ~destroyed)
    BY <2>1, FileEndInv
  <2>2. CASE FilePlaced(n) /\ Mode = "clean"
    BY <2>2, FilePlacedInv
  <2>3. CASE FileConflicts(n)
    BY <2>3, FileConflictsInv
  <2>4. CASE Late(n) \/ (FileDeleted(n) /\ destroyed)
    BY <2>4, LateInv
  <2>5. CASE DirRead(n)
    BY <2>5, DirReadInv
  <2>6. CASE BatchDone(n)
    BY <2>6, BatchDoneInv
  <2>7. CASE MkdirDone(n)
    BY <2>7, MkdirDoneInv
  <2>8. CASE DirCleaned(n)
    BY <2>8, DirCleanedInv
  <2> QED BY <1>1, <2>1, <2>2, <2>3, <2>4, <2>5, <2>6, <2>7, <2>8 DEF Return
<1>2. CASE Sched
  BY <1>2, SchedInv
<1>3. CASE Step
  BY <1>3, StepInv
<1>4. CASE Watch \/ Destroy \/ UNCHANGED vars
  BY <1>4, QuietInv
<1>5. CASE \E n \in Nodes, p \in Updates, all \in BOOLEAN : Update(n, p, all)
  BY <1>5, UpdateInv
<1> QED BY <1>1, <1>2, <1>3, <1>4, <1>5 DEF Next

\* IInv holds in every reachable state: the inductive invariant of the task.
THEOREM Invariant == Spec => []IInv
<1> QED BY InitInv, NextInv, PTL DEF Spec

\* The tree of a task keeps the shape that the listeners of xdir.js and the scheduler
\* rely on, for any source tree, limits, clashes, policies, failures and answers.
THEOREM TreeAlways == Spec => []TreeInv
<1>1. IInv => TreeInv
  BY DEF IInv, TreeInv, Shape, TreeShape, Pends, Pending, Stops, NoTickWhenStopped, TypeOK
<1> QED BY <1>1, Invariant, PTL

\* No step of a copy or a move, early, late or failing, leaves a file in neither place.
THEOREM NothingLostEver == Spec => []NothingLost
<1>1. IInv => NothingLost
  BY TreeAssumption DEF IInv, NothingLost, Placed, Arrived
<1> QED BY <1>1, Invariant, PTL

\* However updates and answers interleave, no file waits in a conflict that the policies
\* resolve.
THEOREM ConflictsAreOpen == Spec => []FileConflictIsOpen
<1>1. IInv => FileConflictIsOpen
  BY DEF IInv
<1> QED BY <1>1, Invariant, PTL

\* A task that finished has treated every entry of its source.
THEOREM FinishedHasAll == Spec => []FinishedIsComplete
<1>1. ASSUME IInv, st[Root] = "Finish" PROVE FinishedIsComplete
  <2> DEFINE Bad(a) == st[a] = "Failed" \/ (clash[a] # Clean /\ a \notin dst)
             T == {n \in Nodes : n \in dst \/ \E a \in Ancestors[n] \cup {n} : Bad(a)}
  <2>0. /\ st \in [Nodes -> States] /\ Shape(st) /\ Placed(st, src, dst, kept)
        /\ Root \in Nodes /\ Root \in dst
    BY <1>1, TreeAssumption DEF IInv, TypeOK, Placed
  <2>1. \A n \in Nodes : st[n] \in {"none", "Failed", "Finish"}
    <3>1. ASSUME NEW n \in Nodes, Pends(st, n) PROVE FALSE
      <4>1. n # Root
        BY <1>1, <3>1 DEF Pends
      <4>2. Root \in Ancestors[n]
        BY <4>1, BelowRoot DEF Below
      <4> QED BY <1>1, <2>0, <3>1, <4>2, AboveWaits
    <3> QED BY <3>1 DEF Pends
  <2>2. ASSUME NEW n \in Nodes \ {Root}, Parent[n] \in T PROVE n \in T
    <3> DEFINE p == Parent[n]
    <3>1. /\ p \in Nodes /\ Ancestors[n] = {p} \cup Ancestors[p] /\ n \in Below(p)
      BY AncestorFacts DEF Below, Dirs
    <3>2. CASE \E a \in Ancestors[p] \cup {p} : Bad(a)
      BY <3>1, <3>2
    <3>3. CASE p \in dst /\ ~Bad(p)
      <4>1. CASE st[p] = "none"
        BY <1>1, <2>0, <3>1, <3>3, <4>1 DEF Placed, Carried
      <4>2. CASE st[p] = "Finish" /\ st[n] = "none"
        BY <2>0, <3>3, <4>2 DEF Placed, Passed, PassedOver, Skipped
      <4>3. CASE st[n] = "Finish"
        BY <2>0, <4>3 DEF Placed, Met
      <4>4. CASE st[n] = "Failed"
        BY <4>4
      <4> QED BY <2>1, <3>1, <3>3, <4>1, <4>2, <4>3, <4>4
    <3> QED BY <2>2, <3>2, <3>3
  <2>3. T = Nodes
    <3>1. T \in SUBSET Nodes /\ Root \in T
      BY <2>0
    <3> HIDE DEF T
    <3> QED BY <2>2, <3>1, Downward
  <2> QED BY <2>3 DEF FinishedIsComplete
<1>2. IInv => FinishedIsComplete
  BY <1>1 DEF FinishedIsComplete
<1> QED BY <1>2, Invariant, PTL

-----------------------------------------------------------------------------
(* The limits.                                                             *)

AtWork == {"Working", "Mkdir", "Preparing", "Finishing"}

\* A cascade sets ancestors in Parent to work, and nobody else.
LEMMA EndGrowth ==
  ASSUME IInv, NEW n \in Nodes, st[n] \in AtWork, NEW S \in [Nodes -> States],
         \/ \E s \in {"Failed", "Finish"} : End(n, s, S)
         \/ TryFinish(n, S)
  PROVE  \A m \in Nodes \ {n} : st'[m] = S[m] \/ st[m] = "Parent"
<1>1. \A a \in Ancestors[n] : st[a] = "Parent"
  BY AboveWaits DEF IInv, TypeOK, Pends, AtWork
<1>2. ASSUME NEW s, End(n, s, S) PROVE \A m \in Nodes \ {n} : st'[m] = S[m] \/ st[m] = "Parent"
  BY <1>1, <1>2 DEF End, Closing
<1>3. CASE st' = [S EXCEPT ![n] = "Finishing"]
  BY <1>3
<1> QED BY <1>2, <1>3 DEF TryFinish

\* A call that returns sets nobody to work but directories that waited for others.
LEMMA ReturnGrowth ==
  ASSUME IInv, NEW n \in Nodes, Return(n)
  PROVE  \/ UNCHANGED st
         \/ /\ st[n] \in AtWork
            /\ \A m \in Nodes \ {n} : st'[m] \in AtWork => st[m] \in AtWork \cup {"Parent"}
<1>0. st \in [Nodes -> States]
  BY DEF IInv, TypeOK
<1>1. CASE st[n] \in AtWork /\ ((\E s \in {"Failed", "Finish"} : End(n, s, st)) \/ TryFinish(n, st))
  BY <1>0, <1>1, EndGrowth
<1>2. CASE /\ st[n] \in AtWork
           /\ \A m \in Nodes \ {n} : st'[m] \in {st[m], "waiting"}
  BY <1>2 DEF AtWork
<1>3. CASE FileFails(n) \/ FileConflicts(n) \/ FileSkips(n) \/ FilePlaced(n) \/ FileDeleted(n)
  BY <1>0, <1>1, <1>2, <1>3 DEF FileFails, FileConflicts, FileSkips, FilePlaced, FileDeleted, AtWork, IInv, Kinds
<1>4. CASE DirRead(n)
  BY <1>0, <1>1, <1>2, <1>4 DEF DirRead, AtWork
<1>5. CASE MkdirDone(n)
  BY <1>0, <1>1, <1>2, <1>5 DEF MkdirDone, AtWork
<1>6. CASE DirCleaned(n)
  BY <1>0, <1>1, <1>6 DEF DirCleaned, AtWork
<1>7. CASE Late(n)
  BY <1>7 DEF Late
<1>8. CASE BatchDone(n)
  <2> DEFINE Grown == \A m \in Nodes \ {n} : st'[m] \in AtWork => st[m] \in AtWork \cup {"Parent"}
  <2>1. st[n] = "Preparing" /\ st[n] \in AtWork
    BY <1>8 DEF BatchDone, AtWork
  <2>2. ASSUME NEW S \in [Nodes -> States],
               \A m \in Nodes : S[m] \in {st[m], "waiting", "Failed", "Conflict", "Finish"},
               st' = [S EXCEPT ![n] = "Parent"] \/ TryFinish(n, S)
        PROVE  Grown
    <3>1. \A m \in Nodes \ {n} : st'[m] = S[m] \/ st[m] = "Parent"
      BY <2>1, <2>2, EndGrowth
    <3> QED BY <2>2, <3>1 DEF AtWork
  <2>3. ASSUME NEW bad \in SUBSET (Children(n) \cap Dirs \cap src), NEW p, NEW good, NEW S,
               p = used[n], good = (Children(n) \cap Dirs \cap src) \ bad,
               S = [m \in Nodes |->
                     IF m \in Children(n) \cap Files \cap src THEN "waiting"
                     ELSE IF m \in bad THEN "Failed"
                     ELSE IF m \notin good THEN st[m]
                     ELSE IF Resolve(m, p) = "conflict" THEN "Conflict"
                     ELSE IF Resolve(m, p) = "skip" \/ Moves(m, p) THEN "Finish"
                     ELSE "waiting"],
               dst' = dst \cup Made(good, p) \cup Taken(good, p),
               src' = src \ Taken(good, p),
               kept' = kept \cup {m \in good : Resolve(m, p) = "merge"},
               IF \E m \in Children(n) : S[m] \in {"waiting", "Conflict"}
               THEN /\ st' = [S EXCEPT ![n] = "Parent"]
                    /\ call' = [call EXCEPT ![n] = "none"]
               ELSE TryFinish(n, S)
        PROVE  Grown
    <3>1. /\ S \in [Nodes -> States]
          /\ \A m \in Nodes : S[m] \in {st[m], "waiting", "Failed", "Conflict", "Finish"}
      BY <1>0, <2>3 DEF States
    <3> QED BY <2>2, <2>3, <3>1
  <2>4. Grown
    <3>1. CASE End(n, "Failed", st)
      BY <1>0, <2>1, <3>1, EndGrowth
    <3> HIDE DEF Grown
    <3> QED BY <1>8, <2>3, <3>1 DEF BatchDone
  <2> QED BY <2>1, <2>4
<1> QED BY <1>3, <1>4, <1>5, <1>6, <1>7, <1>8 DEF Return

\* What is started fits in the room that the limit leaves.
LEMMA RoomKept ==
  ASSUME NEW R, NEW F, IsFiniteSet(R), IsFiniteSet(F), R \cap F = {},
         NEW limit \in Nat, NEW w \in Nat,
         Cardinality(F) = Least(w, Room(limit, Cardinality(R)))
  PROVE  F = {} \/ Cardinality(R \cup F) <= limit
<1>1. Cardinality(R) \in Nat /\ Cardinality(F) \in Nat
  BY FS_CardinalityType
<1>2. Cardinality(R \cup F) = Cardinality(R) + Cardinality(F)
  BY <1>1, FS_Union, FS_EmptySet
<1>3. Cardinality(F) = 0 \/ Cardinality(R) + Cardinality(F) <= limit
  BY <1>1 DEF Least, Room
<1> QED BY <1>2, <1>3, FS_EmptySet

\* Files or directories over their limit are retried, or cleaned, and never started.
Limits ==
  /\ Cardinality(RunningFiles') > FileLimit =>
        \A n \in RunningFiles' \ RunningFiles : st[n] = "Conflict"
  /\ Cardinality(RunningDirs') > DirLimit =>
        \A n \in RunningDirs' \ RunningDirs : st[n] \in {"Conflict", "Parent"}

LEMMA NodesFinite ==
  \A S \in SUBSET Nodes : IsFiniteSet(S) /\ Cardinality(S) \in Nat
  BY FS_Subset, FS_CardinalityType, TreeAssumption

LEMMA StartLimits ==
  ASSUME IInv, NEW F \in SUBSET Files, NEW D \in SUBSET Dirs, Start(F, D)
  PROVE  Limits
<1> DEFINE files == {n \in Files : st[n] = "waiting"}
           dirs == {n \in Dirs : st[n] = "waiting"}
<1>1. /\ F \subseteq files /\ D \subseteq dirs
      /\ Cardinality(F) = Least(Cardinality(files), Room(FileLimit, Cardinality(RunningFiles)))
      /\ Cardinality(D) = Least(Cardinality(dirs), Room(DirLimit, Cardinality(RunningDirs)))
      /\ st' = [n \in Nodes |-> IF n \in F THEN "Working"
                                ELSE IF n \in D THEN "Preparing" ELSE st[n]]
  BY DEF Start
<1>2. /\ RunningFiles' = RunningFiles \cup F /\ RunningFiles \cap F = {}
      /\ RunningDirs' = RunningDirs \cup D /\ RunningDirs \cap D = {}
  BY <1>1, TreeAssumption DEF RunningFiles, RunningDirs, Dirs
<1>3. files \subseteq Nodes /\ dirs \subseteq Nodes /\ F \subseteq Nodes /\ D \subseteq Nodes
      /\ RunningFiles \subseteq Nodes /\ RunningDirs \subseteq Nodes
  BY TreeAssumption DEF RunningFiles, RunningDirs, Dirs
<1> HIDE DEF files, dirs
<1>4. F = {} \/ Cardinality(RunningFiles \cup F) <= FileLimit
  BY <1>1, <1>2, <1>3, NodesFinite, RoomKept, LimitAssumption
<1>5. D = {} \/ Cardinality(RunningDirs \cup D) <= DirLimit
  BY <1>1, <1>2, <1>3, NodesFinite, RoomKept, LimitAssumption
<1>6. Cardinality(RunningFiles \cup F) \in Nat /\ Cardinality(RunningDirs \cup D) \in Nat
  BY <1>3, NodesFinite
<1> QED BY <1>2, <1>4, <1>5, <1>6, LimitAssumption DEF Limits

\* Only a retry takes a task over its limits, and a directory that cleans its source.
THEOREM LimitsEver == Spec => LimitsKept
<1>1. ASSUME IInv, [Next]_vars PROVE [Limits]_vars
  <2>1. ASSUME NEW n \in Nodes, Return(n) PROVE Limits
    <3>1. ASSUME NEW m \in RunningFiles' \ RunningFiles PROVE FALSE
      <4>1. m \in Files /\ m \in Nodes /\ st'[m] = "Working" /\ st[m] # "Working"
        BY <3>1, TreeAssumption DEF RunningFiles
      <4> QED BY <1>1, <2>1, <4>1, ReturnGrowth DEF AtWork, IInv, Kinds, Dirs
    <3>2. ASSUME NEW m \in RunningDirs' \ RunningDirs PROVE st[m] \in {"Conflict", "Parent"}
      <4>1. /\ m \in Dirs /\ m \in Nodes /\ st'[m] \in {"Mkdir", "Preparing", "Finishing"}
            /\ st[m] \notin {"Mkdir", "Preparing", "Finishing"}
        BY <3>2 DEF RunningDirs, Dirs
      <4> QED BY <1>1, <2>1, <4>1, ReturnGrowth DEF AtWork, IInv, Kinds, Dirs
    <3> QED BY <3>1, <3>2 DEF Limits
  <2>2. CASE UNCHANGED st
    BY <2>2 DEF Limits, RunningFiles, RunningDirs
  <2>3. CASE \E F \in SUBSET Files, D \in SUBSET Dirs : Start(F, D)
    BY <1>1, <2>3, StartLimits
  <2>4. CASE Sched
    BY <2>2, <2>3, <2>4 DEF Sched
  <2>5. CASE st[Root] = "none" /\ st' = [st EXCEPT ![Root] = "Preparing"]
    <3>1. /\ Root \in Dirs /\ Root \notin Files /\ st \in [Nodes -> States] /\ Dirs \subseteq Nodes
          /\ Files \subseteq Nodes /\ \A m \in Nodes \ {Root} : st[m] = "none"
      BY <1>1, <2>5, BelowRoot, TreeAssumption DEF IInv, TypeOK, Dirs, Placed, Unseen, Early
    <3>2. RunningFiles' = {} /\ RunningDirs' = {Root}
      BY <2>5, <3>1 DEF RunningFiles, RunningDirs
    <3>3. Cardinality(RunningDirs') = 1
      BY <3>2, FS_Singleton
    <3> QED BY <3>2, <3>3, LimitAssumption DEF Limits
  <2>6. CASE Step
    BY <2>3, <2>5, <2>6 DEF Step
  <2>7. ASSUME NEW n \in Nodes, NEW p \in Updates, NEW all \in BOOLEAN, Update(n, p, all)
        PROVE  Limits
    <3>1. \A m \in Nodes : st'[m] = st[m] \/ st[m] = "Conflict"
      BY <2>7 DEF Update
    <3> QED BY <3>1, TreeAssumption DEF Limits, RunningFiles, RunningDirs, Dirs
  <2>8. CASE Watch \/ Destroy \/ UNCHANGED vars
    BY <2>2, <2>8 DEF Watch, Destroy, vars
  <2> QED BY <1>1, <2>1, <2>4, <2>6, <2>7, <2>8 DEF Next
<1> QED BY <1>1, Invariant, PTL DEF Spec, LimitsKept, Limits
=============================================================================
