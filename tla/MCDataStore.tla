----------------------------- MODULE MCDataStore -----------------------------
(* Instances of DataStore for TLC.                                         *)
EXTENDS DataStore, TLC

CONSTANTS r1, r2, r3, r4, d1, d2

mcRequests == {r1, r2, r3, r4}
mcKind == r1 :> "add" @@ r2 :> "put" @@ r3 :> "add" @@ r4 :> "same"
mcFiles == [kind : {NoFile, Corrupt}, value : {{}}]
==============================================================================
