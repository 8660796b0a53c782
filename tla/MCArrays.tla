------------------------------ MODULE MCArrays ------------------------------
EXTENDS Arrays, TLC
CONSTANTS v1, v2, f1, f2, i1, n1, ds, sv, e1, e2, e3, y1, y2
Small == v1 :> 1 @@ v2 :> 2
Calls == "ds8k" :> 4 @@ "xiv" :> 4 @@ "santricity" :> 4 @@ "solidfire" :> 4
         @@ "snapshotFunction" :> 4 @@ "partition" :> 4
         @@ "mappings" :> 4 @@ "groups" :> 5 @@ "replication" :> 4
         @@ "hosts" :> 2 @@ "routing" :> 3
Types == f1 :> "fc" @@ f2 :> "fc" @@ i1 :> "iscsi" @@ n1 :> "nvmeofc"
Addresses == ds :> {e1} @@ sv :> {e2, e3}
Answering == e1 :> {"ds8k", "svc"} @@ e2 :> {"svc"} @@ e3 :> {"svc"}
Order == <<y1, y2>>
Placed == y1 :> ds @@ y2 :> sv
Pools == v1 :> {None, y1, y2} @@ v2 :> {None, y1}
Symmetry == Permutations(Threads) \union Permutations(SnapshotNames) \union Permutations(Clustered)
=============================================================================
