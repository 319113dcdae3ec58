----------------------------- MODULE MCShmPool -----------------------------
(* Instances of ShmPool: small ids and sizes.                              *)
EXTENDS ShmPool

(* Blocks 1 and 2 fit together; block 3 fills the pool.                    *)
ThreeSizes == [id \in PyIds \cup NsIds |-> CASE id = 1 -> 2 [] id = 2 -> 1 [] OTHER -> 5]
UnitSizes == [id \in PyIds \cup NsIds |-> 1]
=============================================================================
