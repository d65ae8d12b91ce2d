------------------------------ MODULE MCLiveData ------------------------------
(* Instance of LiveData for TLC: a payload of a chunk and a half, one      *)
(* that fills its chunk and has hashes on top, and an empty one.           *)
EXTENDS LiveData

MCTokenOf == [e \in Entries |-> IF e = "a" THEN "s" ELSE "t"]
MCLength  == [a |-> 3, b |-> 2, c |-> 0]
MCEncoded == [a |-> 3, b |-> 3, c |-> 0]
MCUnsent  == [t \in {"rec", "data"} |-> {}]

=============================================================================
