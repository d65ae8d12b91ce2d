------------------------------ MODULE MCChannel ------------------------------
(* Instances of Channel for TLC.                                           *)
EXTENDS Channel

(* A peer that guarantees a message's length, or everything at once        *)
(* (INITIAL_GUARANTEES is u64::MAX); one after the other wraps around.     *)
MCAmounts == {2, Modulus - 1}

=============================================================================
