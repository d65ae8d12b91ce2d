-------------------------------- MODULE MCActor --------------------------------
(* Instance of Actor for TLC.                                              *)
EXTENDS Actor

MCKinds == AllKinds

=============================================================================
