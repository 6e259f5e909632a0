------------------------------ MODULE MCMioOp ------------------------------
(* Constants for TLC runs of MioOp: the link kinds of the Motr driver.       *)
EXTENDS MioOp, MotrLinks

MCFirstLinks == ObjFirstLinks \cup KvsFirstLinks \cup CompFirstLinks
=============================================================================
