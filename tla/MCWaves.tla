------------------------------ MODULE MCWaves ------------------------------
(***************************************************************************)
(* Every batch of up to four mutations over two entities.                  *)
(***************************************************************************)
EXTENDS PushBatch
=============================================================================
