-------------------------------- MODULE MCSaga --------------------------------
(* A small instance of Saga: two processes, one restarting while the other  *)
(* executes.                                                                *)
EXTENDS Saga
===============================================================================
