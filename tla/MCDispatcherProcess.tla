------------------------- MODULE MCDispatcherProcess -------------------------
(* The dispatcher process needs no definition of its own: its topics are    *)
(* model values.                                                           *)
EXTENDS DispatcherProcess
=============================================================================
