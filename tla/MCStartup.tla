----------------------------- MODULE MCStartup -----------------------------
(* A small instance of the startup for TLC. *)
EXTENDS Startup

(* Every list of up to three interfaces. *)
AllLists == BoundedSeq(Interface, 3)
=============================================================================
