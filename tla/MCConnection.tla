---------------------------- MODULE MCConnection ----------------------------
(* An instance of Connection where localhost has two addresses, as is      *)
(* usual; each of the two programs posts up to five lines, and client one  *)
(* more, its SayHello.                                                     *)
EXTENDS Connection
=============================================================================
