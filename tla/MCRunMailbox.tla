---------------------------- MODULE MCRunMailbox ----------------------------
(* RunMailbox on a small instance; MCMailbox.cfg gives the constants.                         *)
EXTENDS RunMailbox
=============================================================================
