---------------------------- MODULE MCHsdrHelper ----------------------------
(* HsdrHelper, with two threads and two requests given by the cfg. *)
EXTENDS HsdrHelper
=============================================================================
