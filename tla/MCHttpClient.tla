---------------------------- MODULE MCHttpClient ----------------------------
(* HttpClient with two small bodies: one chunk, and two different chunks. *)
EXTENDS HttpClient

MCBodies == { <<"a">>, <<"b", "c">> }
=============================================================================
