--------------------------- MODULE MCDownloadFile ---------------------------
(* DownloadFile on small instances; the cfgs give the constants their values. *)
EXTENDS DownloadFile
=============================================================================
