----------------------------- MODULE MCDownload -----------------------------
(* A small instance of Download for TLC. *)
EXTENDS Download, TLC
=============================================================================
