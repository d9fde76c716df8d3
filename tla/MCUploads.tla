----------------------------- MODULE MCUploads -----------------------------
(* Instances of Uploads for TLC.                                           *)
EXTENDS Uploads

CONSTANTS cad, bad, scan

(* cad has a mesh and two chunks, scan is a PDF without text, bad is over  *)
(* a limit.                                                                *)
MCNumChunks == [d \in Docs |-> IF d = scan THEN 0 ELSE 2]

=============================================================================
