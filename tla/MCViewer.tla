------------------------------ MODULE MCViewer ------------------------------
(* Viewer for TLC: a snapshot longer than the buffer, a short one, an empty one. *)
EXTENDS Viewer

CONSTANTS empty, short, long

MCLogsOf(id) == IF id = long THEN BufferMax + 1 ELSE IF id = short THEN 1 ELSE 0
=============================================================================
