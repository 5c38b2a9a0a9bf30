--------------------------- MODULE MCSurfaceRouter ---------------------------
(* SurfaceRouter for TLC. *)
EXTENDS SurfaceRouter
=============================================================================
