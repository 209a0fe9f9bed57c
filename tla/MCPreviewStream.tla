--------------------------- MODULE MCPreviewStream ---------------------------
(* Instances of PreviewStream for TLC. *)
EXTENDS PreviewStream
=============================================================================
