-------------------------- MODULE MCAttachmentUpload --------------------------
(* Instances of AttachmentUpload for TLC. *)
EXTENDS AttachmentUpload
=============================================================================
