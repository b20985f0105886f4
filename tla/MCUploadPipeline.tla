-------------------------- MODULE MCUploadPipeline -------------------------
(* Small instances of UploadPipeline for TLC.                               *)
EXTENDS UploadPipeline
============================================================================
