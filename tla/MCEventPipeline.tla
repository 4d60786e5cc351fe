--------------------------- MODULE MCEventPipeline ---------------------------
(* EventPipeline with the event loop and two other handlers. *)
EXTENDS EventPipeline

=============================================================================
