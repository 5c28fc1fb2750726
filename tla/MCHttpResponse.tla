-------------------------- MODULE MCHttpResponse ---------------------------
(* HttpResponse for TLC: its constants are plain values of the configurations. *)
EXTENDS HttpResponse

=============================================================================
