----------------------------- MODULE MCPreviews -----------------------------
(* Instances of Previews for TLC. *)
EXTENDS Previews
=============================================================================
