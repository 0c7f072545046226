----------------------------- MODULE MCPipeline -----------------------------
(***************************************************************************)
(* Instances of Pipeline for TLC: a block holds bytes of the input.        *)
(***************************************************************************)
EXTENDS Pipeline

MCEmpty == << >>
MCData  == Chunks

=============================================================================
