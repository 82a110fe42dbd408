---------------------------- MODULE MCPluginHost ----------------------------
(***************************************************************************)
(* PluginHost for TLC: two container files, so that the update thread can *)
(* scan one while the decoder thread plays the other.                      *)
(***************************************************************************)
EXTENDS PluginHost

CONSTANTS p1, p2

MCPaths == {p1, p2}

=============================================================================
