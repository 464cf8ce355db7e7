---------------------------- MODULE MCProcessUtil ----------------------------
(* Two processes that may listen on the port, lsof printing up to three    *)
(* lines (so that one pid can be listed twice), helper scripts of up to    *)
(* three lines.                                                            *)
EXTENDS ProcessUtil

MCPids == {1, 2}

=============================================================================
