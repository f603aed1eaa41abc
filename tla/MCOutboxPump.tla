---------------------------- MODULE MCOutboxPump ----------------------------
(* Instances of OutboxPump for TLC.                                        *)
EXTENDS OutboxPump

CONSTANTS resync, malformed, refused, p1, p2

MCRows == {resync, malformed, refused}
MCValidRows == {resync, refused}
MCPumps == {p1, p2}
AllFaults == {"crash", "redis", "database"}

MCRefusedRows == {refused}
=============================================================================
