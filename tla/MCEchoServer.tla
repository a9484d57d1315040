---------------------------- MODULE MCEchoServer ----------------------------
(* Small servers: the values the .cfg files share.                         *)
EXTENDS EchoServerProperties

MCFds1 == {0}
MCFds2 == {0, 1}
MCTimeouts == {ClientTimeout}
MCDeadlines == 0..(MaxTime + ClientTimeout)
MCTimeMax == MaxTime + ClientTimeout + 1
MCNoMoves == {}
MCAllMoves == {"close", "shutdown", "reset"}
MCShutdown == {"shutdown"}
=============================================================================
