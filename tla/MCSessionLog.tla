---------------------------- MODULE MCSessionLog ----------------------------
(* SessionLog with two files, two pool tasks and one background compression. *)
EXTENDS SessionLog

MCTypes == {Main, Compression, ReLocation}
MCCalls == {<<>>, <<"file_read">>}
MCSymmetry == Permutations(Files) \cup Permutations(PoolTasks)
===============================================================================
