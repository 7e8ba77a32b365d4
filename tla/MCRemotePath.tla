---------------------------- MODULE MCRemotePath ----------------------------
(* RemotePath for TLC: how many packets a write of each path has. *)
EXTENDS RemotePath, TLC

\* Writes of three packets, and of one on path 4.
PacketsOf == 1 :> 3 @@ 2 :> 3 @@ 3 :> 3 @@ 4 :> 1
=============================================================================
