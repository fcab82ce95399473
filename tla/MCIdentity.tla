----------------------------- MODULE MCIdentity -----------------------------
(* A share under two host names, a second place beside it, a local disk, and a  *)
(* volume without file ids whose paths come in two cases.                        *)
EXTENDS Identity, TLC

MCPaths == {"short", "fqdn", "beside", "disk", "bare", "BARE", "root"}

MCPlaceOf ==
  [p \in MCPaths |->
     CASE p \in {"short", "fqdn"} -> [volume |-> "share", name |-> "dir"]
       [] p = "beside" -> [volume |-> "share", name |-> "beside"]
       [] p \in {"disk", "root"} -> [volume |-> "disk", name |-> "dir"]
       [] OTHER -> [volume |-> "noids", name |-> "dir"]]

MCFolded == [p \in MCPaths |-> IF p = "BARE" THEN "bare" ELSE p]
MCForbidden == {"root"}
MCWithIds == {"share", "disk"}
Processes == Permutations(Servers)
=============================================================================
