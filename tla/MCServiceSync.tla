--------------------------- MODULE MCServiceSync ---------------------------
(***************************************************************************)
(* Instances of ServiceSync for TLC.                                       *)
(***************************************************************************)
EXTENDS ServiceSync

CONSTANTS k1, k2, e1, e2, v1, v2

\* Services that share one address; a NodePort service binds no address.
SharedVip == [k \in Key |-> v1]
NodePortVip == [k \in Key |-> NoVip]

\* Configurations that differ only in their endpoints, ...
EndpointConfigs == [sched : {"rr"}, tun : {FALSE}, eps : SUBSET Ep]
\* ... or also in the scheduler, one of which asks for sloppy_tcp.
DsrConfigs == [sched : Sched, tun : {TRUE}, eps : SUBSET Ep]

Removable == Config \cup {NoSvc}
Permanent == Config
============================================================================
