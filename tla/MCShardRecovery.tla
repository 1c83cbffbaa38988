---------------------------- MODULE MCShardRecovery ----------------------------
(* Finite instances of ShardRecovery: two domains of one task each, seed   *)
(* strides scaled down to the size of their requests.                      *)
EXTENDS ShardRecovery

CONSTANTS bank, shop

MCDomains == << bank, shop >>
MCQuota   == [d \in {bank, shop} |-> 1]
=============================================================================
