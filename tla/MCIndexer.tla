------------------------------ MODULE MCIndexer ------------------------------
(* Two replicas in the middle of a deployment that adds a contract, a factory *)
(* that announces a child, and blocks that are quiet, announce it or use it.  *)
EXTENDS Indexer, TLC

CONSTANTS old, new, factory, token, child

Rollout == old :> {factory} @@ new :> {factory, token}
Single == old :> {factory}

Quiet == [logs |-> {}, creates |-> {}]
Creates == [logs |-> {factory}, creates |-> {child}]
Uses == [logs |-> {child, token}, creates |-> {}]
Payloads == {Quiet, Creates, Uses}
=============================================================================
