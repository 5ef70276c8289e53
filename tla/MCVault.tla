------------------------------- MODULE MCVault -------------------------------
(* Instances of Vault for TLC. *)
EXTENDS Vault, TLC

MCBothStores == BOOLEAN
MCMemoryStore == {TRUE}
(* Over the database one of two that overlap signs or deletes. *)
MCOverlap ==
  \/ live
  \/ \E c \in Calls : call[c] = Idle
  \/ \E c \in Calls : call[c].pc \in {"sign", "signOwn", "deleteContent", "deleteRow"}
=============================================================================
