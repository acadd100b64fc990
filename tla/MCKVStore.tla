----------------------------- MODULE MCKVStore -----------------------------
(* Two devices, one key.                                                    *)
EXTENDS KVStore
=============================================================================
