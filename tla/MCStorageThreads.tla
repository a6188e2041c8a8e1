-------------------------- MODULE MCStorageThreads --------------------------
(* The instance of StorageThreads for TLC: three threads, one connection. *)
EXTENDS StorageThreads
=============================================================================
