-------------------------- MODULE MC_EpochRecords --------------------------
(* Three Lua states on two threads (s1 and s2 share T1), two records,     *)
(* three hash table maps: enough for a record to be recycled by one of    *)
(* two racing recyclers, for a state to read a map while another grows    *)
(* the table, and for two states of one thread to overwrite each other's  *)
(* thread_serde_cache_record.                                              *)
EXTENDS EpochRecords, TLC

CONSTANTS s1, s2, s3, T1, T2, r1, r2

MCStates == {s1, s2, s3}
MCOSThreads == {T1, T2}
MCThreadOf == (s1 :> T1) @@ (s2 :> T1) @@ (s3 :> T2)
MCRecords == {r1, r2}
MCMaxMaps == 3
====
