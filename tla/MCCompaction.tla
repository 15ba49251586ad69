---------------------------- MODULE MCCompaction ----------------------------
(* Instances of Compaction for TLC. *)
EXTENDS Compaction

Put(k, micro)    == [key |-> k, ts |-> micro * TSB_UTIL]
Del(k, micro)    == [key |-> k, ts |-> micro * TSB_UTIL + TSB_DELETION]
Remove(k, micro) == [key |-> k, ts |-> micro * TSB_UTIL + TSB_LOCAL_REMOVAL]

Mixed == {Put(1, 1), Put(1, 2), Remove(1, 2), Put(2, 1)}
PutAndDelete == {Put(1, 1), Put(2, 1), Del(1, 2)}
=============================================================================
