--------------------------- MODULE MCReplication ----------------------------
(* Instances of Replication for TLC. *)
EXTENDS Replication

Put(k, micro) == [key |-> k, ts |-> micro * TSB_UTIL]
Del(k, micro) == [key |-> k, ts |-> micro * TSB_UTIL + TSB_DELETION]

\* a gives up the partition that it has alone, or with b.
Moved  == <<{"a"}, {"b"}>>
GiveUp == <<{"a", "b"}, {"b"}>>

\* a, to which clients write all the same, gets the partition that was b's.
GetBack == <<{"b"}, {"a"}>>

OnePut        == {Put(1, 2)}
OneDelete     == {Del(1, 2)}
PutAndDelete  == {Put(1, 2), Del(2, 2)}
PutsAndDelete == {Put(1, 1), Del(1, 1), Put(2, 2)}
=============================================================================
