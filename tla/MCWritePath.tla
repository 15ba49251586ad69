---------------------------- MODULE MCWritePath -----------------------------
(* Instances of WritePath for TLC. *)
EXTENDS WritePath

Put(k, micro)     == [op |-> "write", key |-> k, ts |-> micro * TSB_UTIL, internal |-> FALSE, long |-> FALSE]
Del(k, micro)     == [Put(k, micro) EXCEPT !.ts = @ + TSB_DELETION, !.internal = TRUE]
Remove(k, micro)  == [Put(k, micro) EXCEPT !.ts = @ + TSB_LOCAL_REMOVAL, !.internal = TRUE]
Rewrite(k, micro) == [Put(k, micro) EXCEPT !.ts = @ + TSB_COMPACTION_REWRITE, !.internal = TRUE]
TooLong(k, micro) == [Put(k, micro) EXCEPT !.long = TRUE]

\* The keys a and b are served by different workers where there are two.
ByName == [k \in Keys |-> IF k = "b" THEN NumWorkers ELSE 1]

OnePut  == {Put(k, 1) : k \in Keys}
TwoPuts == {Put(k, t) : k \in Keys, t \in 1..2}
Deleting == {Put("a", 1), Del("a", 1), Del("b", 1)}
Rising  == {Put("a", t) : t \in 1..3}
Replacing == {Put("a", 1), Del("a", 1), Rewrite("a", 1), Put("b", 1)}
Removing  == {Put("a", 1), Remove("a", 1), Rewrite("a", 1), Put("b", 1), TooLong("b", 1)}

\* All keys are served by one worker and are written once each, in order.
FirstWorker == [k \in Keys |-> 1]
InOrder == \A w \in Workers : req[w].op = "write" => req[w].key = writes
=============================================================================
