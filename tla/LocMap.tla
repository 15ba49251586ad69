------------------------------- MODULE LocMap -------------------------------
(***************************************************************************)
(* Timestamp bits and the location map.                                    *)
(*                                                                         *)
(* A timestampbits value is timestampmicro * 2^8 with utility bits in the  *)
(* low byte (src/package.go).  The location map (package locmap, external) *)
(* maps a key to the timestampbits, location block id and offset of its    *)
(* current value; id 0 means there is no such key.  What is modelled is    *)
(* what this repository relies on: Set keeps the newest timestamp, is      *)
(* allowed to replace an equal one only with evenIfSame, removes the key   *)
(* when it is given block id 0, and returns the previous timestampbits.    *)
(* The length of a value plays no part in any decision and is left out.    *)
(***************************************************************************)
EXTENDS Integers

TSB_UTIL               == 256   \* 1 << _TSB_UTIL_BITS
TSB_DELETION           == 128
TSB_LOCAL_REMOVAL      == 2
TSB_COMPACTION_REWRITE == 1

\* The bit is set in the timestampbits (bit is a power of two).
HasBit(ts, bit) == (ts \div bit) % 2 = 1

\* timestampbits & ^_TSB_COMPACTION_REWRITE
NoRewrite(ts) == ts - (ts % 2)

Location(Keys, IDs) == [Keys -> [ts : Nat, id : IDs, off : Nat]]

Missing == [ts |-> 0, id |-> 0, off |-> 0]

\* Faulty variants of Wins: an equal timestamp never replaces; evenIfSame
\* replaces whatever the timestamps are.
WinsOnlyNewer(cur, ts, evenIfSame) == cur.ts < ts
WinsAlways(cur, ts, evenIfSame)    == evenIfSame \/ cur.ts < ts

\* Does a Set with ts replace the location cur?
Wins(cur, ts, evenIfSame) == cur.ts < ts \/ (evenIfSame /\ cur.ts = ts)

\* The map after Set(key, ts, id, off, evenIfSame); the call returns lm[key].ts.
Set(lm, key, ts, id, off, evenIfSame) ==
  IF ~Wins(lm[key], ts, evenIfSame)
  THEN lm
  ELSE [lm EXCEPT ![key] = IF id = 0 THEN Missing
                           ELSE [ts |-> ts, id |-> id, off |-> off]]
=============================================================================
