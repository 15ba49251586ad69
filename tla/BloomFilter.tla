---------------------------- MODULE BloomFilter -----------------------------
(***************************************************************************)
(* The bloom filter of the keys and timestamps that a node has, which goes *)
(* out with a pull replication message: the receiver sends back what the   *)
(* filter may not have.  An entry stands for a key and its timestampbits.  *)
(*                                                                         *)
(* A filter keeps n and p, from which the number of bits m and the number  *)
(* of hashes k are computed again at the receiver, the salt of this pass,  *)
(* and the bits that are set.  What the hash is does not matter.           *)
(***************************************************************************)
EXTENDS Integers, Sequences

CONSTANTS Hashes(_, _),    \* k/4 of a filter, from n and p
          Hash(_, _, _, _) \* bits that round i sets: salt, i, entry, <<n, p>>

newKTBloomFilter(n, p, salt) == [n |-> n, p |-> p, salt |-> salt, bits |-> {}]

\* The bits of an entry: four for every round i.
BitsOf(f, x) == UNION {Hash(f.salt, i, x, <<f.n, f.p>>) : i \in 1..Hashes(f.n, f.p)}

add(f, x)     == [f EXCEPT !.bits = @ \cup BitsOf(f, x)]
mayHave(f, x) == BitsOf(f, x) \subseteq f.bits

reset(f, salt) == [f EXCEPT !.bits = {}, !.salt = salt]

\* Faulty variant: the salt is not sent.
toMsgUnsalted(f) == [n |-> f.n, p |-> f.p, salt |-> 0, body |-> f.bits]

toMsg(f) == [n |-> f.n, p |-> f.p, salt |-> f.salt, body |-> f.bits]

newKTBloomFilterFromMsg(msg) ==
  [n |-> msg.n, p |-> msg.p, salt |-> msg.salt, bits |-> msg.body]

\* outPullReplicationPass: the entries of a scan in a filter used before.
Filled(f, salt, entries) ==
  LET after[i \in 0..Len(entries)] ==
        IF i = 0 THEN reset(f, salt) ELSE add(after[i - 1], entries[i])
  IN after[Len(entries)]
=============================================================================
