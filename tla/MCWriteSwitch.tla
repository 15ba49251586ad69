--------------------------- MODULE MCWriteSwitch ----------------------------
(* Instances of WriteSwitch for TLC. *)
EXTENDS WriteSwitch

\* Each of the conditions is short, ample or in between.
ReadingsOf(C) == {r \in [short : SUBSET C, ample : SUBSET Conditions] :
                    r.short \cap r.ample = {} /\ Conditions \ C \subseteq r.ample}

MemoryOnly == ReadingsOf({4})
DiskOnly   == ReadingsOf({1})
=============================================================================
