--------------------------- MODULE ValueStoreAPI ----------------------------
(***************************************************************************)
(* What the write path of a value store promises its callers: each worker   *)
(* serves one request at a time, a request is applied in a single step or   *)
(* refused, and the timestamp that Lookup reports for a key is the newest   *)
(* one applied.  Memory blocks, files and TOCs do not appear.               *)
(***************************************************************************)
EXTENDS LocMap

CONSTANTS Keys, Workers, WorkerOf, Requests, NoReq

VARIABLES
  current,   \* key -> the timestampbits that Lookup reports, 0 if none
  serving    \* worker -> the request it is serving, or NoReq

Init ==
  /\ current = [k \in Keys |-> 0]
  /\ serving = [w \in Workers |-> NoReq]

Receive(w, r) ==
  /\ serving[w] = NoReq
  /\ WorkerOf[r.key] = w
  /\ serving' = [serving EXCEPT ![w] = r]
  /\ UNCHANGED current

\* The newest timestamp stands; the rewrite bit is never seen.
Apply(w) ==
  LET r == serving[w] IN
  /\ r # NoReq
  /\ ~r.long
  /\ current' = [current EXCEPT ![r.key] = IF NoRewrite(r.ts) > @ THEN NoRewrite(r.ts) ELSE @]
  /\ serving' = [serving EXCEPT ![w] = NoReq]

\* Internal requests are refused only for their length.
Refuse(w) ==
  /\ serving[w] # NoReq
  /\ serving[w].long \/ ~serving[w].internal
  /\ serving' = [serving EXCEPT ![w] = NoReq]
  /\ UNCHANGED current

Next == \E w \in Workers : \/ \E r \in Requests : Receive(w, r)
                           \/ Apply(w)
                           \/ Refuse(w)

Spec == Init /\ [][Next]_<<current, serving>>
=============================================================================
