------------------------------ MODULE MCAudit -------------------------------
(* Instances of Audit for TLC. *)
EXTENDS Audit

TwoFiles == {"f1", "f2"}
OneFile  == {"f1"}
=============================================================================
