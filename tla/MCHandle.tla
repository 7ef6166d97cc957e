------------------------------ MODULE MCHandle ------------------------------
(***************************************************************************)
(* The instance of Handle that TLC checks.  A setting has one of its five  *)
(* fields TRUE, or all: for any two fields, each combination of their      *)
(* values occurs.                                                          *)
(***************************************************************************)
EXTENDS Handle, FiniteSets

OneOrAll ==
  {s \in SettingType : Cardinality({field \in DOMAIN s : s[field]}) \in {1, 5}}
=============================================================================
