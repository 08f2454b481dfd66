---------------------------- MODULE MCFundingStore ----------------------------
(* Small instances of FundingStore for TLC.                                 *)
EXTENDS FundingStore
===============================================================================
