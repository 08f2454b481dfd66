------------------------------ MODULE MCDataSync ------------------------------
(* Small instances of DataSync for TLC.                                     *)
EXTENDS DataSync

CONSTANTS h1, m5

TwoStreams == <<h1, m5>>
===============================================================================
