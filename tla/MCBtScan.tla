------------------------------ MODULE MCBtScan ------------------------------
(* Small instances of BtScan.                                              *)
EXTENDS BtScan
=============================================================================
