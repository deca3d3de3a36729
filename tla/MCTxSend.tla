------------------------------ MODULE MCTxSend ------------------------------
(***************************************************************************)
(* A small instance of TxSend for TLC.                                     *)
(***************************************************************************)
EXTENDS TxSend

\* A payload that a replacement can outbid, and one that it cannot.
MCForeignFees == {[max |-> 4, tip |-> 1], [max |-> 9, tip |-> 3]}
=============================================================================
