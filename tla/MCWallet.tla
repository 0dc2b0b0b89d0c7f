----------------------------- MODULE MCWallet ------------------------------
(* Small instances of WalletTopup.                                          *)
EXTENDS WalletTopup

MCAmount == [p \in Payments |-> 1]

=============================================================================
