--------------------------- MODULE MCWalRecovery ---------------------------
(* WalRecovery for TLC: an empty payload and one whose cells can be misread  *)
(* as the header of a frame.                                                *)
EXTENDS WalRecovery

MCPayloads == {<<>>, <<1, 3>>}
=============================================================================
