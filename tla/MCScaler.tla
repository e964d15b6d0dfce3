------------------------------ MODULE MCScaler ------------------------------
(* The autoscaler for TLC, whose configurations have no negative numbers.    *)
EXTENDS Scaler

Sizes == {-1, 2}
=============================================================================
