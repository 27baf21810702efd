-------------------------- MODULE MCReplyDelivery --------------------------
(***************************************************************************)
(* ReplyDelivery for TLC: constants are given in the configurations.       *)
(***************************************************************************)
EXTENDS ReplyDelivery
=============================================================================
