--------------------------- MODULE MCOutboundSend ---------------------------
(***************************************************************************)
(* Instances of OutboundSend for TLC: one event of each kind.              *)
(***************************************************************************)
EXTENDS OutboundSend, TLC

CONSTANTS sms, email, stop

MCKind == [e \in Event |->
             CASE e = sms -> "sms" [] e = email -> "email" [] OTHER -> "opt_out"]

CallerSymmetry == Permutations(Caller)
=============================================================================
