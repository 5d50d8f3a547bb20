------------------------ MODULE MCMessagingLimiter ------------------------
(* The messages are named by model values; the calls are numbered. *)
EXTENDS MessagingLimiter, TLC
=============================================================================
