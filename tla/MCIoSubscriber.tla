--------------------------- MODULE MCIoSubscriber ---------------------------
(***************************************************************************)
(* Small instances of IoSubscriber.                                        *)
(***************************************************************************)
EXTENDS IoSubscriber

AllFacts == Kind
OnlyRequests == {"request"}

WithOrWithout == BOOLEAN
=============================================================================
