------------------------ MODULE MCDraftConfirmation ------------------------
(* Two drafts of one requester, a second person, and two processes while a *)
(* restart overlaps.                                                       *)
EXTENDS DraftConfirmation

MCRequester == [d \in Drafts |-> "ann"]
=============================================================================
