------------------------- MODULE MCWorkflowLifecycle -------------------------
(* Instances of WorkflowLifecycle for TLC. *)
EXTENDS WorkflowLifecycle

AllFaults      == FaultKinds
NoLostReply    == FaultKinds \ {"lost_reply"}
LostReply      == {"lost_reply"}
ActivityFaults == {"activity"}

BothTypes   == WorkflowTypes
ExtractOnly == {"extract_metadata"}
FundingOnly == {"check_funding_relevance"}

=============================================================================
