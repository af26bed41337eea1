------------------------------ MODULE Questions ------------------------------
(***************************************************************************)
(* The checks side by side: whatever is asked of one of them, the answer   *)
(* is a function of the document and the estate, and no earlier question   *)
(* leaves a trace in it.                                                   *)
(***************************************************************************)
EXTENDS HierFirewall, OrgPolicy, Deny, Perimeter, Escalation, Terraform

AskFirewall == AskEstate \/ AskRule \/ AskPair
AskHierarchyClosure == AskClosure \/ Round
AskHierFirewall == AskHierarchy \/ AskProposal
AskOrgPolicy == AskOrg \/ AskOrgDocument
AskDeny == AskDenyEstate \/ AskGrant \/ AskWake
AskTerraform == AskWorld \/ AskArtifact
AskRoles == AskEscalation \/ AskDenial

AskNext == \/ AskFirewall \/ AskHierarchyClosure \/ AskHierFirewall
           \/ AskOrgPolicy \/ AskDeny \/ AskPerimeter \/ AskRoles
           \/ AskTerraform
AskSpec == Unasked /\ [][AskNext]_asked
=============================================================================
