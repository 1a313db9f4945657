------------------------------- MODULE MCMail -------------------------------
(***************************************************************************)
(* Mail with a member and an admin.                                        *)
(***************************************************************************)
EXTENDS Mail

CONSTANTS member, lead

MCMembers == {member, lead}
MCLeads == {lead}
=============================================================================
