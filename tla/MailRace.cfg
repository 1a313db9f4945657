SPECIFICATION Spec
CONSTANTS
    member = member
    lead = lead
    Members <- MCMembers
    Leads <- MCLeads
    Muters <- MCLeads
    Webs = {w1}
    MaxLives = 1
    MaxTroubles = 0
    Race = TRUE
INVARIANT
    PublishedToldOnce
CHECK_DEADLOCK FALSE
