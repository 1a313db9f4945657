SPECIFICATION Spec
CONSTANTS
    member = member
    lead = lead
    Members <- MCMembers
    Leads <- MCLeads
    Muters <- MCLeads
    Webs = {w1}
    MaxLives = 2
    MaxTroubles = 1
    Race = FALSE
INVARIANTS
    TypeOK
    OneMailPerEvent
    CancelledEventMailsNobody
    NobodyPassedOver
    PublishedToldOnce
CHECK_DEADLOCK FALSE
