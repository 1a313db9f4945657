SPECIFICATION FairSpec
CONSTANTS
    member = member
    lead = lead
    Members <- MCMembers
    Leads <- MCLeads
    Muters <- MCLeads
    Webs = {w1}
    MaxLives = 1
    MaxTroubles = 1
    Race = FALSE
PROPERTIES
    EventsSettle
    EveryoneIsTold
CHECK_DEADLOCK FALSE
