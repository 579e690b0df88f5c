SPECIFICATION FairSpec
CONSTANTS
    Conns = {c1}
    MaxWindow = 2
    IdleClose = 1
    Leads = {0, 1}
    Lengths = {1, 3}
    Skews <- OneSkew
    PcAhead = 0
    Slack = 1
    MaxClock = 2
    MaxGrants = 1
    MaxRequests = 1
    MaxCrashes = 1

    
    
    
PROPERTIES
    
    PanelForgets
    RequestSettles
