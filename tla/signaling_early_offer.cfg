CONSTANTS
    Offerers = {o1}
    Answerers = {a1}
    Crashers = {}
    MaxServerStops = 0
SPECIFICATION FairSpec
PROPERTY RoommatesMeet
CHECK_DEADLOCK FALSE
