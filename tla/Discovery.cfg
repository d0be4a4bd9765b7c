CONSTANTS
    Owner = {1, 2}
    Party <- MCParty
    ClientParty <- MCClientParty
    Spelling = {"profile", "Profile"}
    Folds = {TRUE, FALSE}
    Nothing = Nothing
    MaxEvents = 1
SPECIFICATION DiscoverySpec
INVARIANTS AttachedRightly RefusedRightly TokenGuarded
PROPERTIES Attaches
