\* The registry of the code, environments that differ in each setting, twelve
\* contents of the secrets manager, one fetch that fails, two changes.
\* A serving replica has nothing to do when no change is left.
CONSTANTS
    Slug <- AllSlugs
    Base <- BaseRegistry
    Typo = "typo"
    Deployments <- Environments
    Stores <- Contents
    Origin <- Pages
    MaxFaults = 1
    MaxChanges = 2
SPECIFICATION FairSpec
INVARIANTS
    TypeOK
    ServesAllOrNothing
    HostsFindTheirBrand
    CredentialsStayInApex
    OneCookieName
    WiredIsUsable
    PairsAreWhole
PROPERTIES
    CompleteServes
CHECK_DEADLOCK FALSE
