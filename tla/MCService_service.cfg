CONSTANTS
    n1 = n1
    k1 = k1
    k2 = k2
    CustomerKey = {k1, k2}
    Name = {n1}
    Capability <- AllCapabilities
    Ttl = 2
    PurgeBatch = 1
    PageSize = 1
    Plan <- Plans
    Trial <- Trials
    Address = {1, 2, 3}
    Spelling = {"lower", "upper"}
    PartnerGrant <- FileGrant
    GroupCount = 1
    ComputerCount = 3
    MaxMembers = 2

SPECIFICATION Spec
INVARIANTS NothingLost GrantsAreExact MembersAgree ReadsAreWhatWasSent ReadersSeeWhatTheyMay ProgressEndsWithTheBody ResumeFindsTheNewest NothingOutOfReach RulesAreGranted ChecksAgree CopyIsWhole
CHECK_DEADLOCK FALSE
