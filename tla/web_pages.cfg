CONSTANTS
    MaxCalls = 3
    Clusters = {"c1", "c2"}
    LocalCluster = "c2"
    Addons = {"a1", "a2"}
    Absent = Absent
    DetailWorlds <- MCDetailWorlds
    FleetWorlds <- MCFleetWorlds
    AddonWorlds <- MCAddonWorlds
    PageSizes = {1, 2}
    NameRank <- MCNameRank
    CatalogRank <- MCCatalogRank
    Names = {"n1", "n2"}
    Contents = {"x"}
    Tested = {"git"}
    Configs = {"x", "y"}
    Inputs = {"x", "y"}
    SavedLists <- MCSavedLists
    MaxDashboards = 2
    Versions = {"v1", "v2"}
    Users = {"u1", "u2"}
    MaxRequests = 2
    Paths = {"p1", "p2"}
    MaxQuestions = 3
    MaxSessions = 1
    NSteps = 2
    Todo <- MCToMigrate
SPECIFICATION Spec
INVARIANTS
    DetailCardsMatchRows
    CardsMatchRows
    DriftCountsAgree
    CatalogPagesComplete
    AddonCountsMatchRows
    SavedWasTested
    AISavedWasTested
    PageIsStored
    ShowsLastAsked
    CopiesAreStored
    ConversationInOrder
    SessionsBounded
    QuietPageIsRight
    StartsOneList
    MetricsAskedOnce
PROPERTIES
    OnlyDeleteRemoves
    SpinnersEnd
CHECK_DEADLOCK FALSE
