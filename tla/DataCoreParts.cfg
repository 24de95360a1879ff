SPECIFICATION Spec
CONSTANTS
    Savers = {"s1"}
    Lookups = {"l1", "l2"}
    MaxSaves = 2
    FeatureTTL = 2
    FetchLatency = 1
    MaxClock = 6
    Tickers = {"t1"}
    Advances = {1, 3}
    ScriptTicks = {2, 3}
    MaxTick = 5
    MaxBreaks = 2
    ResetsBreak = FALSE
    OverlapsAllowed = FALSE
    SopWorkers = {"w1"}
    SopDrafts = {"d1", "d2"}
    NoDraft = "none"
    MaxEdits = 7
    Signers = {"u1", "u2", "adm"}
    Admins = {"adm"}
    Domains = {"sales", "plant"}
    OwnerOf <- MCOwnerOf
    Nobody = "nobody"
    MaxSignoffs = 4
    Slices = {"s1", "s2"}
    Generations = {"g1", "g2"}
    FreqLimitDays = 2
    MaxValues = 2
    MaxDays = 2
    MetaLoopDays = 1
    CopiesRace = FALSE
    Jobs = {"j1", "j2"}
    Repairs = {"p1"}
    Rows <- MCRows
    KeyOf <- MCKeyOf
    EditKeys = {"x"}
    IdOf <- MCIdOf
    NoKey = "nokey"
    MaxQuarantined = 4
    Editors = {"e1", "e2"}
    RuleVersions = {"v1", "v2", "v3"}
    Segments = 2
    MaxExtractions = 2
    MaxCalls = 4
    Reviewers = {"v1", "v2"}
    LastDay = 4
    Rolling = 2
    LateTolerance = 2
    Batches <- MCBatches
    MaxBatches = 3
    Writers = {"w1"}
    Aggregators = {"a1"}
    WritersRace = FALSE
    BuiltIn = {"fa", "fb", "fc"}
    Requires <- MCRequires
    BuiltInViews = {"fb"}
    NewViews = {"nv"}
    FeatureRoles = {"r1", "r2"}
    Templates <- MCTemplates
    TenantConfigs <- MCTenantConfigs
    RoleConfigs <- MCRoleConfigs
    LlmCalls = {"c1", "c2"}
    MaxRecords = 2
    ListTTL = 1
    KeyTTL = 2
    LlmLatency = 1
    LlmClockBound = 4
    IntentRows = {1, 2}
    PlanRows = {1, 2}
    PinnedVersions = {1}
    CatalogEditors = {"e1", "e2"}
    CollisionsAllowed = FALSE
    Datasets <- MCDatasets
    Crons = {"hourly", "daily"}
    NoCron = "never"
    MaxSyncs = 3
    Syncers = {"s1"}
    EditsDuringSync = FALSE
    NodeLists <- MCNodeLists
    EdgeSets <- MCEdgeSets
    Entities = {1, 2}
    Derived = {2}
    LinkEnds <- MCLinkEnds
    UpdatesDuringPublish = FALSE
    ObjectIds = {"e1", "e2", "p1", "l1"}
    Seeded = {"e1", "p1", "l1"}
    TypeOf <- MCTypeOf
    LinkTypes <- MCLinkTypes
    Links <- MCLinks
    BaseProps <- MCBaseProps
    BaseValues <- MCBaseValues
    DerivedProps = {"cap", "load"}
    SpecBatches <- MCSpecBatches
    Scale = 10
    MaxUpserts = 2
    RecomputeOverlaps = FALSE
    SliceObjects <- MCSliceObjects
    SliceTypeOf <- MCSliceTypeOf
    SliceLinkTypes <- MCSliceLinkTypes
    SliceLinks <- MCSliceLinks
    SliceSpecs <- MCSliceSpecs
    PolicySets <- MCPolicySets
    CallerRoles = {{"r1"}, {"r1", "r2"}, {"r2", "platform_admin"}}
    Baselines <- MCBaselines
    FieldValues <- MCFieldValues
    T <- MCT
    MaxChanges = 2
    StaleFixes = TRUE
    TypeKeys = {"ty"}
    LinkKeys = {"li"}
    Publications <- MCPublications
    SliceRefs <- MCSliceRefs
    DerivationRefs <- MCDerivationRefs
    Indexers = {"i1"}
    Stewards = {"w1"}
    MaxStores = 3
    MaxStewardships = 2
INVARIANTS
    PartTypeOK
    CachesFollow
    TicksOnce
    PublishedIsApproved
    HistoryExplains
    NothingLost
    RuleServed
    ReviewDecides
    FeaturesSound
    CatalogServes
    ImportsSound
    ComputedIsCurrent
    SliceSound
    LiveSound
PROPERTIES
    MonthCloses
CHECK_DEADLOCK FALSE
