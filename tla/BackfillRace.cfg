SPECIFICATION MCRaceSpec
CONSTANTS
    EscoVersions = {"1.2.1"}
    OnetVersions = {"31.0"}
    EscoRows <- MCEscoRows
    Broader <- MCNoRelations
    Related <- MCNoRelations
    OverrideFiles <- MCOverrides
    OnetFile <- MCOnetFile
    Order <- MCOrder
    Acronym <- MCNoAcronym
    Ambiguous <- MCAmbiguous
    Models = {}
    MaxBuilds = 2
    Similarity <- MCSimilarity
    Cosine <- MCCosine
    Rank <- MCRank
    Histories <- MCHistories
    Inventions <- MCInventions
    Ranges <- MCRanges
    Prose <- MCProse
    Jobs = {"j1", "j2"}
    Users = {"a"}
    JobIds <- MCJobIds
    ProfileIds <- MCProfileIds
    JobSpans <- MCJobSpans
    ResumeSpans <- MCResumeSpans
    Payloads <- MCPayloads
    SeedSlugs <- MCSeedSlugs
    SeedLabels <- MCSeedLabels
    Siblings <- MCSiblings
    MaxMatches = 2
    UiEvents <- MCViewed
    MaxEvents = 0
    MaxOpen = 1
    MaxDrafts = 0
CHECK_DEADLOCK FALSE
PROPERTIES
    StoredSkillsKeepMeaning
