SPECIFICATION Spec
CONSTANTS
    EscoVersions = {"1.2.1"}
    OnetVersions = {"31.0"}
    EscoRows <- MCEscoRows
    Broader <- MCBroader
    Related <- MCRelated
    OverrideFiles <- MCOverrideFiles
    OnetFile <- MCOnetFile
    Order <- MCOrder
    Acronym <- MCAcronym
    Ambiguous = {}
    Models = {"gemini"}
    MaxBuilds = 3
    Similarity <- MCSimilarity
    Cosine <- MCCosine
    Rank <- MCRank
    LabelRank <- MCLabelRank
    Depths = {1, 2}
    Limits = {3, 150}
    Caps = {1, 25}
CHECK_DEADLOCK FALSE
INVARIANTS
    ContestedOnlyByEsco
    LinkersAgree
    NeighbourhoodIsExact
PROPERTIES
    FoundedIsNew
    MappingsAreFinal
