CONSTANTS
    j1 = j1
    j2 = j2
    d1 = d1
    p1 = p1
    s1 = s1
    q1 = q1
    n1 = n1
    n2 = n2
    k1 = k1
    k2 = k2
    g1 = g1
    g2 = g2
    None = None
    NoGrant = NoGrant
    Jobs <- MCJobs
    Users <- MCJobs
    Docs <- MCDocs
    Pages <- MCPages
    Sheets <- MCSheets
    Questions <- MCQuestions
    Namespaces <- MCNamespaces
    Callbacks <- MCCallbacks
    States <- MCStates
    Sentences <- MCSentences
    Contents <- MCContents
    Matrices <- MCMatrices
    PageWords <- MCPageWords
    ChunkSizes = {0, 170, 250}
    a = a
    b = b
    Names <- MCNames
    Batch = 1
    MayFail = TRUE
SPECIFICATION Spec
CONSTRAINT Instance
SYMMETRY Symmetry
INVARIANTS TypeOK SourcesAreCovered IndexedIsSearchable DeletedIsNotFound GrantsAreConsented
CHECK_DEADLOCK FALSE
