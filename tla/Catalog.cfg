SPECIFICATION WorkSpec
CONSTANTS
  NumKeys = 3
  Catalogs <- MCCatalogs
  MaxIngests = 2
  MaxEdits = 2
  FreshFor = 1
  ExpireAfter = 2
  MaxDepth = 2
  MaxPlaces = 3
  MaxRecords = 3
  Requests <- MCRequests
  KindOf <- MCKind
  AuthorityOf <- MCAuthority
  RelevanceOf <- MCRelevance
  SourcesFor <- MCSources
  Null = Null
  Briefs <- MCBriefs
  Replies <- MCReplies
  MaxRepairAttempts = 1
  MaxWarnings = 3
INVARIANTS CatalogIsSound ApprovalIsForItsText EvidenceIsSound DraftsAreSound
CHECK_DEADLOCK FALSE
