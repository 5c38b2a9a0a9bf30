\* renderRoute called up to five times, in every build, with games that take time
\* to tear down or never end.
SPECIFICATION FairSpec
CONSTANTS
  MaxRoutes = 5
INVARIANTS
  NoSurfaceIsForgotten
  RootShowsActive
  NobodyIsStranded

  
\* The page may come to rest.
CHECK_DEADLOCK FALSE
