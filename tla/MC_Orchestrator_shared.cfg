SPECIFICATION FairSpec
CONSTANTS
  home = home  twin = twin  other = other  nowhere = nowhere  slug = slug  slug2 = slug2
  Workers = {1, 2}
  Threads = {anon}
  Addresses = {home, twin, other, nowhere}
  Covered = {home, twin, other}
  Flagged = {}
  Slugs = {slug, slug2}
  Slug <- OneSlug
  NumFacts = 1
  FlaggedKinds = {2}
  Scores = {50, 100}
  MaxAttempts = 2
  Queries <- Asked
  NoAddress = noAddress
INVARIANTS
  TypeOK
  TraceMatchesAnswer
  AnswerPermitted
  ApprovedProceeds
  AnswerOwnAddress
  FailsOnlyWhenCrowded
PROPERTY RunEnds
