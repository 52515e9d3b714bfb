SPECIFICATION FairSpec
CONSTANTS
  s1 = s1
  s2 = s2
  s3 = s3
  q1 = q1
  NoServer = NoServer
  NoSeeker = NoSeeker
  Servers <- ThreeServers
  Seekers <- OneSeeker
  Window = 3
INVARIANTS
  TypeOK
  StaysAdvertised
  AnswersForOwner
  RunningHasOwner
  ListedWasAdvertised
PROPERTIES
  MutexIsFreed
