SPECIFICATION FairSpec
CONSTANTS
  Line = {VI, PI}
  SoftwareIp = {0}
  MaxResets = 1
INVARIANT Ip2FollowsMi InterruptsAreQueued
PROPERTY InterruptIsTaken
