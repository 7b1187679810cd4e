CONSTANTS
  r1 = r1
  r2 = r2
  r3 = r3
  Health = Health
  Backup = Backup
  GC = GC
  Queue = Queue
  Request = {r1, r2, r3}
  Kinds <- FewKinds
  MaxConcurrent = 1
  MaxBacklog = 1
  MaxSignals = 3
  None = None
  Malformed = Malformed
  StructTag <- StructTags
  StorageRequest <- StorageRequests
  Config <- Configs
  ContentType = {text, word}
  SlashedType = {text}
  Tag = {tag}
  MaxTime = 1
  MaxContents = 2
  MaxNumber = 3
SPECIFICATION Spec
INVARIANTS TypeOK SlotsConserved QuietClose StopWaitsForBackups AcceptedIsFlushed EmergencyOnlyOnPurpose PathsAgree PagesCoverListing
PROPERTIES SignalEndsProcess EveryRequestEnds
