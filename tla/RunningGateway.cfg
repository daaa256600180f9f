SPECIFICATION RunningSpec
CONSTANTS
  a1 = a1
  a2 = a2
  d0 = d0
  d1 = d1
  d2 = d2
  s1 = s1
  s2 = s2
  Admins <- MCAdmins
  Operators <- MCAdmins
  Docs <- MCDocs
  Boot <- MCBoot
  Places <- MCPlaces
  MaxPuts = 3
  MaxRestarts = 1
  MaxOps = 3
  Slots = {s1, s2}
  Weights <- MCWeights
  WeightsFile <- MCWeightsFile
  Keywords <- MCKeywords
  Registration <- MCRegistration
  Listing <- MCListing
  Sources <- MCSources
  ApiSlug <- MCApiSlug
  Canonical <- MCCanonical
  Seeded <- MCSeeded
  NamedVision = {"flash", "pro"}
  NamedTools = {"mini", "mid", "large", "flash", "pro", "coder", "chat", "deep", "deeper", "bare"}
  BuiltIn <- MCBuiltIn
  BootConfig <- MCBootConfig
  Asked <- MCAsked
  Replies <- MCReplies
  MaxChanges = 3
  JudgeWords <- MCJudgeWords
  Generated <- MCGenerated
INVARIANTS
  RunningSettingsWereStored
  QuietSettingsAgree
  QuietModelsAgree
  ModesAreOrdered
CHECK_DEADLOCK FALSE
