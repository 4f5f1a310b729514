CONSTANTS
  Session = {"c", "lua"}
  Compiled = {"c"}
  Timed = {"c", "lua"}
  Outfile <- MCOutfile
  Call <- MCCall
  Raising <- MCRaising
  Number <- MCNumber
  OrigRax <- MCOrigRax
  Named <- MCNamed
  Whitelist <- MCWhitelist
  Linux = TRUE
  Fault = {"exec", "kill", "oom", "report"}
SPECIFICATION FairSpec
INVARIANTS TypeOK VerdictSound Confined OrphanedOnlyByTimeout AcceptedCorrect ExitLosesNothing
PROPERTIES VerdictFinal VerdictReached
CHECK_DEADLOCK FALSE
