CONSTANTS
  Session = {"default"}
  Compiled = {"default"}
  Timed = {"default"}
  Outfile <- MCOutfile
  Call <- MCCall
  Raising <- MCRaising
  Number <- MCNumber
  OrigRax <- MCOrigRax
  Named <- MCNamed
  Whitelist <- MCWhitelist
  Linux = TRUE
  Fault = {}
SPECIFICATION FairSpec
PROPERTIES TimeLimitEnforced
CHECK_DEADLOCK FALSE
