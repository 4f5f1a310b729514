CONSTANTS
  Session = {"c"}
  Compiled = {"c"}
  Timed = {"c"}
  Outfile <- MCOutfile
  Call <- MCCall
  Raising <- MCRaising
  Number <- MCNumber
  OrigRax <- MCOrigRax
  Named <- MCNamed
  Whitelist <- MCWhitelist
  Linux = FALSE
  Fault = {"fork", "exec", "kill", "oom", "diff", "report"}
  Client = {k1, k2}
SPECIFICATION SystemSpec
PROPERTIES ImplementsService ClosedInTheEnd 
CHECK_DEADLOCK FALSE
