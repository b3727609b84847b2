\* The issue may be given by a URL of another repository than the tree's.
SPECIFICATION Spec
CONSTANTS
  here = here
  there = there
  nowhere = nowhere
  repo1 = repo1
  repo2 = repo2
  seven = seven
  someday = someday
  text = text
  None = None
  Empty = Empty
  Dirs = {here, there}
  Missing = {nowhere}
  Repos = {repo1, repo2}
  Numbers = {seven}
  Ids = {seven, someday}
  ProcessCwd = here
  CommandLines <- Lines
  Shells <- ShellEnvs
  DotEnvs <- Files
  Trees <- TreesOf
  Scripts <- ScriptNames
  Categories <- Checks
  RepoScripts <- ScriptsOf
  MaxEdits = 1
INVARIANTS
  PrClosesItsTicket
