\* Two sessions started in a workspace with one repository below it, the
\* second a worker; one task to name; three messages, commands or restarts.
SPECIFICATION SessionsSpec
CONSTANTS
  Session = {s1, s2}
  Named = {t1}
  ws = ws
  repo = repo
  Root = {ws, repo}
  Cwd = ws
  Null = Null
  MaxEvents = 3
  Located <- MCLocated
  Nested <- MCNested
  Worker = {s2}
  Foreign = {}
INVARIANT OwnTaskOnly
CHECK_DEADLOCK FALSE
