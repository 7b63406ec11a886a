SPECIFICATION FairSpec
CONSTANTS
    Proc = {op, other}
    Operator = op
    Time = {t1, t2}
    NoTime = NoTime
    Absent = Absent
    Pin = t1
    RetryPin = t1
    Emits <- MCEmits
    Unparsed <- MCUnparsed
    Gated <- MCGated
    EditsAtRest = TRUE
    MaxEdits = 2
    MaxRuns = 1
    MaxKills = 1
INVARIANTS ValidIsCurrent
PROPERTIES CheckAcceptsOneBuild CompileRepairs
