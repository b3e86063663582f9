\* One run with every kind of file, any of which may fail to be written; two runs
\* of the loop; one run that does not publish.
SPECIFICATION Spec
CONSTANTS
    combined = combined
    clash = clash
    mix = mix
    blacklist = blacklist
    germany = germany
    None = None
    Summary = summary
    Stats = stats
    Combined = combined
    Setups <- AllSetups
    MinPublish = 2
    MaxBackoff = 2
    MaxConfigs = 2
    MaxRuns = 2
INVARIANT TypeOK
INVARIANT GreenMeansPublished
INVARIANT LocationsAreCurrent
INVARIANT ReportIsOfThisRun
 
CHECK_DEADLOCK FALSE
