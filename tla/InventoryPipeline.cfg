CONSTANTS
    Agents = {a1}
    Contents = {vulnerable, patched}
    None = None
    Handlers = {h1, h2}
    MaxItems = 1
    Ascending <- InOrder
SPECIFICATION FairPipelineSpec
INVARIANTS
    PipelineInv
    OneImportPerCycle
    ImportsAreExact
PROPERTIES
    AckedScanWasTried
    CycleConverges
    ScanIsAnswered
