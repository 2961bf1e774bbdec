CONSTANTS
    Frames <- MCFrames
    FlowIndices = {0, 1}
    FlowIndex <- MCFlowIndex
    MaxCount = 3
    Depth = 2
    Width = 4
    MaxFrames = 5
SPECIFICATION Spec
INVARIANTS TypeOK FlowsNeverMix
PROPERTIES AnswersInOrder FlagsLargeStarts EveryFrameAnswered
