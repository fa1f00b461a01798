SPECIFICATION FrontSpec
CONSTANTS
  Calls = {0, 1, 2, 3, 4, 5, 6, 7, 101, 102, 103}
  Bufs = {"b1", "b2", "b3", "b4", "b5", "b6"}
  Execs = {0, 1, 2, 3, 4, 5, 6}
  MaxItems = 2
  Splitters = {"split"}
  SplitKey = "k"
  Minutes = 2
  Quarter = 1
  Slots = 2
  Scale = 3
  First = 1
  Second = 1
  MaxNoise = 2
  MaxPerMinute = 4
  MaxLoops = 2
  Scenes <- TheScenes
INVARIANTS OwnOutput AnswerIsEval ReportComplete
 
CHECK_DEADLOCK FALSE
