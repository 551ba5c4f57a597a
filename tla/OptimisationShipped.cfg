\* The optimisation as it is shipped: get_closed does not take "since".
SPECIFICATION LoopSpec
CONSTANT
  HoursPerWeek = 2
PROPERTY RunsRecorded
CHECK_DEADLOCK FALSE
