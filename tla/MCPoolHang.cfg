SPECIFICATION FairSpec
CONSTANTS
  w1 = w1
  a = a
  Workers = {w1}
  Tasks = {a}
  NoTask = NoTask
PROPERTIES StopEndsAll
