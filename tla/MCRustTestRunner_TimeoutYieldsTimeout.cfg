CONSTANTS
  t1 = t1
  t2 = t2
  NoFilter = NoFilter
  TestNames <- MCTestNames
  MaxDepth = 2
  CwdDepth = 1
  StdoutChoices <- MCStdoutChoices
  StderrChoices <- MCStderrChoices

SPECIFICATION Spec

INVARIANT TimeoutYieldsTimeout
