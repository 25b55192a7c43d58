SPECIFICATION FairSpec
CONSTANTS
  Node <- NavigateNodes
  Root <- NavigateRoot
  Children <- NavigateChildren
  Kind <- NavigateKind
  number_of_retries_ <- NavigateRetries
INVARIANTS
  NothingRunsAlone
  PipelineInOrder
  TickedFresh
PROPERTIES
  RetriesExact
  RobinTriesAll
  TickReturns
