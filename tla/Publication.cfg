\* Channels, text and registry.
SPECIFICATION Spec
CONSTANTS
  Deployments <- MCDeployments
  Worker <- MCWorker
  Width = 6
  Label = 2
  Words <- MCWords
  MaxWords = 3
  Notams <- MCNotams
  Rows <- MCRows
  Soon = 1
  MaxNow = 4
INVARIANTS TypeOK AcknowledgedIsEarned SentIsInReach TextIsKept
 
CHECK_DEADLOCK FALSE
