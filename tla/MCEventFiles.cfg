SPECIFICATION FairSpec
CONSTANTS
  e1 = e1
  e2 = e2
  Events <- MCEvents
INVARIANT TypeOK
PROPERTIES
  TabletsGetOneEvent
  TabletAnswered
