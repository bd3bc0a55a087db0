SPECIFICATION FairSpec
CONSTANTS
  Waiters = {w1, w2}
  MaxJobs = 1
  MaxWrites = 2
INVARIANTS
  NotesAreTrue
  OutputOnceInOrder
PROPERTIES
  ImplementsLifecycle
  JobsSettle
