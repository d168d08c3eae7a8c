CONSTANT Child <- MCChild
SPECIFICATION S3Spec
INVARIANTS
  WorkersProtected
  WaitHasChild
PROPERTY
  HangsOnlyOnStopped
