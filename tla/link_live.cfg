SPECIFICATION FairSpec
CONSTANTS
  Silent = 2
  Buffer = 2
  MaxResets = 2
  MaxDrops = 1
PROPERTIES HuntUndisturbed Recovers ConfigRestored HuntResumes SilenceNoticed
