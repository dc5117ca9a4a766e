SPECIFICATION MCFairSpec
CONSTANTS
  ann = ann
  private = private
  public = public
  r1 = r1
  r2 = r2
  Replicas = {r1}
  Uploads = {u1, u2}
  Downloads = {}
  Readers = {ann}
  Papers = {private, public}
  PrivatePapers = {}
  Owner <- NobodyMC
  Sizes = {1, 2}
  Quota = 2
  Batch = 1
  NoUpload = NoUpload
CHECK_DEADLOCK FALSE
INVARIANT HeldWithinQuota
PROPERTIES UploadsSettle QueueDrains
