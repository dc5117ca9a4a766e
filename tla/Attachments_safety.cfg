SPECIFICATION Spec
CONSTANTS
  ann = ann
  private = private
  public = public
  r1 = r1
  r2 = r2
  Replicas = {r1, r2}
  Uploads = {u1, u2}
  Downloads = {d1}
  Readers = {ann}
  Papers = {private}
  PrivatePapers = {private}
  Owner <- OwnerMC
  Sizes = {1}
  Quota = 5
  Batch = 1
  NoUpload = NoUpload
SYMMETRY UploadSymmetry
CHECK_DEADLOCK FALSE
INVARIANT ServedHasObject
PROPERTIES NeverForgotten ServedVersionAdvances KeepsTheShelf
