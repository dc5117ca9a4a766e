SPECIFICATION MCSpec
CONSTANTS
  paperA = paperA
  paperB = paperB
  fileA = fileA
  fileB = fileB
  Papers = {paperA, paperB}
  Files = {fileA, fileB}
  Calls = {c1, c2}
  MaxMarks = 2
  MaxPerEntry = 2
  MaxVersion = 2
  Nil = Nil
  None = None
  New = New
  PageCount = 2
  KeepPages = 0
  Scales = {1, 2}
  Terms = {t}
  MaxLoads = 2
  Budget <- MarksOnly
CHECK_DEADLOCK FALSE
INVARIANT MarksSitOnTheirFile
