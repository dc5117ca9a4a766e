SPECIFICATION Spec
CONSTANTS
  u1 = u1
  u2 = u2
  u3 = u3
  b1 = b1
  b2 = b2
  course = course
  topic = topic
  Units = {u1, u2, u3}
  Lessons = {u1}
  Sessions = {b1, b2}
  Tracks = {course, topic}
  SessionsOf <- SessionsOfMC
  SessionUnits <- SessionUnitsMC
  DirectUnits <- DirectUnitsMC
  Active <- ActiveMC
  LastBuild = 2
  LastDay = 2
  Exam = exam
  Attempts = {a1}
  Grades <- GradesMC
  Requests = {q1, q2}
  Nil = Nil
SYMMETRY Alike
INVARIANTS EarnedIsRecorded CompletedHasXp PaidForServed
PROPERTY AwardsAreEarned
