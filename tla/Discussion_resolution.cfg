SPECIFICATION Spec
CONSTANTS
  Users = {ann, bob}
  Moderators = {ann, bob}
  Subscribers = {ann, bob}
  Markers = {m1, m2}
  Comments <- CommentIds
  Requests = {q1, q2}
  PostsPerMinute = 1
  Nil = Nil
SYMMETRY Alike
INVARIANT CountsAgreeWithThreads
