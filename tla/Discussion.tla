---------------------------- MODULE Discussion ----------------------------
(***************************************************************************)
(* Discussions (backend/src/discussion): threads on the blocks of a page,  *)
(* replies, their acceptance, removal, and the notifications of replies.   *)
(*                                                                         *)
(* No route opens a transaction: each is a list of statements, and those   *)
(* of different requests interleave, on one replica or several.  A request *)
(* is a record that says how far it has come and what it read so far; one  *)
(* that is refused, fails or dies with its replica ends where it stands,   *)
(* and what its earlier statements wrote stays.                            *)
(***************************************************************************)
EXTENDS Naturals, FiniteSets

CONSTANTS
  Users, Moderators,
  Subscribers,      \* users with notifyReplies on: it does not change during a run
  Markers,          \* the blocks a thread can hang on: a unique key gives each one marker
  Comments,         \* comment ids, handed out in order; how many bounds the posts
  Requests,         \* requests in flight at once
  PostsPerMinute,
  Nil

(* What never changes of a comment's row. *)
Post == [marker : Markers, parent : Comments \cup {Nil}, author : Users]

ASSUME UsersAssumption == Moderators \subseteq Users /\ Subscribers \subseteq Users
ASSUME IdsAssumption == Comments \subseteq Nat
ASSUME NilAssumption == Nil \notin Users \cup Markers \cup Comments \cup Post
ASSUME LimitAssumption == PostsPerMinute \in Nat \ {0} /\ IsFiniteSet(Requests)

VARIABLES
  post,          \* discussion_comment: what never changes of a row, Nil before
  text, deleted, \* its body ("" or not) and deletedAt
  accepted,      \* on a root: acceptedReplyId
  recent,        \* the comments of the last minute
  told,          \* notification: the replies each user was told of
  req

rows == <<post, text, deleted, accepted, recent>>
vars == <<rows, told, req>>

-----------------------------------------------------------------------------
Exists(c) == post[c] # Nil
Live(c) == Exists(c) /\ c \notin deleted
IsRoot(c) == Exists(c) /\ post[c].parent = Nil
Replies(r) == {c \in Comments : Exists(c) /\ post[c].parent = r}
PostsOf(u) == {c \in recent : post[c].author = u}

(* Mutant: the limit admits one more than it says. *)
CanPostOneMore(u) == Cardinality(PostsOf(u)) <= PostsPerMinute

(* assertCanPost counts removed comments too. *)
CanPost(u) == Cardinality(PostsOf(u)) < PostsPerMinute

Idle == [op |-> "idle", at |-> "idle", by |-> Nil, marker |-> Nil, on |-> Nil, to |-> Nil, tell |-> {}]
Ask(o, at, u, k, c, d, us) ==
  [op |-> o, at |-> at, by |-> u, marker |-> k, on |-> c, to |-> d, tell |-> us]
Free(q) == req[q] = Idle
At(q, o, at) == req[q].op = o /\ req[q].at = at
Goto(q, at) == req' = [req EXCEPT ![q].at = at]
End(q) == req' = [req EXCEPT ![q] = Idle]

(* INSERT INTO discussion_comment. *)
Insert(c, k, d, u) ==
  /\ ~Exists(c) /\ \A b \in Comments : b < c => Exists(b)
  /\ post' = [post EXCEPT ![c] = [marker |-> k, parent |-> d, author |-> u]]
  /\ text' = [text EXCEPT ![c] = "text"]
  /\ recent' = recent \cup {c}
  /\ UNCHANGED <<deleted, accepted, told>>

-----------------------------------------------------------------------------
Init ==
  /\ post = [c \in Comments |-> Nil]
  /\ text = [c \in Comments |-> ""]
  /\ deleted = {}
  /\ accepted = [c \in Comments |-> Nil]
  /\ recent = {}
  /\ told = [u \in Users |-> {}]
  /\ req = [q \in Requests |-> Idle]

(* Opening a thread: the limit, then the root.  The block's marker, inserted
   between them unless it is there, is never removed again. *)
StartThread(q, u, k) ==
  /\ Free(q) /\ CanPost(u)
  /\ req' = [req EXCEPT ![q] = Ask("thread", "insert", u, k, Nil, Nil, {})]
  /\ UNCHANGED <<rows, told>>

InsertRoot(q, c) ==
  /\ At(q, "thread", "insert")
  /\ Insert(c, req[q].marker, Nil, req[q].by)
  /\ End(q)

(* Replying: the comment answered, its root when it is a reply itself, the
   limit, the new reply, and last the notifications. *)
ReadParent(q, u, k, c) ==
  /\ Free(q) /\ Live(c) /\ post[c].marker = k
  /\ req' = [req EXCEPT ![q] =
       IF IsRoot(c) THEN Ask("reply", "count", u, k, Nil, c, {post[c].author})
       ELSE Ask("reply", "root", u, k, Nil, post[c].parent, {post[c].author})]
  /\ UNCHANGED <<rows, told>>

ReadRoot(q) ==
  LET r == req[q].to IN
  /\ At(q, "reply", "root") /\ Live(r) /\ post[r].marker = req[q].marker
  /\ req' = [req EXCEPT ![q] = Ask("reply", "count", req[q].by, req[q].marker, Nil, r,
                                   req[q].tell \cup {post[r].author})]
  /\ UNCHANGED <<rows, told>>

CountPosts(q) ==
  /\ At(q, "reply", "count") /\ CanPost(req[q].by)
  /\ Goto(q, "insert")
  /\ UNCHANGED <<rows, told>>

InsertReply(q, c) ==
  /\ At(q, "reply", "insert")
  /\ Insert(c, req[q].marker, req[q].to, req[q].by)
  /\ req' = [req EXCEPT ![q] = Ask("reply", "notify", req[q].by, Nil, c, Nil, req[q].tell)]

(* Mutant: whoever answers a comment of their own is told. *)
RecipientsAndWriter(us, u) == us \cap Subscribers

Recipients(us, u) == (us \ {u}) \cap Subscribers

NotifyReply(q) ==
  /\ At(q, "reply", "notify")
  /\ told' = [u \in Users |->
       IF u \in Recipients(req[q].tell, req[q].by) THEN told[u] \cup {req[q].on} ELSE told[u]]
  /\ End(q)
  /\ UNCHANGED <<rows>>

(* Editing: the author's own live comment, then the new text by its id. *)
ReadToEdit(q, u, c) ==
  /\ Free(q) /\ Live(c) /\ post[c].author = u
  /\ req' = [req EXCEPT ![q] = Ask("edit", "write", Nil, Nil, c, Nil, {})]
  /\ UNCHANGED <<rows, told>>

Edit(q) ==
  /\ At(q, "edit", "write")
  /\ text' = [text EXCEPT ![req[q].on] = "text"]
  /\ End(q)
  /\ UNCHANGED <<post, deleted, accepted, recent, told>>

(* Removing: blank and mark, then, of a reply, give up the acceptance. *)
MayRemove(u, c) == post[c].author = u \/ u \in Moderators

ReadToRemove(q, u, c) ==
  /\ Free(q) /\ Live(c) /\ MayRemove(u, c)
  /\ req' = [req EXCEPT ![q] = Ask("remove", "blank", Nil, Nil, c, Nil, {})]
  /\ UNCHANGED <<rows, told>>

Blank(q) ==
  LET c == req[q].on IN
  /\ At(q, "remove", "blank")
  /\ text' = [text EXCEPT ![c] = ""]
  /\ deleted' = deleted \cup {c}
  /\ IF IsRoot(c) THEN End(q) ELSE Goto(q, "clear")
  /\ UNCHANGED <<post, accepted, recent, told>>

(* Mutant: whatever is accepted goes with the reply. *)
ClearAny(q) ==
  /\ At(q, "remove", "clear")
  /\ accepted' = [accepted EXCEPT ![post[req[q].on].parent] = Nil]
  /\ End(q)
  /\ UNCHANGED <<post, text, deleted, recent, told>>

ClearAcceptance(q) ==
  LET c == req[q].on
      r == post[c].parent IN
  /\ At(q, "remove", "clear")
  /\ accepted' = [accepted EXCEPT ![r] = IF @ = c THEN Nil ELSE @]
  /\ End(q)
  /\ UNCHANGED <<post, text, deleted, recent, told>>

(* Accepting a reply or taking that back: the owner's live root first. *)
OwnsRoot(u, r) == Live(r) /\ IsRoot(r) /\ post[r].author = u

StartAccept(q, u, r, c) ==
  /\ Free(q) /\ OwnsRoot(u, r) /\ Exists(c)
  /\ req' = [req EXCEPT ![q] = Ask("accept", "reply", u, Nil, r, c, {})]
  /\ UNCHANGED <<rows, told>>

StartUnaccept(q, u, r) ==
  /\ Free(q) /\ OwnsRoot(u, r)
  /\ req' = [req EXCEPT ![q] = Ask("unaccept", "write", u, Nil, r, Nil, {})]
  /\ UNCHANGED <<rows, told>>

CanAccept(r, c) == Live(c) /\ post[c].parent = r

FindReply(q) ==
  /\ At(q, "accept", "reply") /\ CanAccept(req[q].on, req[q].to)
  /\ Goto(q, "write")
  /\ UNCHANGED <<rows, told>>

Resolve(q) ==
  /\ At(q, "accept", "write") \/ At(q, "unaccept", "write")
  /\ accepted' = [accepted EXCEPT ![req[q].on] = req[q].to]
  /\ End(q)
  /\ UNCHANGED <<post, text, deleted, recent, told>>

(* A refusal, an error, or the crash of the replica serving the request. *)
Refuse(q) ==
  /\ ~Free(q)
  /\ End(q)
  /\ UNCHANGED <<rows, told>>

(* The oldest of the last minute's comments turns a minute old. *)
Age(c) ==
  /\ c \in recent /\ \A b \in recent : c <= b
  /\ recent' = recent \ {c}
  /\ UNCHANGED <<post, text, deleted, accepted, told, req>>

StepOf(q) ==
  \/ \E u \in Users, k \in Markers : StartThread(q, u, k)
  \/ \E c \in Comments : InsertRoot(q, c) \/ InsertReply(q, c)
  \/ \E u \in Users, k \in Markers, c \in Comments : ReadParent(q, u, k, c)
  \/ ReadRoot(q) \/ CountPosts(q) \/ NotifyReply(q)
  \/ \E u \in Users, c \in Comments : ReadToEdit(q, u, c) \/ ReadToRemove(q, u, c)
  \/ Edit(q) \/ Blank(q) \/ ClearAcceptance(q)
  \/ \E u \in Users, r, c \in Comments : StartAccept(q, u, r, c)
  \/ \E u \in Users, r \in Comments : StartUnaccept(q, u, r)
  \/ FindReply(q) \/ Resolve(q)
  \/ Refuse(q)

Next ==
  \/ \E q \in Requests : StepOf(q)
  \/ \E c \in Comments : Age(c)

Spec == Init /\ [][Next]_vars

-----------------------------------------------------------------------------
(* Two views of a thread: the page asks whether the answer is among the    *)
(* replies it shows, summary and feed count the rows that name one.        *)
Shown(r) == Replies(r) \ deleted
Answer(r) == IF r \in deleted THEN Nil ELSE accepted[r]
Resolved(r) == Answer(r) # Nil /\ Answer(r) \in Shown(r)
CountedResolved(r) == IsRoot(r) /\ r \notin deleted /\ accepted[r] # Nil

-----------------------------------------------------------------------------
Request == [op : {"idle", "thread", "reply", "edit", "remove", "accept", "unaccept"},
            at : {"idle", "root", "count", "insert", "notify", "write", "blank", "clear", "reply"},
            by : Users \cup {Nil}, marker : Markers \cup {Nil},
            on : Comments \cup {Nil}, to : Comments \cup {Nil}, tell : SUBSET Users]

(* Every table and every request has its shape. *)
TypeOK ==
  /\ post \in [Comments -> Post \cup {Nil}]
  /\ text \in [Comments -> {"", "text"}]
  /\ deleted \subseteq Comments
  /\ accepted \in [Comments -> Comments \cup {Nil}]
  /\ recent \subseteq Comments
  /\ told \in [Users -> SUBSET Comments]
  /\ req \in [Requests -> Request]

(* Replies live one level deep: every reply hangs off a root of its own
   marker, however deep the comment was that it answered. *)
OneLevelDeep ==
  \A c \in Comments : Exists(c) /\ ~IsRoot(c) =>
    LET r == post[c].parent IN IsRoot(r) /\ post[r].marker = post[c].marker

(* The accepted reply of a comment is a reply of that very thread. *)
AcceptedIsInThread ==
  \A r \in Comments : accepted[r] # Nil =>
    IsRoot(r) /\ Exists(accepted[r]) /\ post[accepted[r]].parent = r

(* "An accepted reply that goes away takes the thread's resolution with it" *)
(* (discussion.service.ts:478): what the counts call resolved, the page     *)
(* shows resolved, but while the removal of its answer is under way.        *)
CountsAgreeWithThreads ==
  \A r \in Comments : CountedResolved(r) /\ ~Resolved(r) =>
    \E q \in Requests : At(q, "remove", "clear") /\ req[q].on = accepted[r]

(* Who is told of a reply wrote in its thread before it, wants to be told
   and did not write the reply. *)
ToldWhoWrote ==
  \A u \in Users, c \in Comments : c \in told[u] =>
    /\ Exists(c) /\ ~IsRoot(c) /\ post[c].author # u /\ u \in Subscribers
    /\ \E b \in Replies(post[c].parent) \cup {post[c].parent} : b < c /\ post[b].author = u

(* The limit is read before the insert, so requests in flight can pass it
   together; a user is never further over it than they are many. *)
FloodIsBounded ==
  \A u \in Users : Cardinality(PostsOf(u)) < PostsPerMinute + Cardinality(Requests)

(* Only the owner of a thread resolves it, and only the owner or the removal
   of the accepted reply takes that back: the removal of one reply leaves the
   acceptance of another alone, whenever it was accepted. *)
OwnerResolves ==
  [][\A r \in Comments : accepted'[r] # accepted[r] =>
       \/ \E q \in Requests :
            /\ req[q].op \in {"accept", "unaccept"} /\ req[q].on = r
            /\ req[q].by = post[r].author
       \/ accepted'[r] = Nil /\ accepted[r] \in deleted]_vars
=============================================================================
