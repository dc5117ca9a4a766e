------------------------- MODULE DiscussionProofs -------------------------
(***************************************************************************)
(* Proofs about Discussion, for any number of users, comments and requests *)
(* in flight.                                                              *)
(***************************************************************************)
EXTENDS Discussion, FiniteSetTheorems, TLAPS

-----------------------------------------------------------------------------
(* What a request relies on between its statements.  It all speaks of rows *)
(* that exist, and of columns that never change once a row does, so no     *)
(* other request can take it away: that is what makes the routes right     *)
(* without a transaction.                                                  *)
WroteIn(u, r) == \E b \in Replies(r) \cup {r} : Exists(b) /\ post[b].author = u

Writing(x) == x.op \in {"thread", "reply"} => x.by \in Users
Starting(x) == x.op = "thread" => x.marker \in Markers /\ x.at = "insert"
Answering(x) == x.op = "reply" /\ x.at # "notify" =>
  /\ x.marker \in Markers /\ x.to \in Comments /\ IsRoot(x.to) /\ post[x.to].marker = x.marker
  /\ \A u \in x.tell : WroteIn(u, x.to)
Telling(x) == x.op = "reply" /\ x.at = "notify" =>
  /\ x.on \in Comments /\ Exists(x.on) /\ ~IsRoot(x.on) /\ post[x.on].author = x.by
  /\ \A u \in x.tell : \E b \in Replies(post[x.on].parent) \cup {post[x.on].parent} :
       b < x.on /\ post[b].author = u
Changing(x) == x.op \in {"edit", "remove"} => x.on \in Comments /\ Exists(x.on)
Clears(x) == x.op = "remove" /\ x.at = "clear" => ~IsRoot(x.on) /\ x.on \in deleted
Deciding(x) == x.op \in {"accept", "unaccept"} =>
  x.on \in Comments /\ IsRoot(x.on) /\ post[x.on].author = x.by
Naming(x) ==
  /\ x.op = "unaccept" => x.to = Nil
  /\ x.op = "accept" => x.to \in Comments /\ Exists(x.to)
  /\ x.op = "accept" /\ x.at = "write" => post[x.to].parent = x.on

Good(x) ==
  /\ Writing(x) /\ Starting(x) /\ Answering(x) /\ Telling(x)
  /\ Changing(x) /\ Clears(x) /\ Deciding(x) /\ Naming(x)

(* Rows are handed out in order, and only rows that exist are recent. *)
InOrder ==
  /\ \A c \in Comments : Exists(c) => \A b \in Comments : b < c => Exists(b)
  /\ \A c \in recent \cup deleted : Exists(c)

Inv ==
  /\ TypeOK /\ InOrder /\ OneLevelDeep /\ AcceptedIsInThread /\ ToldWhoWrote
  /\ \A q \in Requests : Good(req[q])

-----------------------------------------------------------------------------
LEMMA IdleIsGood == Idle \in Request /\ Good(Idle)
  BY DEF Idle, Request, Good, Writing, Starting, Answering, Telling, Changing, Clears, Deciding, Naming

LEMMA InitInv == Init => Inv
<1> SUFFICES ASSUME Init PROVE Inv
  OBVIOUS
<1>1. TypeOK
  BY IdleIsGood DEF Init, TypeOK
<1>2. InOrder /\ OneLevelDeep /\ AcceptedIsInThread /\ ToldWhoWrote
  BY DEF Init, InOrder, OneLevelDeep, AcceptedIsInThread, ToldWhoWrote, Exists
<1> QED BY <1>1, <1>2, IdleIsGood DEF Inv, Init

(* A step that writes no comment keeps what every other request relies on, *)
(* whatever it does to the other columns, if it removes nothing's mark.    *)
LEMMA GoodStays ==
  ASSUME NEW x, Good(x), UNCHANGED post, deleted \subseteq deleted'
  PROVE  Good(x)'
<1>1. Writing(x)' /\ Starting(x)' /\ Changing(x)' /\ Deciding(x)' /\ Naming(x)'
  BY DEF Good, Writing, Starting, Changing, Deciding, Naming, Exists, IsRoot
<1>2. Answering(x)' /\ Telling(x)' /\ Clears(x)'
  BY DEF Good, Answering, Telling, Clears, WroteIn, Replies, Exists, IsRoot
<1> QED BY <1>1, <1>2 DEF Good

LEMMA NextReq ==
  ASSUME Inv, NEW q \in Requests, NEW x \in Request, req' = [req EXCEPT ![q] = x],
         Good(x)', \A y : Good(y) => Good(y)'
  PROVE  req' \in [Requests -> Request] /\ \A p \in Requests : Good(req[p])'
<1>1. req \in [Requests -> Request]
  BY DEF Inv, TypeOK
<1>2. \A p \in Requests : req'[p] = IF p = q THEN x ELSE req[p]
  BY <1>1
<1>3. ASSUME NEW p \in Requests PROVE Good(req[p])'
  <2>1. CASE p = q
    BY <1>2, <2>1 DEF Good, Writing, Starting, Answering, Telling, Changing, Clears, Deciding, Naming
  <2>2. CASE p # q
    BY <1>2, <2>2 DEF Inv, Good, Writing, Starting, Answering, Telling, Changing, Clears, Deciding, Naming
  <2> QED BY <2>1, <2>2
<1> QED BY <1>1, <1>3

(* A step that only moves a request on. *)
LEMMA QuietStep ==
  ASSUME Inv, NEW q \in Requests, NEW x \in Request, Good(x),
         req' = [req EXCEPT ![q] = x], UNCHANGED <<rows, told>>
  PROVE  Inv'
<1> USE DEF rows
<1>1. \A y : Good(y) => Good(y)'
  BY GoodStays
<1>2. req' \in [Requests -> Request] /\ \A p \in Requests : Good(req[p])'
  BY <1>1, NextReq
<1>3. TypeOK'
  BY <1>2 DEF Inv, TypeOK
<1>4. InOrder' /\ OneLevelDeep' /\ AcceptedIsInThread' /\ ToldWhoWrote'
  BY DEF Inv, InOrder, OneLevelDeep, AcceptedIsInThread, ToldWhoWrote, Exists, IsRoot, Replies
<1> QED BY <1>2, <1>3, <1>4 DEF Inv

-----------------------------------------------------------------------------
(* Writing a comment: the new row is either a root or a reply to a root of *)
(* the same marker, and no row that exists changes.                        *)
LEMMA InsertStep ==
  ASSUME Inv, NEW c \in Comments, NEW k \in Markers, NEW d \in Comments \cup {Nil}, NEW u \in Users,
         Insert(c, k, d, u), d # Nil => IsRoot(d) /\ post[d].marker = k
  PROVE  /\ post' \in [Comments -> Post \cup {Nil}] /\ text' \in [Comments -> {"", "text"}]
         /\ recent' \subseteq Comments
         /\ Exists(c)' /\ post'[c].parent = d /\ post'[c].author = u
         /\ \A b \in Comments : Exists(b) => Exists(b)' /\ post'[b] = post[b]
         /\ \A b \in Comments : Exists(b) => b < c
         /\ \A b \in Comments : b # c => post'[b] = post[b]
<1> DEFINE new == [marker |-> k, parent |-> d, author |-> u]
<1>1. post \in [Comments -> Post \cup {Nil}] /\ text \in [Comments -> {"", "text"}] /\ recent \subseteq Comments
  BY DEF Inv, TypeOK
<1>2. new \in Post /\ new # Nil
  BY NilAssumption DEF Post
<1>3. post' = [post EXCEPT ![c] = new] /\ text' = [text EXCEPT ![c] = "text"] /\ recent' = recent \cup {c}
  BY DEF Insert
<1>4. post[c] = Nil
  BY DEF Insert, Exists
<1>5. post' \in [Comments -> Post \cup {Nil}] /\ post'[c] = new
  BY <1>1, <1>2, <1>3
<1>6. text' \in [Comments -> {"", "text"}] /\ recent' \subseteq Comments
  BY <1>1, <1>3
<1>7. \A b \in Comments : b # c => post'[b] = post[b]
  BY <1>1, <1>3
<1>8. \A b \in Comments : Exists(b) => b # c
  BY <1>4 DEF Exists
<1>9. ASSUME NEW b \in Comments, Exists(b) PROVE b < c
  <2>1. ~ (c < b)
    BY <1>4, <1>9 DEF Inv, InOrder, Exists
  <2> QED BY <2>1, <1>8, <1>9, IdsAssumption
<1>10. Exists(c)' /\ post'[c].parent = d /\ post'[c].author = u
  BY <1>2, <1>5 DEF Exists
<1>11. \A b \in Comments : Exists(b) => Exists(b)' /\ post'[b] = post[b]
  BY <1>7, <1>8 DEF Exists
<1> HIDE DEF new
<1> QED BY <1>5, <1>6, <1>7, <1>9, <1>10, <1>11

LEMMA InsertKeepsTables ==
  ASSUME Inv, NEW c \in Comments, NEW k \in Markers, NEW d \in Comments \cup {Nil}, NEW u \in Users,
         Insert(c, k, d, u), d # Nil => IsRoot(d) /\ post[d].marker = k
  PROVE  InOrder' /\ OneLevelDeep' /\ AcceptedIsInThread' /\ ToldWhoWrote'
<1>1. /\ Exists(c)' /\ post'[c].parent = d /\ post'[c].author = u
      /\ \A b \in Comments : Exists(b) => Exists(b)' /\ post'[b] = post[b]
      /\ \A b \in Comments : Exists(b) => b < c
      /\ \A b \in Comments : b # c => post'[b] = post[b]
  <2>0. post'[c] = [marker |-> k, parent |-> d, author |-> u]
    BY DEF Insert, Inv, TypeOK
  <2>4. post'[c].parent = d /\ post'[c].author = u
    BY <2>0
  <2>5. Exists(c)'
    BY InsertStep
  <2>1. \A b \in Comments : Exists(b) => Exists(b)' /\ post'[b] = post[b]
    BY InsertStep
  <2>2. \A b \in Comments : Exists(b) => b < c
    BY InsertStep
  <2>3. \A b \in Comments : b # c => post'[b] = post[b]
    BY InsertStep
  <2> QED BY <2>1, <2>2, <2>3, <2>4, <2>5
<1>2. deleted' = deleted /\ accepted' = accepted /\ told' = told /\ recent' = recent \cup {c}
  BY DEF Insert
<1>3. post'[c].marker = k
  BY <1>1, InsertStep, NilAssumption DEF Insert, Inv, TypeOK
<1>4. \A b \in Comments : Exists(b)' /\ b # c => Exists(b)
  BY <1>1 DEF Exists
<1>5. \A r \in Comments : IsRoot(r) => IsRoot(r)'
  BY <1>1 DEF IsRoot, Exists
<1>6. InOrder'
  <2>1. ASSUME NEW a \in Comments, Exists(a)', NEW b \in Comments, b < a PROVE Exists(b)'
    <3>1. CASE a = c
      BY <1>1, <2>1, <3>1 DEF Insert
    <3>2. CASE a # c
      BY <1>1, <1>4, <2>1, <3>2 DEF Inv, InOrder
    <3> QED BY <3>1, <3>2
  <2>2. \A a \in recent' \cup deleted' : Exists(a)'
    BY <1>1, <1>2 DEF Inv, InOrder, TypeOK
  <2> QED BY <2>1, <2>2 DEF InOrder
<1>7. OneLevelDeep'
  <2> SUFFICES ASSUME NEW a \in Comments, Exists(a)', ~ IsRoot(a)'
               PROVE  IsRoot(post[a].parent)' /\ post'[post'[a].parent].marker = post'[a].marker
    BY DEF OneLevelDeep
  <2>1. CASE a = c
    <3>1. d \in Comments /\ IsRoot(d) /\ post[d].marker = k
      BY <1>1, <2>1 DEF IsRoot
    <3>2. post'[d] = post[d] /\ IsRoot(d)'
      BY <1>1, <1>5, <3>1 DEF IsRoot
    <3> QED BY <1>1, <1>3, <2>1, <3>1, <3>2
  <2>2. CASE a # c
    <3>1. Exists(a) /\ post'[a] = post[a] /\ ~ IsRoot(a)
      BY <1>1, <1>4, <2>2 DEF IsRoot, Exists
    <3>2. post[a] \in Post /\ post[a].parent \in Comments
      BY <3>1 DEF Inv, TypeOK, Exists, IsRoot, Post
    <3>3. IsRoot(post[a].parent) /\ post[post[a].parent].marker = post[a].marker
      BY <3>1 DEF Inv, OneLevelDeep
    <3>4. post'[post[a].parent] = post[post[a].parent]
      BY <1>1, <3>2, <3>3 DEF IsRoot
    <3> QED BY <1>5, <3>1, <3>2, <3>3, <3>4
  <2> QED BY <2>1, <2>2
<1>8. AcceptedIsInThread'
  <2> SUFFICES ASSUME NEW r \in Comments, accepted[r] # Nil
               PROVE  IsRoot(r)' /\ Exists(accepted[r])' /\ post'[accepted[r]].parent = r
    BY <1>2 DEF AcceptedIsInThread
  <2>1. accepted[r] \in Comments /\ IsRoot(r) /\ Exists(accepted[r]) /\ post[accepted[r]].parent = r
    BY DEF Inv, TypeOK, AcceptedIsInThread
  <2> QED BY <1>1, <1>2, <1>5, <2>1
<1>9. ToldWhoWrote'
  <2> SUFFICES ASSUME NEW v \in Users, NEW a \in Comments, a \in told[v]
               PROVE  /\ Exists(a)' /\ ~IsRoot(a)' /\ post'[a].author # v /\ v \in Subscribers
                      /\ \E b \in Replies(post[a].parent)' \cup {post'[a].parent} : b < a /\ post'[b].author = v
    BY <1>2 DEF ToldWhoWrote
  <2>1. /\ Exists(a) /\ ~IsRoot(a) /\ post[a].author # v /\ v \in Subscribers
        /\ \E b \in Replies(post[a].parent) \cup {post[a].parent} : b < a /\ post[b].author = v
    BY DEF Inv, ToldWhoWrote
  <2>2. post'[a] = post[a] /\ Exists(a)' /\ ~ IsRoot(a)'
    BY <1>1, <2>1 DEF IsRoot
  <2>3. PICK b \in Replies(post[a].parent) \cup {post[a].parent} : b < a /\ post[b].author = v
    BY <2>1
  <2>4. b \in Comments /\ Exists(b)
    <3>1. post[a].parent \in Comments /\ Exists(post[a].parent)
      BY <2>1 DEF Inv, TypeOK, OneLevelDeep, IsRoot, Exists, Post
    <3> QED BY <3>1 DEF Replies
  <2>5. post'[b] = post[b] /\ Exists(b)'
    BY <1>1, <2>4
  <2>6. b \in Replies(post[a].parent)' \cup {post[a].parent}
    BY <2>2, <2>3, <2>4, <2>5 DEF Replies
  <2> QED BY <2>1, <2>2, <2>3, <2>5, <2>6
<1> QED BY <1>6, <1>7, <1>8, <1>9

LEMMA GoodAfterInsert ==
  ASSUME Inv, NEW c \in Comments, NEW k \in Markers, NEW d \in Comments \cup {Nil}, NEW u \in Users,
         Insert(c, k, d, u), d # Nil => IsRoot(d) /\ post[d].marker = k,
         NEW x \in Request, Good(x)
  PROVE  Good(x)'
<1>1. /\ \A b \in Comments : Exists(b) => Exists(b)' /\ post'[b] = post[b]
      /\ \A r \in Comments : IsRoot(r) => IsRoot(r)' /\ post'[r] = post[r]
      /\ \A b \in Comments : Exists(b) /\ ~IsRoot(b) => ~IsRoot(b)'
      /\ deleted' = deleted
  <2>1. /\ \A b \in Comments : Exists(b) => Exists(b)' /\ post'[b] = post[b]
        /\ deleted' = deleted
    BY InsertStep DEF Insert
  <2> QED BY <2>1 DEF IsRoot
<1>2. \A r \in Comments : Replies(r) \subseteq Replies(r)'
  BY <1>1 DEF Replies
<1>3. Writing(x)' /\ Starting(x)' /\ Changing(x)'
  BY <1>1 DEF Good, Writing, Starting, Changing
<1>4. Deciding(x)' /\ Naming(x)'
  BY <1>1 DEF Good, Deciding, Naming, IsRoot
<1>5. Clears(x)'
  BY <1>1 DEF Good, Clears, Changing
<1>6. Answering(x)'
  <2> SUFFICES ASSUME x.op = "reply", x.at # "notify"
               PROVE  /\ x.marker \in Markers /\ x.to \in Comments /\ IsRoot(x.to)' /\ post'[x.to].marker = x.marker
                      /\ \A v \in x.tell : WroteIn(v, x.to)'
    BY DEF Answering
  <2>1. x.marker \in Markers /\ x.to \in Comments /\ IsRoot(x.to) /\ post[x.to].marker = x.marker
    BY DEF Good, Answering
  <2>2. ASSUME NEW v \in x.tell PROVE WroteIn(v, x.to)'
    <3>1. PICK b \in Replies(x.to) \cup {x.to} : Exists(b) /\ post[b].author = v
      BY DEF Good, Answering, WroteIn
    <3>2. b \in Comments /\ Exists(b)' /\ post'[b] = post[b] /\ b \in Replies(x.to)' \cup {x.to}
      BY <1>1, <1>2, <2>1, <3>1 DEF Replies
    <3> QED BY <3>1, <3>2 DEF WroteIn
  <2> QED BY <1>1, <2>1, <2>2
<1>7. Telling(x)'
  <2> SUFFICES ASSUME x.op = "reply", x.at = "notify"
               PROVE  /\ x.on \in Comments /\ Exists(x.on)' /\ ~IsRoot(x.on)' /\ post'[x.on].author = x.by
                      /\ \A v \in x.tell : \E b \in Replies(post[x.on].parent)' \cup {post'[x.on].parent} :
                           b < x.on /\ post'[b].author = v
    BY DEF Telling
  <2>1. x.on \in Comments /\ Exists(x.on) /\ ~IsRoot(x.on) /\ post[x.on].author = x.by
    BY DEF Good, Telling
  <2>2. post[x.on].parent \in Comments /\ Exists(post[x.on].parent)
    BY <2>1 DEF Inv, TypeOK, OneLevelDeep, IsRoot, Exists, Post
  <2>3. ASSUME NEW v \in x.tell
        PROVE  \E b \in Replies(post[x.on].parent)' \cup {post'[x.on].parent} : b < x.on /\ post'[b].author = v
    <3>1. PICK b \in Replies(post[x.on].parent) \cup {post[x.on].parent} : b < x.on /\ post[b].author = v
      BY DEF Good, Telling
    <3>2. b \in Comments /\ Exists(b)
      BY <2>2, <3>1 DEF Replies
    <3>3. post'[b] = post[b] /\ post'[x.on] = post[x.on]
      BY <1>1, <2>1, <3>2
    <3>4. b \in Replies(post[x.on].parent)' \cup {post[x.on].parent}
      BY <1>2, <2>2, <3>1, <3>3
    <3> QED BY <3>1, <3>3, <3>4
  <2> QED BY <1>1, <2>1, <2>3
<1> QED BY <1>3, <1>4, <1>5, <1>6, <1>7 DEF Good

-----------------------------------------------------------------------------
(* A step that writes to columns that may change. *)
LEMMA WritingStep ==
  ASSUME Inv, NEW q \in Requests, NEW x \in Request, Good(x)',
         req' = [req EXCEPT ![q] = x], UNCHANGED <<post, recent>>,
         deleted \subseteq deleted', \A c \in deleted' : c \in Comments /\ Exists(c),
         text' \in [Comments -> {"", "text"}],
         accepted' \in [Comments -> Comments \cup {Nil}], AcceptedIsInThread',
         told' \in [Users -> SUBSET Comments], ToldWhoWrote'
  PROVE  Inv'
<1>1. \A y : Good(y) => Good(y)'
  BY GoodStays
<1>2. req' \in [Requests -> Request] /\ \A p \in Requests : Good(req[p])'
  BY <1>1, NextReq
<1>3. TypeOK'
  BY <1>2 DEF Inv, TypeOK
<1>4. InOrder' /\ OneLevelDeep'
  BY DEF Inv, InOrder, OneLevelDeep, Exists, IsRoot
<1> QED BY <1>2, <1>3, <1>4 DEF Inv

LEMMA InsertingStep ==
  ASSUME Inv, NEW q \in Requests, NEW c \in Comments, NEW k \in Markers, NEW d \in Comments \cup {Nil},
         NEW u \in Users, Insert(c, k, d, u), d # Nil => IsRoot(d) /\ post[d].marker = k,
         NEW x \in Request, Good(x)', req' = [req EXCEPT ![q] = x]
  PROVE  Inv'
<1>1. req \in [Requests -> Request] /\ \A p \in Requests : req'[p] = IF p = q THEN x ELSE req[p]
  BY DEF Inv, TypeOK
<1>2. req' \in [Requests -> Request]
  BY <1>1
<1>3. ASSUME NEW p \in Requests PROVE Good(req[p])'
  <2>1. CASE p = q
    BY <1>1, <2>1 DEF Good, Writing, Starting, Answering, Telling, Changing, Clears, Deciding, Naming
  <2>2. CASE p # q
    <3>1. req[p] \in Request /\ Good(req[p]) /\ req'[p] = req[p]
      BY <1>1, <2>2 DEF Inv
    <3>2. PICK y \in Request : y = req[p]
      BY <3>1
    <3>3. Good(y)
      BY <3>1, <3>2
    <3>4. Good(y)'
      BY <3>3, GoodAfterInsert
    <3> QED BY <3>1, <3>2, <3>4 DEF Good, Writing, Starting, Answering, Telling, Changing, Clears, Deciding, Naming
  <2> QED BY <2>1, <2>2
<1>4. /\ post' \in [Comments -> Post \cup {Nil}] /\ text' \in [Comments -> {"", "text"}]
      /\ recent' \subseteq Comments
  BY InsertStep
<1>5. TypeOK'
  BY <1>2, <1>4 DEF Inv, TypeOK, Insert
<1>6. InOrder' /\ OneLevelDeep' /\ AcceptedIsInThread' /\ ToldWhoWrote'
  BY InsertKeepsTables
<1> QED BY <1>3, <1>5, <1>6 DEF Inv

-----------------------------------------------------------------------------
LEMMA ReplyInv ==
  ASSUME Inv, NEW q \in Requests,
         \/ \E u \in Users, k \in Markers : StartThread(q, u, k)
         \/ \E c \in Comments : InsertRoot(q, c) \/ InsertReply(q, c)
         \/ \E u \in Users, k \in Markers, c \in Comments : ReadParent(q, u, k, c)
         \/ ReadRoot(q) \/ CountPosts(q) \/ NotifyReply(q)
  PROVE  Inv'
<1> USE DEF Ask
<1>0. req[q] \in Request /\ Good(req[q])
  BY DEF Inv, TypeOK
<1>1. ASSUME NEW u \in Users, NEW k \in Markers, StartThread(q, u, k) PROVE Inv'
  <2>1. Ask("thread", "insert", u, k, Nil, Nil, {}) \in Request
    BY DEF Request
  <2>2. Good(Ask("thread", "insert", u, k, Nil, Nil, {}))
    BY DEF Good, Writing, Starting, Answering, Telling, Changing, Clears, Deciding, Naming
  <2> QED BY <1>1, <2>1, <2>2, QuietStep DEF StartThread
<1>2. ASSUME NEW c \in Comments, InsertRoot(q, c) PROVE Inv'
  <2>1. req[q].marker \in Markers /\ req[q].by \in Users
    BY <1>0, <1>2 DEF InsertRoot, At, Good, Starting, Writing
  <2>2. Idle \in Request /\ Good(Idle)'
    BY IdleIsGood DEF Idle, Request, Good, Writing, Starting, Answering, Telling, Changing, Clears, Deciding, Naming
  <2> QED BY <1>2, <2>1, <2>2, InsertingStep DEF InsertRoot, End
<1>3. ASSUME NEW c \in Comments, InsertReply(q, c) PROVE Inv'
  <2> DEFINE k == req[q].marker
             d == req[q].to
             u == req[q].by
             us == req[q].tell
             x == Ask("reply", "notify", u, Nil, c, Nil, us)
  <2>1. k \in Markers /\ d \in Comments /\ IsRoot(d) /\ post[d].marker = k /\ u \in Users /\ us \subseteq Users
    BY <1>0, <1>3 DEF InsertReply, At, Good, Answering, Writing, Request
  <2>2. Insert(c, k, d, u) /\ req' = [req EXCEPT ![q] = x]
    BY <1>3 DEF InsertReply
  <2>3. x \in Request
    BY <2>1 DEF Request
  <2>4. Exists(c)' /\ post'[c].parent = d /\ post'[c].author = u
    <3>1. post'[c] = [marker |-> k, parent |-> d, author |-> u]
      BY <2>2 DEF Insert, Inv, TypeOK
    <3>2. Exists(c)'
      BY <2>1, <2>2, InsertStep
    <3> QED BY <3>1, <3>2
  <2>5. ~IsRoot(c)'
    BY <2>1, <2>4, NilAssumption DEF IsRoot
  <2>6. \A b \in Comments : Exists(b) => b < c /\ post'[b] = post[b] /\ Exists(b)'
    <3>1. \A b \in Comments : Exists(b) => b < c
      BY <2>1, <2>2, InsertStep
    <3>2. \A b \in Comments : Exists(b) => Exists(b)' /\ post'[b] = post[b]
      BY <2>1, <2>2, InsertStep
    <3> QED BY <3>1, <3>2
  <2>7. ASSUME NEW v \in us
        PROVE  \E b \in Replies(post[c].parent)' \cup {post'[c].parent} : b < c /\ post'[b].author = v
    <3>1. PICK b \in Replies(d) \cup {d} : Exists(b) /\ post[b].author = v
      BY <1>0, <1>3 DEF InsertReply, At, Good, Answering, WroteIn
    <3>2. b \in Comments /\ b < c /\ post'[b] = post[b] /\ Exists(b)'
      BY <2>1, <2>6, <3>1 DEF Replies
    <3>3. b \in Replies(post[c].parent)' \cup {post'[c].parent}
      BY <2>4, <3>1, <3>2 DEF Replies
    <3> QED BY <3>1, <3>2, <3>3
  <2>8. x.op = "reply" /\ x.at = "notify" /\ x.on = c /\ x.by = u /\ x.tell = us
    OBVIOUS
  <2> HIDE DEF x
  <2>9. PICK y \in Request : y = x
    BY <2>3
  <2>10. Good(y)'
    <3>1. Writing(y)' /\ Starting(y)' /\ Answering(y)' /\ Changing(y)' /\ Clears(y)' /\ Deciding(y)' /\ Naming(y)'
      BY <2>1, <2>8, <2>9 DEF Writing, Starting, Answering, Changing, Clears, Deciding, Naming
    <3>2. Telling(y)'
      BY <2>4, <2>5, <2>7, <2>8, <2>9 DEF Telling
    <3> QED BY <3>1, <3>2 DEF Good
  <2>11. PICK k1 \in Markers, u1 \in Users, d1 \in Comments : k1 = k /\ u1 = u /\ d1 = d
    BY <2>1
  <2> HIDE DEF k, d, u, us
  <2> QED BY <2>1, <2>2, <2>9, <2>10, <2>11, InsertingStep
<1>4. ASSUME NEW u \in Users, NEW k \in Markers, NEW c \in Comments, ReadParent(q, u, k, c) PROVE Inv'
  <2> DEFINE r == IF IsRoot(c) THEN c ELSE post[c].parent
             at == IF IsRoot(c) THEN "count" ELSE "root"
             x == Ask("reply", at, u, k, Nil, r, {post[c].author})
  <2>1. Exists(c) /\ post[c] \in Post /\ post[c].marker = k
    BY <1>4 DEF ReadParent, Live, Exists, Inv, TypeOK
  <2>2. r \in Comments /\ IsRoot(r) /\ post[r].marker = k /\ c \in Replies(r) \cup {r}
    BY <2>1 DEF Post, IsRoot, Inv, OneLevelDeep, Replies
  <2>3. WroteIn(post[c].author, r)
    BY <2>1, <2>2 DEF WroteIn
  <2>4. req' = [req EXCEPT ![q] = x] /\ UNCHANGED <<rows, told>>
    BY <1>4 DEF ReadParent
  <2>5. at \in {"count", "root"} /\ {post[c].author} \subseteq Users
    BY <2>1 DEF Post
  <2> HIDE DEF r, at
  <2>6. x \in Request
    BY <2>2, <2>5 DEF Request
  <2>7. Good(x)
    BY <2>2, <2>3, <2>5
    DEF Good, Writing, Starting, Answering, Telling, Changing, Clears, Deciding, Naming
  <2> HIDE DEF x
  <2> QED BY <2>4, <2>6, <2>7, QuietStep
<1>5. CASE ReadRoot(q)
  <2> DEFINE r == req[q].to
             us == req[q].tell \cup {post[r].author}
             x == Ask("reply", "count", req[q].by, req[q].marker, Nil, r, us)
  <2>1. /\ r \in Comments /\ IsRoot(r) /\ post[r].marker = req[q].marker /\ Exists(r) /\ post[r] \in Post
        /\ req[q].by \in Users /\ req[q].marker \in Markers /\ \A v \in req[q].tell : WroteIn(v, r)
    BY <1>0, <1>5 DEF ReadRoot, At, Good, Answering, Writing, IsRoot, Exists, Inv, TypeOK
  <2>2. us \subseteq Users /\ \A v \in us : WroteIn(v, r)
    BY <1>0, <2>1 DEF Post, Request, WroteIn
  <2>3. req' = [req EXCEPT ![q] = x] /\ UNCHANGED <<rows, told>>
    BY <1>5 DEF ReadRoot
  <2> HIDE DEF r, us
  <2>4. x \in Request
    BY <2>1, <2>2 DEF Request
  <2>5. Good(x)
    BY <2>1, <2>2 DEF Good, Writing, Starting, Answering, Telling, Changing, Clears, Deciding, Naming
  <2> HIDE DEF x
  <2> QED BY <2>3, <2>4, <2>5, QuietStep
<1>6. CASE CountPosts(q)
  <2> DEFINE x == [req[q] EXCEPT !.at = "insert"]
  <2>1. x \in Request
    BY <1>0 DEF Request
  <2>2. /\ x.op = "reply" /\ x.at = "insert" /\ x.by = req[q].by /\ x.marker = req[q].marker
        /\ x.to = req[q].to /\ x.tell = req[q].tell
    BY <1>0, <1>6 DEF Request, CountPosts, At
  <2>3. req' = [req EXCEPT ![q] = x] /\ UNCHANGED <<rows, told>>
    BY <1>6 DEF CountPosts, Goto
  <2> HIDE DEF x
  <2>4. Good(x)
    BY <1>0, <1>6, <2>2
    DEF CountPosts, At, Good, Writing, Starting, Answering, Telling, Changing, Clears, Deciding, Naming
  <2> QED BY <2>1, <2>3, <2>4, QuietStep
<1>7. CASE NotifyReply(q)
  <2>1. Idle \in Request /\ Good(Idle)'
    BY IdleIsGood DEF Idle, Request, Good, Writing, Starting, Answering, Telling, Changing, Clears, Deciding, Naming
  <2>2. /\ req' = [req EXCEPT ![q] = Idle] /\ UNCHANGED rows
        /\ told' = [u \in Users |->
             IF u \in Recipients(req[q].tell, req[q].by) THEN told[u] \cup {req[q].on} ELSE told[u]]
    BY <1>7 DEF NotifyReply, End
  <2>3. /\ req[q].on \in Comments /\ Exists(req[q].on) /\ ~IsRoot(req[q].on)
        /\ post[req[q].on].author = req[q].by
        /\ \A v \in req[q].tell : \E b \in Replies(post[req[q].on].parent) \cup {post[req[q].on].parent} :
             b < req[q].on /\ post[b].author = v
    BY <1>0, <1>7 DEF NotifyReply, At, Good, Telling
  <2>4. told' \in [Users -> SUBSET Comments]
    BY <2>2, <2>3 DEF Inv, TypeOK
  <2>5. AcceptedIsInThread'
    BY <2>2 DEF rows, Inv, AcceptedIsInThread, Exists, IsRoot
  <2>6. ToldWhoWrote'
    <3> SUFFICES ASSUME NEW v \in Users, NEW a \in Comments, a \in told'[v]
                 PROVE  /\ Exists(a) /\ ~IsRoot(a) /\ post[a].author # v /\ v \in Subscribers
                        /\ \E b \in Replies(post[a].parent) \cup {post[a].parent} : b < a /\ post[b].author = v
      BY <2>2 DEF rows, ToldWhoWrote, Exists, IsRoot, Replies
    <3>1. CASE a \in told[v]
      BY <3>1 DEF Inv, ToldWhoWrote
    <3>2. CASE a \notin told[v]
      <4>1. a = req[q].on /\ v \in req[q].tell /\ v # req[q].by /\ v \in Subscribers
        BY <2>2, <3>2 DEF Recipients
      <4> QED BY <2>3, <4>1
    <3> QED BY <3>1, <3>2
  <2>7. \A c \in deleted' : c \in Comments /\ Exists(c)
    BY <2>2 DEF rows, Inv, TypeOK, InOrder
  <2> QED BY <2>1, <2>2, <2>4, <2>5, <2>6, <2>7, WritingStep DEF rows, Inv, TypeOK
<1> QED BY <1>1, <1>2, <1>3, <1>4, <1>5, <1>6, <1>7

LEMMA ChangeInv ==
  ASSUME Inv, NEW q \in Requests,
         \/ \E u \in Users, c \in Comments : ReadToEdit(q, u, c) \/ ReadToRemove(q, u, c)
         \/ Edit(q) \/ Blank(q) \/ ClearAcceptance(q)
  PROVE  Inv'
<1> USE DEF Ask, rows
<1>0. /\ req[q] \in Request /\ Good(req[q]) /\ \A c \in deleted : c \in Comments /\ Exists(c)
      /\ Idle \in Request /\ Good(Idle)'
  <2>1. Good(Idle)'
    BY IdleIsGood DEF Idle, Request, Good, Writing, Starting, Answering, Telling, Changing, Clears, Deciding, Naming
  <2> QED BY <2>1, IdleIsGood DEF Inv, TypeOK, InOrder
<1>1. ASSUME NEW u \in Users, NEW c \in Comments, ReadToEdit(q, u, c) \/ ReadToRemove(q, u, c) PROVE Inv'
  <2>1. PICK o \in {"edit", "remove"}, at \in {"write", "blank"} :
          req' = [req EXCEPT ![q] = Ask(o, at, Nil, Nil, c, Nil, {})]
    BY <1>1 DEF ReadToEdit, ReadToRemove
  <2> DEFINE x == Ask(o, at, Nil, Nil, c, Nil, {})
  <2>2. x \in Request
    BY DEF Request
  <2>3. Good(x)
    BY <1>1 DEF ReadToEdit, ReadToRemove, Live,
                Good, Writing, Starting, Answering, Telling, Changing, Clears, Deciding, Naming
  <2>4. UNCHANGED <<rows, told>>
    BY <1>1 DEF ReadToEdit, ReadToRemove
  <2> HIDE DEF x
  <2> QED BY <2>1, <2>2, <2>3, <2>4, QuietStep DEF x
<1>2. CASE Edit(q)
  <2>1. text' \in [Comments -> {"", "text"}] /\ UNCHANGED <<post, deleted, accepted, recent, told>>
    BY <1>2 DEF Edit, Inv, TypeOK
  <2>2. AcceptedIsInThread' /\ ToldWhoWrote'
    BY <2>1 DEF Inv, AcceptedIsInThread, ToldWhoWrote, Exists, IsRoot, Replies
  <2> QED BY <1>0, <1>2, <2>1, <2>2, WritingStep DEF Edit, End, Inv, TypeOK
<1>3. CASE Blank(q)
  <2>1. req[q].op = "remove" /\ req[q].at = "blank" /\ req[q].on \in Comments /\ Exists(req[q].on)
    BY <1>0, <1>3 DEF Blank, At, Good, Changing
  <2>2. /\ text' \in [Comments -> {"", "text"}] /\ deleted' = deleted \cup {req[q].on}
        /\ UNCHANGED <<post, accepted, recent, told>>
    BY <1>3, <2>1 DEF Blank, Inv, TypeOK
  <2>3. AcceptedIsInThread' /\ ToldWhoWrote'
    BY <2>2 DEF Inv, AcceptedIsInThread, ToldWhoWrote, Exists, IsRoot, Replies
  <2>4. \A c \in deleted' : c \in Comments /\ Exists(c)
    BY <1>0, <2>1, <2>2
  <2>5. CASE IsRoot(req[q].on)
    <3>1. req' = [req EXCEPT ![q] = Idle]
      BY <1>3, <2>5 DEF Blank, End
    <3>2. /\ deleted \subseteq deleted' /\ UNCHANGED <<post, recent>>
          /\ accepted' \in [Comments -> Comments \cup {Nil}] /\ told' \in [Users -> SUBSET Comments]
      BY <2>2 DEF Inv, TypeOK
    <3> QED BY <1>0, <2>2, <2>3, <2>4, <3>1, <3>2, WritingStep
  <2>6. CASE ~IsRoot(req[q].on)
    <3> DEFINE x == [req[q] EXCEPT !.at = "clear"]
    <3>1. x \in Request /\ x.op = "remove" /\ x.at = "clear" /\ x.on = req[q].on
      BY <1>0, <2>1 DEF Request
    <3>2. req' = [req EXCEPT ![q] = x]
      BY <1>3, <2>6 DEF Blank, Goto
    <3> HIDE DEF x
    <3>3. PICK y \in Request : y = x
      BY <3>1
    <3>4. Good(y)'
      <4>1. Writing(y)' /\ Starting(y)' /\ Answering(y)' /\ Telling(y)' /\ Deciding(y)' /\ Naming(y)'
        BY <3>1, <3>3 DEF Writing, Starting, Answering, Telling, Deciding, Naming
      <4>2. Changing(y)' /\ Clears(y)'
        BY <2>1, <2>2, <2>6, <3>1, <3>3 DEF Changing, Clears, Exists, IsRoot
      <4> QED BY <4>1, <4>2 DEF Good
    <3> QED BY <2>2, <2>3, <2>4, <3>2, <3>3, <3>4, WritingStep DEF Inv, TypeOK
  <2> QED BY <2>5, <2>6
<1>4. CASE ClearAcceptance(q)
  <2> DEFINE c == req[q].on
             r == post[c].parent
  <2>1. /\ accepted' = [accepted EXCEPT ![r] = IF accepted[r] = c THEN Nil ELSE accepted[r]]
        /\ UNCHANGED <<post, text, deleted, recent, told>>
    BY <1>4 DEF ClearAcceptance
  <2>2. /\ accepted' \in [Comments -> Comments \cup {Nil}]
        /\ \A a \in Comments : accepted'[a] \in {accepted[a], Nil}
    <3> HIDE DEF c, r
    <3> QED BY <2>1 DEF Inv, TypeOK
  <2>3. AcceptedIsInThread' /\ ToldWhoWrote'
    BY <2>1, <2>2 DEF Inv, AcceptedIsInThread, ToldWhoWrote, Exists, IsRoot, Replies
  <2> QED BY <1>0, <1>4, <2>1, <2>2, <2>3, WritingStep DEF ClearAcceptance, End, Inv, TypeOK
<1> QED BY <1>1, <1>2, <1>3, <1>4

LEMMA DecideInv ==
  ASSUME Inv, NEW q \in Requests,
         \/ \E u \in Users, r, c \in Comments : StartAccept(q, u, r, c)
         \/ \E u \in Users, r \in Comments : StartUnaccept(q, u, r)
         \/ FindReply(q) \/ Resolve(q) \/ Refuse(q)
  PROVE  Inv'
<1> USE DEF Ask, rows
<1>0. /\ req[q] \in Request /\ Good(req[q]) /\ \A c \in deleted : c \in Comments /\ Exists(c)
      /\ Idle \in Request /\ Good(Idle)'
  <2>1. Good(Idle)'
    BY IdleIsGood DEF Idle, Request, Good, Writing, Starting, Answering, Telling, Changing, Clears, Deciding, Naming
  <2> QED BY <2>1, IdleIsGood DEF Inv, TypeOK, InOrder
<1>1. ASSUME NEW u \in Users, NEW r \in Comments, NEW c \in Comments, StartAccept(q, u, r, c) PROVE Inv'
  <2> DEFINE x == Ask("accept", "reply", u, Nil, r, c, {})
  <2>1. x \in Request
    BY DEF Request
  <2>2. Good(x)
    BY <1>1 DEF StartAccept, OwnsRoot,
                Good, Writing, Starting, Answering, Telling, Changing, Clears, Deciding, Naming
  <2> QED BY <1>1, <2>1, <2>2, QuietStep DEF StartAccept
<1>2. ASSUME NEW u \in Users, NEW r \in Comments, StartUnaccept(q, u, r) PROVE Inv'
  <2> DEFINE x == Ask("unaccept", "write", u, Nil, r, Nil, {})
  <2>1. x \in Request
    BY DEF Request
  <2>2. Good(x)
    BY <1>2 DEF StartUnaccept, OwnsRoot,
                Good, Writing, Starting, Answering, Telling, Changing, Clears, Deciding, Naming
  <2> QED BY <1>2, <2>1, <2>2, QuietStep DEF StartUnaccept
<1>3. CASE FindReply(q)
  <2> DEFINE x == [req[q] EXCEPT !.at = "write"]
  <2>1. x \in Request
    BY <1>0 DEF Request
  <2>2. /\ x.op = "accept" /\ x.at = "write" /\ x.by = req[q].by
        /\ x.on = req[q].on /\ x.to = req[q].to
    BY <1>0, <1>3 DEF Request, FindReply, At
  <2>3. req' = [req EXCEPT ![q] = x] /\ UNCHANGED <<rows, told>>
    BY <1>3 DEF FindReply, Goto
  <2> HIDE DEF x
  <2>4. Good(x)
    BY <1>0, <1>3, <2>2 DEF FindReply, CanAccept, Live, At,
       Good, Writing, Starting, Answering, Telling, Changing, Clears, Deciding, Naming
  <2> QED BY <2>1, <2>3, <2>4, QuietStep
<1>4. CASE Resolve(q)
  <2> DEFINE r == req[q].on
             c == req[q].to
  <2>1. /\ r \in Comments /\ IsRoot(r)
        /\ c = Nil \/ (c \in Comments /\ Exists(c) /\ post[c].parent = r)
    BY <1>0, <1>4 DEF Resolve, At, Good, Deciding, Naming
  <2>2. accepted' = [accepted EXCEPT ![r] = c] /\ UNCHANGED <<post, text, deleted, recent, told>>
    BY <1>4 DEF Resolve
  <2> HIDE DEF r, c
  <2>3. /\ accepted' \in [Comments -> Comments \cup {Nil}]
        /\ \A a \in Comments : accepted'[a] = IF a = r THEN c ELSE accepted[a]
    BY <2>1, <2>2 DEF Inv, TypeOK
  <2>4. AcceptedIsInThread' /\ ToldWhoWrote'
    BY <2>1, <2>2, <2>3 DEF Inv, AcceptedIsInThread, ToldWhoWrote, Exists, IsRoot, Replies
  <2> QED BY <1>0, <1>4, <2>2, <2>3, <2>4, WritingStep DEF Resolve, End, Inv, TypeOK
<1>5. CASE Refuse(q)
  BY <1>5, IdleIsGood, QuietStep DEF Refuse, End
<1> QED BY <1>1, <1>2, <1>3, <1>4, <1>5

LEMMA AgeInv ==
  ASSUME Inv, NEW c \in Comments, Age(c)
  PROVE  Inv'
<1> USE DEF Age
<1>1. TypeOK'
  BY DEF Inv, TypeOK
<1>2. InOrder' /\ OneLevelDeep' /\ AcceptedIsInThread' /\ ToldWhoWrote'
  BY DEF Inv, InOrder, OneLevelDeep, AcceptedIsInThread, ToldWhoWrote, Exists, IsRoot, Replies
<1>3. ASSUME NEW q \in Requests PROVE Good(req[q])'
  <2>1. Good(req[q])
    BY DEF Inv
  <2>2. Writing(req[q])' /\ Starting(req[q])' /\ Changing(req[q])' /\ Deciding(req[q])' /\ Naming(req[q])'
    BY <2>1 DEF Good, Writing, Starting, Changing, Deciding, Naming, Exists, IsRoot
  <2>3. Answering(req[q])' /\ Telling(req[q])' /\ Clears(req[q])'
    BY <2>1 DEF Good, Answering, Telling, Clears, WroteIn, Replies, Exists, IsRoot
  <2> QED BY <2>2, <2>3 DEF Good
<1> QED BY <1>1, <1>2, <1>3 DEF Inv

-----------------------------------------------------------------------------
(* The inductive invariant of the discussions: rows, and what each request *)
(* in flight relies on.                                                    *)
THEOREM InvHolds == Spec => []Inv
<1>1. Inv /\ [Next]_vars => Inv'
  <2> SUFFICES ASSUME Inv, [Next]_vars PROVE Inv'
    OBVIOUS
  <2>1. ASSUME NEW q \in Requests, StepOf(q) PROVE Inv'
    BY <2>1, ReplyInv, ChangeInv, DecideInv DEF StepOf
  <2>2. ASSUME NEW c \in Comments, Age(c) PROVE Inv'
    BY <2>2, AgeInv
  <2>3. CASE UNCHANGED vars
    <3>1. UNCHANGED <<rows, told>> /\ UNCHANGED <<post, text, deleted, accepted, recent, told, req>>
      BY <2>3 DEF vars, rows
    <3>2. TypeOK'
      BY <3>1 DEF Inv, TypeOK
    <3>3. InOrder' /\ OneLevelDeep' /\ AcceptedIsInThread' /\ ToldWhoWrote'
      BY <3>1 DEF Inv, InOrder, OneLevelDeep, AcceptedIsInThread, ToldWhoWrote, Exists, IsRoot, Replies
    <3>4. ASSUME NEW q \in Requests PROVE Good(req[q])'
      <4>1. Good(req[q])
        BY DEF Inv
      <4>2. Writing(req[q])' /\ Starting(req[q])' /\ Changing(req[q])' /\ Deciding(req[q])' /\ Naming(req[q])'
        BY <3>1, <4>1 DEF Good, Writing, Starting, Changing, Deciding, Naming, Exists, IsRoot
      <4>3. Answering(req[q])' /\ Telling(req[q])' /\ Clears(req[q])'
        BY <3>1, <4>1 DEF Good, Answering, Telling, Clears, WroteIn, Replies, Exists, IsRoot
      <4> QED BY <4>2, <4>3 DEF Good
    <3> QED BY <3>2, <3>3, <3>4 DEF Inv
  <2> QED BY <2>1, <2>2, <2>3 DEF Next
<1> QED BY <1>1, InitInv, PTL DEF Spec

(* Every variable stays in its type. *)
THEOREM TypeCorrect == Spec => []TypeOK
<1>1. Inv => TypeOK
  BY DEF Inv
<1> QED BY <1>1, InvHolds, PTL

(* Threads stay two levels deep and inside one marker (reply). *)
THEOREM ThreadsHold == Spec => []OneLevelDeep
<1>1. Inv => OneLevelDeep
  BY DEF Inv
<1> QED BY <1>1, InvHolds, PTL

(* An accepted reply is one of that thread (accept). *)
THEOREM AcceptanceHolds == Spec => []AcceptedIsInThread
<1>1. Inv => AcceptedIsInThread
  BY DEF Inv
<1> QED BY <1>1, InvHolds, PTL

(* A notification reaches only readers who wrote in the thread before it,  *)
(* want them and did not write the reply (notifyReply).                    *)
THEOREM ToldHolds == Spec => []ToldWhoWrote
<1>1. Inv => ToldWhoWrote
  BY DEF Inv
<1> QED BY <1>1, InvHolds, PTL

(* Whoever changes which reply is accepted owns the thread, or is removing *)
(* that very reply (accept, unaccept, remove).                             *)
THEOREM OwnerHolds == Spec => OwnerResolves
<1> DEFINE Owned == \A r \in Comments : accepted'[r] # accepted[r] =>
       \/ \E q \in Requests :
            /\ req[q].op \in {"accept", "unaccept"} /\ req[q].on = r
            /\ req[q].by = post[r].author
       \/ accepted'[r] = Nil /\ accepted[r] \in deleted
<1>1. Inv /\ [Next]_vars => [Owned]_vars
  <2> SUFFICES ASSUME Inv, Next, NEW r \in Comments, accepted'[r] # accepted[r]
               PROVE  \/ \E q \in Requests :
                           /\ req[q].op \in {"accept", "unaccept"} /\ req[q].on = r
                           /\ req[q].by = post[r].author
                      \/ accepted'[r] = Nil /\ accepted[r] \in deleted
    BY DEF vars, rows
  <2>1. PICK q \in Requests : Resolve(q) \/ ClearAcceptance(q)
    <3>1. PICK q \in Requests : StepOf(q)
      BY DEF Next, Age
    <3>2. CASE Resolve(q) \/ ClearAcceptance(q)
      BY <3>2
    <3>3. CASE ~(Resolve(q) \/ ClearAcceptance(q))
      BY <3>1, <3>3 DEF StepOf, rows, StartThread, InsertRoot, InsertReply, Insert, ReadParent, ReadRoot,
         CountPosts, NotifyReply, ReadToEdit, ReadToRemove, Edit, Blank, StartAccept, StartUnaccept,
         FindReply, Refuse
    <3> QED BY <3>2, <3>3
  <2>2. accepted \in [Comments -> Comments \cup {Nil}] /\ Good(req[q])
    BY DEF Inv, TypeOK
  <2>3. CASE Resolve(q)
    <3>1. req[q].on = r
      BY <2>2, <2>3 DEF Resolve
    <3>2. req[q].op \in {"accept", "unaccept"} /\ req[q].by = post[req[q].on].author
      BY <2>2, <2>3 DEF Resolve, At, Good, Deciding
    <3> QED BY <3>1, <3>2
  <2>4. CASE ClearAcceptance(q)
    <3>1. r = post[req[q].on].parent /\ accepted[r] = req[q].on /\ accepted'[r] = Nil
      BY <2>2, <2>4 DEF ClearAcceptance
    <3>2. req[q].on \in deleted
      BY <2>2, <2>4 DEF ClearAcceptance, At, Good, Clears
    <3> QED BY <3>1, <3>2
  <2> QED BY <2>1, <2>3, <2>4
<1>2. Spec => [][Owned]_vars
  BY <1>1, InvHolds, PTL DEF Spec
<1> QED BY <1>2 DEF OwnerResolves

-----------------------------------------------------------------------------
(* The limit on posts.  A post passes it once and is written later: the    *)
(* requests between the two are what a user can be over the limit by.      *)
Passed(u) == {q \in Requests : req[q].at = "insert" /\ req[q].by = u}

Room ==
  /\ IsFiniteSet(recent)
  /\ \A u \in Users :
       Cardinality(PostsOf(u)) + Cardinality(Passed(u)) < PostsPerMinute + Cardinality(Requests)

LEMMA Finite ==
  ASSUME Room, NEW u \in Users
  PROVE  /\ IsFiniteSet(PostsOf(u)) /\ Cardinality(PostsOf(u)) \in Nat
         /\ IsFiniteSet(Passed(u)) /\ Cardinality(Passed(u)) \in Nat
         /\ Cardinality(Requests) \in Nat /\ PostsPerMinute \in Nat
<1>1. PostsOf(u) \in SUBSET recent /\ Passed(u) \in SUBSET Requests
  BY DEF PostsOf, Passed
<1> QED BY <1>1, FS_Subset, FS_CardinalityType, LimitAssumption DEF Room

(* Fewer recent posts and fewer requests past the limit leave room. *)
LEMMA LessIsRoom ==
  ASSUME Room, recent' \subseteq recent,
         \A u \in Users : PostsOf(u)' \subseteq PostsOf(u) /\ Passed(u)' \subseteq Passed(u)
  PROVE  Room'
<1>1. IsFiniteSet(recent')
  BY FS_Subset DEF Room
<1>2. ASSUME NEW u \in Users
      PROVE  Cardinality(PostsOf(u)') + Cardinality(Passed(u)') < PostsPerMinute + Cardinality(Requests)
  <2>1. /\ IsFiniteSet(PostsOf(u)') /\ Cardinality(PostsOf(u)') <= Cardinality(PostsOf(u))
        /\ IsFiniteSet(Passed(u)') /\ Cardinality(Passed(u)') <= Cardinality(Passed(u))
    BY Finite, FS_Subset
  <2>2. Cardinality(PostsOf(u)') \in Nat /\ Cardinality(Passed(u)') \in Nat
    BY <2>1, FS_CardinalityType
  <2> QED BY <2>1, <2>2, Finite DEF Room
<1> QED BY <1>1, <1>2 DEF Room

(* Passing the limit: the posts are below it, and no more requests exist. *)
LEMMA PassingHasRoom ==
  ASSUME Inv, Room, NEW q \in Requests, CanPost(req'[q].by),
         \A p \in Requests \ {q} : req'[p] = req[p], req[q].at # "insert", UNCHANGED rows
  PROVE  Room'
<1>1. \A u \in Users : PostsOf(u)' = PostsOf(u)
  BY DEF PostsOf, rows
<1>2. ASSUME NEW u \in Users
      PROVE  Cardinality(PostsOf(u)) + Cardinality(Passed(u)') < PostsPerMinute + Cardinality(Requests)
  <2>1. Passed(u)' \in SUBSET Requests
    BY DEF Passed
  <2>2. IsFiniteSet(Passed(u)') /\ Cardinality(Passed(u)') <= Cardinality(Requests)
    BY <2>1, FS_Subset, LimitAssumption
  <2>3. Cardinality(Passed(u)') \in Nat
    BY <2>2, FS_CardinalityType
  <2>4. CASE req'[q].by = u
    BY <2>2, <2>3, <2>4, Finite DEF CanPost
  <2>5. CASE req'[q].by # u
    <3>1. Passed(u)' \in SUBSET Passed(u)
      BY <2>5 DEF Passed
    <3>2. Cardinality(Passed(u)') <= Cardinality(Passed(u))
      BY <3>1, Finite, FS_Subset
    <3> QED BY <2>3, <3>2, Finite DEF Room
  <2> QED BY <2>4, <2>5
<1> QED BY <1>1, <1>2 DEF Room, rows

(* Writing what has passed: one post more, one request past the limit less. *)
LEMMA WritingHasRoom ==
  ASSUME Inv, Room, NEW q \in Requests, NEW c \in Comments, NEW k, NEW d,
         Insert(c, k, d, req[q].by), req[q].at = "insert",
         \A p \in Requests \ {q} : req'[p] = req[p], req'[q].at # "insert"
  PROVE  Room'
<1>0. /\ recent' = recent \cup {c} /\ c \notin recent
      /\ \A b \in recent : post'[b] = post[b]
      /\ post'[c] = [marker |-> k, parent |-> d, author |-> req[q].by]
  <2>1. recent \subseteq Comments /\ post \in [Comments -> Post \cup {Nil}] /\ \A b \in recent : Exists(b)
    BY DEF Inv, TypeOK, InOrder
  <2>2. recent' = recent \cup {c} /\ c \notin recent
    BY <2>1 DEF Insert
  <2>3. post' = [post EXCEPT ![c] = [marker |-> k, parent |-> d, author |-> req[q].by]]
    BY DEF Insert
  <2> QED BY <2>1, <2>2, <2>3
<1>1. IsFiniteSet(recent')
  BY <1>0, FS_AddElement DEF Room
<1>2. ASSUME NEW u \in Users
      PROVE  Cardinality(PostsOf(u)') + Cardinality(Passed(u)') < PostsPerMinute + Cardinality(Requests)
  <2>1. CASE req[q].by = u
    <3>1. PostsOf(u)' = PostsOf(u) \cup {c} /\ c \notin PostsOf(u)
      BY <1>0, <2>1 DEF PostsOf
    <3>2. Passed(u)' = Passed(u) \ {q} /\ q \in Passed(u)
      BY <2>1 DEF Passed
    <3>3. Cardinality(PostsOf(u)') = Cardinality(PostsOf(u)) + 1
      BY <3>1, Finite, FS_AddElement
    <3>4. Cardinality(Passed(u)') = Cardinality(Passed(u)) - 1
      BY <3>2, Finite, FS_RemoveElement
    <3> QED BY <3>3, <3>4, Finite DEF Room
  <2>2. CASE req[q].by # u
    <3>1. PostsOf(u)' = PostsOf(u)
      BY <1>0, <2>2 DEF PostsOf
    <3>2. Passed(u)' = Passed(u)
      BY <2>2 DEF Passed
    <3> QED BY <3>1, <3>2 DEF Room
  <2> QED BY <2>1, <2>2
<1> QED BY <1>1, <1>2 DEF Room

LEMMA RoomStays == Inv /\ Room /\ [Next]_vars => Room'
<1> SUFFICES ASSUME Inv, Room, [Next]_vars PROVE Room'
  OBVIOUS
<1> USE DEF Ask, Idle
<1>0. req \in [Requests -> Request]
  BY DEF Inv, TypeOK
<1>1. ASSUME NEW q \in Requests, UNCHANGED <<post, recent>>,
             \A p \in Requests \ {q} : req'[p] = req[p], req'[q].at # "insert"
      PROVE  Room'
  <2>1. \A u \in Users : PostsOf(u)' = PostsOf(u) /\ Passed(u)' \subseteq Passed(u)
    BY <1>1 DEF PostsOf, Passed
  <2> QED BY <1>1, <2>1, LessIsRoom
<1>2. ASSUME NEW q \in Requests, StepOf(q) PROVE Room'
  <2>0. \A p \in Requests \ {q} : req'[p] = req[p]
    BY <1>0, <1>2 DEF StepOf, StartThread, InsertRoot, InsertReply, ReadParent, ReadRoot, CountPosts,
       NotifyReply, ReadToEdit, ReadToRemove, Edit, Blank, ClearAcceptance, StartAccept, StartUnaccept,
       FindReply, Resolve, Refuse, Goto, End
  <2>1. ASSUME NEW u \in Users, NEW k \in Markers, StartThread(q, u, k) PROVE Room'
    <3>1. req[q].at # "insert" /\ req'[q].by = u /\ CanPost(u) /\ UNCHANGED rows
      BY <1>0, <2>1 DEF StartThread, Free
    <3> QED BY <2>0, <3>1, PassingHasRoom
  <2>2. CASE CountPosts(q)
    <3>1. req[q].at # "insert" /\ req'[q].by = req[q].by /\ CanPost(req[q].by) /\ UNCHANGED rows
      BY <1>0, <2>2 DEF CountPosts, At, Goto, Request
    <3> QED BY <2>0, <3>1, PassingHasRoom
  <2>3. ASSUME NEW c \in Comments, InsertRoot(q, c) \/ InsertReply(q, c) PROVE Room'
    <3>1. req[q].at = "insert" /\ req'[q].at # "insert"
      BY <1>0, <2>3 DEF InsertRoot, InsertReply, At, End
    <3>2. Insert(c, req[q].marker, Nil, req[q].by) \/ Insert(c, req[q].marker, req[q].to, req[q].by)
      BY <2>3 DEF InsertRoot, InsertReply
    <3> QED BY <2>0, <3>1, <3>2, WritingHasRoom
  <2>4. CASE \/ \E u \in Users, k \in Markers, c \in Comments : ReadParent(q, u, k, c)
             \/ ReadRoot(q)
    <3>1. UNCHANGED <<post, recent>> /\ req'[q].at # "insert"
      BY <1>0, <2>4 DEF ReadParent, ReadRoot, rows
    <3> QED BY <1>1, <2>0, <3>1
  <2>5. CASE \/ \E u \in Users, c \in Comments : ReadToEdit(q, u, c) \/ ReadToRemove(q, u, c)
             \/ \E u \in Users, r, c \in Comments : StartAccept(q, u, r, c)
             \/ \E u \in Users, r \in Comments : StartUnaccept(q, u, r)
    <3>1. UNCHANGED <<post, recent>> /\ req'[q].at # "insert"
      BY <1>0, <2>5 DEF ReadToEdit, ReadToRemove, StartAccept, StartUnaccept, rows
    <3> QED BY <1>1, <2>0, <3>1
  <2>6. CASE FindReply(q) \/ Blank(q)
    <3>1. UNCHANGED <<post, recent>> /\ req'[q].at # "insert"
      <4>1. CASE FindReply(q)
        BY <1>0, <4>1 DEF FindReply, Goto, Request, rows
      <4>2. CASE Blank(q) /\ IsRoot(req[q].on)
        <5>1. req' = [req EXCEPT ![q] = Idle] /\ UNCHANGED <<post, recent>>
          BY <4>2 DEF Blank, End
        <5> QED BY <1>0, <5>1
      <4>3. CASE Blank(q) /\ ~IsRoot(req[q].on)
        BY <1>0, <4>3 DEF Blank, Goto, Request
      <4> QED BY <2>6, <4>1, <4>2, <4>3
    <3> QED BY <1>1, <2>0, <3>1
  <2>7. CASE NotifyReply(q) \/ Edit(q) \/ ClearAcceptance(q) \/ Resolve(q) \/ Refuse(q)
    <3>1. UNCHANGED <<post, recent>> /\ req'[q].at # "insert"
      BY <1>0, <2>7 DEF NotifyReply, Edit, ClearAcceptance, Resolve, Refuse, End, rows
    <3> QED BY <1>1, <2>0, <3>1
  <2> QED BY <1>2, <2>1, <2>2, <2>3, <2>4, <2>5, <2>6, <2>7 DEF StepOf
<1>3. ASSUME NEW c \in Comments, Age(c) PROVE Room'
  <2>1. \A u \in Users : PostsOf(u)' \subseteq PostsOf(u) /\ Passed(u)' = Passed(u)
    BY <1>3 DEF Age, PostsOf, Passed
  <2> QED BY <1>3, <2>1, LessIsRoom DEF Age
<1>4. CASE UNCHANGED vars
  <2>1. \A u \in Users : PostsOf(u)' = PostsOf(u) /\ Passed(u)' = Passed(u)
    BY <1>4 DEF vars, rows, PostsOf, Passed
  <2> QED BY <1>4, <2>1, LessIsRoom DEF vars, rows
<1> QED BY <1>2, <1>3, <1>4 DEF Next

(* However many requests post at once, a user's posts of the last minute   *)
(* pass the limit by less than the requests in flight (assertCanPost).     *)
THEOREM FloodHolds == Spec => []FloodIsBounded
<1>1. Init => Room
  <2> SUFFICES ASSUME Init PROVE Room
    OBVIOUS
  <2>1. recent = {} /\ \A q \in Requests : req[q].at # "insert"
    BY DEF Init, Idle
  <2>2. \A u \in Users : PostsOf(u) = {} /\ Passed(u) = {}
    BY <2>1 DEF PostsOf, Passed
  <2>3. Cardinality(Requests) \in Nat
    BY FS_CardinalityType, LimitAssumption
  <2> QED BY <2>1, <2>2, <2>3, FS_EmptySet, LimitAssumption DEF Room
<1>2. Room => FloodIsBounded
  <2> SUFFICES ASSUME Room, NEW u \in Users
               PROVE  Cardinality(PostsOf(u)) < PostsPerMinute + Cardinality(Requests)
    BY DEF FloodIsBounded
  <2> QED BY Finite DEF Room
<1> QED BY <1>1, <1>2, InvHolds, RoomStays, PTL DEF Spec
=============================================================================
