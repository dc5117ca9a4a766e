--------------------------- MODULE SearchProofs ---------------------------
(***************************************************************************)
(* Search, on the server and in the browser.                               *)
(*                                                                         *)
(* For any number of replicas, boots and builds, and whatever is cut       *)
(* short: search never answers from a partial build.  The second part, on  *)
(* the palette, starts at Palette.                                         *)
(*                                                                         *)
(* The argument is about Meilisearch's queue.  A staging index belongs to  *)
(* one boot.  As long as its rebuild can still swap, the only task queued  *)
(* for it is the one its replica waits for; once the replica gives up, no  *)
(* task it sends later comes before one it abandoned.  So a swap, also an  *)
(* abandoned one, finds its staging index exactly as it was when sent.     *)
(***************************************************************************)
EXTENDS SearchRebuild, SearchPalette, FiniteSetTheorems, TLAPS

Tk == 1..Len(queue)
Configured(b) == [settings |-> Settings[b], pages |-> [p \in Pages |-> Nil]]
Early == {"check", "count", "create", "stage", "settings", "documents", "swap"}

(* What a staging index holds before the step op of its rebuild. *)
Ready(op, s, b) ==
  /\ op = "settings" => index[s] = Empty
  /\ op = "documents" => index[s] = Configured(b)
  /\ op = "swap" => index[s] = Generation(b)

(* A staging index belongs to one boot. *)
Own ==
  /\ \A r \in Replicas : ~At(r, "off") => rep[r].staging \in 1..boots
  /\ \A r, q \in Replicas : ~At(r, "off") /\ ~At(q, "off") /\ rep[r].staging = rep[q].staging => r = q
  /\ \A i \in Tk : queue[i].staging \in 1..boots

(* A sender waits for one task, the one of its step. *)
Senders ==
  /\ \A i \in Tk : queue[i].sender # Nil =>
       LET x == rep[queue[i].sender] IN
       x.waits /\ x.at = queue[i].op /\ x.staging = queue[i].staging /\ x.build = queue[i].build
  /\ \A i, j \in Tk : queue[i].sender # Nil /\ queue[i].sender = queue[j].sender => i = j

(* While a rebuild can still swap, nothing abandoned waits for its staging index. *)
Alone ==
  \A r \in Replicas : rep[r].at \in Early =>
    /\ Ready(rep[r].at, rep[r].staging, rep[r].build)
    /\ \A i \in Tk : queue[i].staging = rep[r].staging => queue[i].sender = r

(* Nothing queued before a task that needs its staging index touches it. *)
Ordered ==
  \A i \in Tk :
    /\ Ready(queue[i].op, queue[i].staging, queue[i].build)
    /\ queue[i].op \in Early => \A j \in Tk : j < i => queue[j].staging # queue[i].staging

(* Whoever is about to record has swapped. *)
Swapped ==
  /\ \A r \in Replicas : rep[r].at \in {"delete", "record"} => Generation(rep[r].build) \in served
  /\ \A i \in Tk : queue[i].op \in {"delete", "record"} => Generation(queue[i].build) \in served

Structure == TypeOK /\ Own /\ Senders /\ Alone /\ Ordered /\ Swapped
Inv == Structure /\ LiveIsWhole /\ RecordedWasServed

-----------------------------------------------------------------------------
(* The shape of the queue after each way it changes. *)
LEMMA ForgetShape ==
  ASSUME queue \in Seq(Task), NEW rs, Forget(rs)
  PROVE /\ queue' \in Seq(Task) /\ Len(queue') = Len(queue)
        /\ \A i \in Tk : /\ queue'[i].op = queue[i].op /\ queue'[i].build = queue[i].build
                         /\ queue'[i].staging = queue[i].staging
                         /\ queue'[i].sender = IF queue[i].sender \in rs THEN Nil ELSE queue[i].sender
<1>1. \A i \in Tk : queue[i] \in Task
  BY DEF Tk
<1>2. DOMAIN queue = 1..Len(queue) /\ Len(queue) \in Nat
  OBVIOUS
<1>3. queue' = [i \in 1..Len(queue) |->
        IF queue[i].sender \in rs THEN [queue[i] EXCEPT !.sender = Nil] ELSE queue[i]]
  BY <1>2 DEF Forget
<1>4. \A i \in Tk : queue'[i] \in Task
  BY <1>1, <1>3 DEF Task, Tk
<1>5. queue' \in Seq(Task) /\ Len(queue') = Len(queue)
  BY <1>2, <1>3, <1>4 DEF Tk
<1> QED
  BY <1>1, <1>3, <1>5 DEF Task, Tk

LEMMA TailShape ==
  ASSUME queue \in Seq(Task), queue # <<>>, queue' = Tail(queue)
  PROVE /\ queue' \in Seq(Task) /\ Len(queue') = Len(queue) - 1 /\ Len(queue) \in Nat \ {0}
        /\ \A i \in 1..(Len(queue) - 1) : queue'[i] = queue[i + 1]
        /\ Head(queue) = queue[1] /\ queue[1] \in Task
  OBVIOUS

LEMMA AppendShape ==
  ASSUME queue \in Seq(Task), NEW t \in Task, queue' = Append(queue, t)
  PROVE /\ queue' \in Seq(Task) /\ Len(queue') = Len(queue) + 1 /\ Len(queue) \in Nat
        /\ \A i \in Tk : queue'[i] = queue[i]
        /\ queue'[Len(queue) + 1] = t
  BY DEF Tk

-----------------------------------------------------------------------------
(* Replicas that stop, or go on to discard or to record, and forget what   *)
(* they wait for.                                                          *)
LEMMA Leaving ==
  ASSUME Structure, NEW rs \in SUBSET Replicas, Forget(rs),
         rep' \in [Replicas -> Rebuilds],
         \A r \in Replicas \ rs : rep'[r] = rep[r],
         \A r \in rs : \/ rep'[r].at = "off"
                       \/ /\ rep'[r].at = "discard" \/ (rep'[r].at = "record" /\ rep[r].at = "delete")
                          /\ ~At(r, "off")
                          /\ rep'[r].staging = rep[r].staging /\ rep'[r].build = rep[r].build,
         UNCHANGED <<index, served, boots>>
  PROVE (Own /\ Senders /\ Alone /\ Ordered /\ Swapped)'
<1>1. /\ queue' \in Seq(Task) /\ Len(queue') = Len(queue)
      /\ \A i \in Tk : /\ queue'[i].op = queue[i].op /\ queue'[i].build = queue[i].build
                       /\ queue'[i].staging = queue[i].staging
                       /\ queue'[i].sender = IF queue[i].sender \in rs THEN Nil ELSE queue[i].sender
  BY ForgetShape DEF Structure, TypeOK
<1>2. Tk' = Tk
  BY <1>1 DEF Tk
<1>3. \A i \in Tk : queue[i] \in Task
  BY DEF Structure, TypeOK, Tk
<1>4. \A r \in Replicas : rep'[r].at \in Early => rep'[r] = rep[r] /\ r \notin rs
  BY DEF Early
<1>5. Own'
  BY <1>1, <1>2 DEF Structure, Own, At
<1>6. Senders'
  BY <1>1, <1>2, <1>3 DEF Structure, Senders, Task
<1>7. Alone'
  BY <1>1, <1>2, <1>4 DEF Structure, Alone, Ready
<1>8. Ordered'
  BY <1>1, <1>2 DEF Structure, Ordered, Ready, Early, Tk
<1>9. Swapped'
  BY <1>1, <1>2 DEF Structure, Swapped
<1> QED
  BY <1>5, <1>6, <1>7, <1>8, <1>9

(* Steps that leave the queue and the engine alone. *)
LEMMA Staying ==
  ASSUME Structure, UNCHANGED <<index, served, queue>>, boots' >= boots, boots \in Nat, boots' \in Nat,
         NEW r \in Replicas, \A q \in Replicas \ {r} : rep'[q] = rep[q],
         rep'[r].at \in {"off", "check", "count", "create"},
         rep'[r].at # "off" =>
           /\ rep'[r].staging \in 1..boots'
           /\ \/ rep[r].at \in {"check", "count"} /\ rep'[r].staging = rep[r].staging
              \/ rep'[r].staging > boots,
         rep[r].at \notin Tasks
  PROVE (Own /\ Senders /\ Alone /\ Ordered /\ Swapped)'
<1>1. Tk' = Tk
  BY DEF Tk
<1>2. \A i \in Tk : queue[i] \in Task
  BY DEF Structure, TypeOK, Tk
<1>3. \A i \in Tk : queue[i].sender # r
  BY <1>2, NilAssumption DEF Structure, Senders, Task
<1>4. Own'
  BY <1>1 DEF Structure, Own, At
<1>5. Senders'
  BY <1>1, <1>2, <1>3, NilAssumption DEF Structure, Senders, Task
<1>6. Alone'
  BY <1>1 DEF Structure, Alone, Own, Ready, Early, Tk
<1>7. Ordered'
  BY <1>1 DEF Structure, Ordered, Ready, Tk
<1>8. Swapped'
  BY <1>1 DEF Structure, Swapped
<1> QED
  BY <1>4, <1>5, <1>6, <1>7, <1>8

LEMMA Sending ==
  ASSUME Structure, NEW r \in Replicas, Send(r)
  PROVE Structure'
<1> DEFINE t == [op |-> rep[r].at, build |-> rep[r].build, staging |-> rep[r].staging, sender |-> r]
<1>1. rep[r] \in Rebuilds /\ ~At(r, "off") /\ rep[r].at \in Tasks /\ ~rep[r].waits
  BY DEF Structure, TypeOK, Send, At, Tasks
<1>2. rep[r].staging \in 1..boots /\ rep[r].staging \in Stagings
  <2>1. rep[r].staging \in 1..boots
    BY <1>1 DEF Structure, Own
  <2>2. boots \in 0..Boots /\ Boots \in Nat
    BY SizesAssumption DEF Structure, TypeOK
  <2> QED
    BY <2>1, <2>2 DEF Stagings
<1>3. t \in Task
  BY <1>1, <1>2 DEF Task, Rebuilds
<1> HIDE DEF t
<1>4. /\ queue' \in Seq(Task) /\ Len(queue') = Len(queue) + 1 /\ Len(queue) \in Nat
      /\ \A i \in Tk : queue'[i] = queue[i]
      /\ queue'[Len(queue) + 1] = t
  BY <1>3, AppendShape DEF Send, Structure, TypeOK, t
<1>5. Tk' = Tk \cup {Len(queue) + 1} /\ Tk \subseteq Int /\ \A i \in Tk : i < Len(queue) + 1
  BY <1>4 DEF Tk
<1>6. /\ rep' = [rep EXCEPT ![r].waits = TRUE]
      /\ UNCHANGED <<index, meta, served, current, rolling, boots, cut>>
  BY DEF Send, engine, world
<1>7. /\ t.op = rep[r].at /\ t.build = rep[r].build /\ t.staging = rep[r].staging /\ t.sender = r
  BY DEF t
<1>8. /\ rep'[r].waits /\ rep'[r].at = rep[r].at /\ rep'[r].staging = rep[r].staging
      /\ rep'[r].build = rep[r].build
      /\ \A q \in Replicas \ {r} : rep'[q] = rep[q]
      /\ rep' \in [Replicas -> Rebuilds]
  BY <1>1, <1>6 DEF Structure, TypeOK, Rebuilds
<1>9. \A i \in Tk : queue[i].sender # r
  BY <1>1, NilAssumption DEF Structure, Senders
<1>10. TypeOK'
  <2>1. Serving' = Serving
    BY <1>6 DEF Serving
  <2> QED
    BY <1>4, <1>6, <1>8, <2>1 DEF Structure, TypeOK
<1>11. Own'
  BY <1>2, <1>4, <1>5, <1>6, <1>7, <1>8 DEF Structure, Own, At
<1>12. Senders'
  <2>1. ASSUME NEW i \in Tk', queue'[i].sender # Nil
        PROVE LET x == rep'[queue'[i].sender] IN
              x.waits /\ x.at = queue'[i].op /\ x.staging = queue'[i].staging /\ x.build = queue'[i].build
    <3>1. CASE i \in Tk
      <4>1. queue'[i] = queue[i] /\ queue[i].sender # r /\ queue[i] \in Task
        BY <3>1, <1>4, <1>9 DEF Structure, TypeOK, Tk
      <4>2. rep'[queue[i].sender] = rep[queue[i].sender]
        BY <4>1, <2>1, <1>8 DEF Task
      <4> QED
        BY <3>1, <4>1, <4>2, <2>1 DEF Structure, Senders
    <3>2. CASE i = Len(queue) + 1
      BY <3>2, <1>4, <1>7, <1>8
    <3> QED
      BY <3>1, <3>2, <1>5
  <2>2. ASSUME NEW i \in Tk', NEW j \in Tk', queue'[i].sender # Nil, queue'[i].sender = queue'[j].sender
        PROVE i = j
    <3>1. CASE i \in Tk /\ j \in Tk
      <4>1. queue'[i] = queue[i] /\ queue'[j] = queue[j]
        BY <3>1, <1>4
      <4> QED
        BY <3>1, <4>1, <2>2 DEF Structure, Senders
    <3>2. CASE i = Len(queue) + 1 /\ j \in Tk
      BY <3>2, <2>2, <1>4, <1>7, <1>9
    <3>3. CASE i \in Tk /\ j = Len(queue) + 1
      BY <3>3, <2>2, <1>4, <1>7, <1>9
    <3> QED
      BY <3>1, <3>2, <3>3, <1>5
  <2> QED
    BY <2>1, <2>2 DEF Senders
<1>13. Alone'
  <2>1. ASSUME NEW q \in Replicas, rep'[q].at \in Early
        PROVE Ready(rep[q].at, rep[q].staging, rep[q].build)' /\
              \A i \in Tk' : queue'[i].staging = rep'[q].staging => queue'[i].sender = q
    <3>1. /\ rep[q].at \in Early /\ rep'[q].at = rep[q].at /\ rep'[q].staging = rep[q].staging
          /\ rep'[q].build = rep[q].build
      BY <2>1, <1>8
    <3>2. Ready(rep[q].at, rep[q].staging, rep[q].build)'
      BY <3>1, <1>6 DEF Structure, Alone, Ready
    <3>3. ~At(q, "off")
      BY <3>1 DEF At, Early
    <3>4. rep[r].staging = rep[q].staging => r = q
      BY <1>1, <3>3 DEF Structure, Own
    <3>5. \A i \in Tk' : queue'[i].staging = rep'[q].staging => queue'[i].sender = q
      BY <3>1, <3>4, <1>4, <1>5, <1>7 DEF Structure, Alone
    <3> QED
      BY <3>2, <3>5
  <2> QED
    BY <2>1 DEF Alone
<1>14. Ordered'
  <2>1. ASSUME NEW i \in Tk
        PROVE /\ Ready(queue[i].op, queue[i].staging, queue[i].build)'
              /\ queue'[i].op \in Early => \A j \in Tk' : j < i => queue'[j].staging # queue'[i].staging
    <3>1. queue'[i] = queue[i] /\ \A j \in Tk' : j < i => j \in Tk /\ queue'[j] = queue[j]
      BY <1>4, <1>5
    <3> QED
      BY <3>1, <1>6 DEF Structure, Ordered, Ready
  <2>2. Ready(rep[r].at, rep[r].staging, rep[r].build) \/ rep[r].at \notin Early
    BY DEF Structure, Alone
  <2>4. rep[r].at \in Early => \A j \in Tk : queue[j].staging # rep[r].staging
    BY <1>9 DEF Structure, Alone
  <2>5. queue'[Len(queue')].op \in Early =>
          \A j \in Tk' : j < Len(queue') => queue'[j].staging # queue'[Len(queue')].staging
    BY <2>4, <1>4, <1>5, <1>7
  <2>6. Ready(queue[Len(queue)].op, queue[Len(queue)].staging, queue[Len(queue)].build)'
    BY <2>2, <1>4, <1>6, <1>7 DEF Ready, Early
  <2>7. Tk' = Tk \cup {Len(queue')}
    BY <1>4, <1>5
  <2> QED
    BY <2>1, <2>5, <2>6, <2>7 DEF Ordered
<1>15. Swapped'
  BY <1>4, <1>5, <1>6, <1>7, <1>8 DEF Structure, Swapped
<1> QED
  BY <1>10, <1>11, <1>12, <1>13, <1>14, <1>15 DEF Structure

-----------------------------------------------------------------------------
(* The next task is run, or fails: its sender, if it still waits, goes on. *)
LEMMA Shifting ==
  ASSUME Structure, NEW next, queue # <<>>, queue' = Tail(queue), Reply(Head(queue), next),
         next \in {"off", "check", "count"} \cup Tasks, boots' = boots
  PROVE /\ queue' \in Seq(Task) /\ rep' \in [Replicas -> Rebuilds] /\ (Own /\ Senders)'
        /\ Len(queue') = Len(queue) - 1 /\ Len(queue) \in Nat \ {0}
        /\ \A i \in Tk' : i + 1 \in Tk /\ queue'[i] = queue[i + 1]
        /\ Head(queue) = queue[1] /\ queue[1] \in Task /\ 1 \in Tk
<1> DEFINE t == queue[1]
<1>1. /\ queue' \in Seq(Task) /\ Len(queue') = Len(queue) - 1 /\ Len(queue) \in Nat \ {0}
      /\ \A i \in 1..(Len(queue) - 1) : queue'[i] = queue[i + 1]
      /\ Head(queue) = queue[1] /\ queue[1] \in Task
  BY TailShape DEF Structure, TypeOK
<1>2. \A i \in Tk' : i + 1 \in Tk /\ queue'[i] = queue[i + 1]
  BY <1>1 DEF Tk
<1>3. 1 \in Tk
  BY <1>1 DEF Tk
<1>4. rep' \in [Replicas -> Rebuilds]
  <2>1. Off \in Rebuilds
    BY SizesAssumption DEF Off, Rebuilds, Builds
  <2>2. \A x \in Rebuilds : To(x, next) \in Rebuilds
    BY <2>1 DEF To, Rebuilds
  <2> QED
    BY <2>2, <1>1 DEF Reply, Structure, TypeOK, Task
<1>5. \A r \in Replicas : r # t.sender => rep'[r] = rep[r]
  BY <1>1 DEF Reply, Structure, TypeOK
<1>6. t.sender # Nil => rep'[t.sender] = To(rep[t.sender], next) /\ t.sender \in Replicas
  BY <1>1 DEF Reply, Structure, TypeOK, Task
<1>7. \A r \in Replicas : ~At(r, "off")' => ~At(r, "off") /\ rep'[r].staging = rep[r].staging
  <2>1. ASSUME NEW r \in Replicas, ~At(r, "off")', r = t.sender
        PROVE ~At(r, "off") /\ rep'[r].staging = rep[r].staging
    <3>1. r # Nil /\ rep[r].at = t.op /\ t.op \in Tasks /\ rep[r] \in Rebuilds
      BY <2>1, <1>1, <1>3, NilAssumption DEF Structure, Senders, TypeOK, Task
    <3> QED
      BY <2>1, <3>1, <1>6 DEF To, Off, At, Tasks, Rebuilds
  <2> QED
    BY <2>1, <1>5 DEF At
<1>8. Own'
  BY <1>2, <1>7 DEF Structure, Own
<1>9. Senders'
  <2>1. ASSUME NEW i \in Tk', queue'[i].sender # Nil
        PROVE queue'[i].sender # t.sender /\ queue'[i].sender \in Replicas
    <3>1. i + 1 # 1 /\ i + 1 \in Tk /\ queue'[i] = queue[i + 1] /\ queue[i + 1] \in Task
      BY <1>1, <1>2 DEF Tk, Structure, TypeOK
    <3>2. queue[i + 1].sender # t.sender
      BY <3>1, <2>1, <1>3 DEF Structure, Senders
    <3> QED
      BY <3>1, <3>2, <2>1 DEF Task
  <2>2. \A i \in Tk' : queue'[i].sender # Nil =>
          rep'[queue'[i].sender] = rep[queue[i + 1].sender] /\ queue'[i] = queue[i + 1] /\ i + 1 \in Tk
    BY <2>1, <1>2, <1>5
  <2>3. ASSUME NEW i \in Tk', NEW j \in Tk', queue'[i].sender # Nil, queue'[i].sender = queue'[j].sender
        PROVE i = j
    <3>1. /\ i + 1 \in Tk /\ queue'[i] = queue[i + 1]
          /\ j + 1 \in Tk /\ queue'[j] = queue[j + 1]
      BY <1>2
    <3>2. \A a, b \in Tk : queue[a].sender # Nil /\ queue[a].sender = queue[b].sender => a = b
      BY DEF Structure, Senders
    <3>3. queue[i + 1].sender # Nil /\ queue[i + 1].sender = queue[j + 1].sender
      BY <3>1, <2>3
    <3>4. i + 1 = j + 1
      BY <3>1, <3>2, <3>3
    <3> QED
      BY <3>4 DEF Tk
  <2>4. ASSUME NEW i \in Tk', queue'[i].sender # Nil
        PROVE LET x == rep'[queue'[i].sender] IN
              x.waits /\ x.at = queue'[i].op /\ x.staging = queue'[i].staging /\ x.build = queue'[i].build
    <3>1. /\ rep'[queue'[i].sender] = rep[queue[i + 1].sender] /\ queue'[i] = queue[i + 1] /\ i + 1 \in Tk
          /\ queue[i + 1].sender # Nil
      BY <2>2, <2>4
    <3>2. LET x == rep[queue[i + 1].sender] IN
          x.waits /\ x.at = queue[i + 1].op /\ x.staging = queue[i + 1].staging /\ x.build = queue[i + 1].build
      BY <3>1 DEF Structure, Senders
    <3> QED
      BY <3>1, <3>2
  <2> QED
    BY <2>3, <2>4 DEF Senders
<1> QED
  BY <1>1, <1>2, <1>3, <1>4, <1>8, <1>9

LEMMA Failing ==
  ASSUME Structure, TaskFails
  PROVE Structure'
<1> DEFINE t == queue[1]
<1>1. /\ queue # <<>> /\ queue' = Tail(queue) /\ Reply(Head(queue), Failed[Head(queue).op])
      /\ UNCHANGED <<index, meta, served, current, rolling, boots>> /\ cut' = cut + 1
  BY DEF TaskFails, engine, world
<1>2. Head(queue).op \in Tasks
  BY <1>1, TailShape DEF Structure, TypeOK, Task
<1>3. Failed[Head(queue).op] \in {"off", "discard", "record"}
  BY <1>2 DEF Failed, Tasks
<1>4. /\ queue' \in Seq(Task) /\ rep' \in [Replicas -> Rebuilds] /\ (Own /\ Senders)'
      /\ \A i \in Tk' : i + 1 \in Tk /\ queue'[i] = queue[i + 1]
      /\ Head(queue) = t /\ t \in Task /\ 1 \in Tk
  BY <1>1, <1>3, Shifting DEF Tasks
<1> HIDE DEF t
<1>5. \A r \in Replicas : r # t.sender => rep'[r] = rep[r]
  BY <1>1, <1>4 DEF Reply, Structure, TypeOK
<1>6. ASSUME NEW r \in Replicas, r = t.sender
      PROVE /\ rep'[r].at \notin Early
            /\ rep'[r].at \in {"delete", "record"} => rep'[r].at = "record" /\ rep[r].at = "delete" /\ rep'[r].build = rep[r].build
  <2>1. r # Nil /\ rep[r].at = t.op /\ t.op \in Tasks /\ rep[r] \in Rebuilds
    BY <1>4, <1>6, NilAssumption DEF Structure, Senders, TypeOK, Task, t
  <2>2. rep'[r] = To(rep[r], Failed[t.op])
    BY <1>1, <1>4, <1>6, <2>1 DEF Reply, Structure, TypeOK
  <2> QED
    BY <2>1, <2>2 DEF To, Off, Failed, Tasks, Early, Rebuilds
<1>7. TypeOK'
  <2>1. Serving' = Serving
    BY <1>1 DEF Serving
  <2> QED
    BY <1>1, <1>4, <2>1 DEF Structure, TypeOK
<1>8. Alone'
  <2>1. ASSUME NEW r \in Replicas, rep'[r].at \in Early
        PROVE /\ Ready(rep[r].at, rep[r].staging, rep[r].build)'
              /\ \A i \in Tk' : queue'[i].staging = rep'[r].staging => queue'[i].sender = r
    <3>1. rep'[r] = rep[r]
      BY <2>1, <1>5, <1>6
    <3>2. /\ Ready(rep[r].at, rep[r].staging, rep[r].build)
          /\ \A i \in Tk : queue[i].staging = rep[r].staging => queue[i].sender = r
      BY <2>1, <3>1 DEF Structure, Alone
    <3> QED
      BY <3>1, <3>2, <1>1, <1>4 DEF Ready
  <2> QED
    BY <2>1 DEF Alone
<1>9. Ordered'
  <2>1. ASSUME NEW i \in Tk'
        PROVE /\ Ready(queue[i].op, queue[i].staging, queue[i].build)'
              /\ queue'[i].op \in Early => \A j \in Tk' : j < i => queue'[j].staging # queue'[i].staging
    <3>1. i + 1 \in Tk /\ queue'[i] = queue[i + 1]
      BY <1>4
    <3>2. \A j \in Tk' : j < i => j + 1 < i + 1 /\ j + 1 \in Tk /\ queue'[j] = queue[j + 1]
      BY <1>4 DEF Tk
    <3>3. /\ Ready(queue[i + 1].op, queue[i + 1].staging, queue[i + 1].build)
          /\ queue[i + 1].op \in Early => \A j \in Tk : j < i + 1 => queue[j].staging # queue[i + 1].staging
      BY <3>1 DEF Structure, Ordered
    <3>4. Ready(queue[i].op, queue[i].staging, queue[i].build)'
      BY <3>1, <3>3, <1>1 DEF Ready
    <3>5. queue'[i].op \in Early => \A j \in Tk' : j < i => queue'[j].staging # queue'[i].staging
      BY <3>1, <3>2, <3>3
    <3> QED
      BY <3>4, <3>5
  <2> QED
    BY <2>1 DEF Ordered
<1>10. Swapped'
  BY <1>1, <1>4, <1>5, <1>6 DEF Structure, Swapped
<1> QED
  BY <1>4, <1>7, <1>8, <1>9, <1>10 DEF Structure

LEMMA Shapes ==
  /\ Empty \in Indexes
  /\ \A b \in Builds : /\ Generation(b) \in Indexes /\ Configured(b) \in Indexes
                       /\ [Empty EXCEPT !.settings = Settings[b]] = Configured(b)
                       /\ Put(Configured(b), b) = Generation(b)
<1>1. Empty \in Indexes
  BY DEF Empty, Indexes
<1>2. ASSUME NEW b \in Builds
      PROVE Generation(b) \in Indexes /\ Configured(b) \in Indexes
  <2>1. Content[b] = [p \in Pages |-> Content[b][p]]
    BY ContentAssumption
  <2>2. Content[b] \in [Pages -> {Content[c][p] : c \in Builds, p \in Pages} \cup {Nil}]
    BY <2>1
  <2> QED
    BY <2>2 DEF Generation, Configured, Indexes
<1>3. ASSUME NEW b \in Builds
      PROVE [Empty EXCEPT !.settings = Settings[b]] = Configured(b)
  BY DEF Empty, Configured
<1>4. ASSUME NEW b \in Builds
      PROVE Put(Configured(b), b) = Generation(b)
  <2> DEFINE none == [p \in Pages |-> Nil]
             all == [p \in Pages |-> IF Content[b][p] # Nil THEN Content[b][p] ELSE Configured(b).pages[p]]
  <2>1. all = [p \in Pages |-> Content[b][p]]
    BY DEF Configured
  <2>2. all = Content[b]
    BY <2>1, ContentAssumption
  <2>3. Put(Configured(b), b) = [Configured(b) EXCEPT !.pages = all]
    BY DEF Put
  <2> HIDE DEF all
  <2>4. [Configured(b) EXCEPT !.pages = all] = [settings |-> Settings[b], pages |-> all]
    BY DEF Configured
  <2> QED
    BY <2>2, <2>3, <2>4 DEF Generation
<1> QED
  BY <1>1, <1>2, <1>3, <1>4

(* What a task that finds its staging index ready does to the indexes. *)
LEMMA Effects ==
  ASSUME Structure, NEW t \in Task, Ready(t.op, t.staging, t.build), index' = After(t)
  PROVE /\ index' \in [{Live} \cup Stagings -> Indexes \cup {Nil}]
        /\ \A i \in Stagings : i # t.staging => index'[i] = index[i]
        /\ t.op \notin {"create", "swap"} => index'[Live] = index[Live]
        /\ t.op = "create" => index'[Live] = IF index[Live] = Nil THEN Empty ELSE index[Live]
        /\ t.op = "stage" => index'[t.staging] = Empty
        /\ t.op = "settings" => index'[t.staging] = Configured(t.build)
        /\ t.op = "documents" => index'[t.staging] = Generation(t.build)
        /\ t.op = "swap" => index'[Live] = Generation(t.build) /\ After(t)[Live] = Generation(t.build)
<1> DEFINE s == t.staging
           b == t.build
<1>1. s \in Stagings /\ b \in Builds /\ t.op \in Tasks
  BY DEF Task
<1>2. Live \notin Stagings
  BY DEF Live, Stagings
<1>3. index \in [{Live} \cup Stagings -> Indexes \cup {Nil}]
  BY DEF Structure, TypeOK
<1> HIDE DEF s, b
<1>4. CASE t.op = "create"
  <2>1. index' = [index EXCEPT ![Live] = Create(index[Live])]
    BY <1>4 DEF After
  <2> QED
    BY <2>1, <1>1, <1>2, <1>3, <1>4, Shapes DEF Create, s
<1>5. CASE t.op = "stage"
  <2>1. index' = [index EXCEPT ![s] = Empty]
    BY <1>5 DEF After, s
  <2> QED
    BY <2>1, <1>1, <1>2, <1>3, <1>5, Shapes DEF s
<1>6. CASE t.op = "settings"
  <2>1. index' = [index EXCEPT ![s] = [index[s] EXCEPT !.settings = Settings[b]]]
    BY <1>6 DEF After, s, b
  <2>2. [index[s] EXCEPT !.settings = Settings[b]] = Configured(b)
    <3>1. index[s] = Empty
      BY <1>6 DEF Ready, s
    <3> QED
      BY <3>1, <1>1, Shapes
  <2>3. index' = [index EXCEPT ![s] = Configured(b)]
    BY <2>1, <2>2
  <2> QED
    BY <2>3, <1>1, <1>2, <1>3, <1>6, Shapes DEF s, b
<1>7. CASE t.op = "documents"
  <2>1. index' = [index EXCEPT ![s] = Put(index[s], b)]
    BY <1>7 DEF After, s, b
  <2>2. Put(index[s], b) = Generation(b)
    <3>1. index[s] = Configured(b)
      BY <1>7 DEF Ready, s, b
    <3> QED
      BY <3>1, <1>1, Shapes
  <2>3. index' = [index EXCEPT ![s] = Generation(b)]
    BY <2>1, <2>2
  <2> QED
    BY <2>3, <1>1, <1>2, <1>3, <1>7, Shapes DEF s, b
<1>8. CASE t.op = "swap"
  <2>1. After(t) = [index EXCEPT ![Live] = index[s], ![s] = index[Live]]
    BY <1>8 DEF After, s
  <2>2. index[s] = Generation(b)
    BY <1>8 DEF Ready, s, b
  <2> QED
    BY <2>1, <2>2, <1>1, <1>2, <1>3, <1>8, Shapes DEF s, b
<1>9. CASE t.op \in {"delete", "discard"}
  <2>1. index' = [index EXCEPT ![s] = Nil]
    BY <1>9 DEF After, s
  <2> QED
    BY <2>1, <1>1, <1>2, <1>3, <1>9 DEF s
<1>10. CASE t.op = "record"
  BY <1>2, <1>3, <1>10 DEF After
<1> QED
  BY <1>1, <1>4, <1>5, <1>6, <1>7, <1>8, <1>9, <1>10 DEF Tasks

LEMMA Running ==
  ASSUME Inv, NextTask
  PROVE /\ Inv'
        /\ index[Live] \in Generations => index'[Live] \in Generations
<1> DEFINE t == queue[1]
<1> USE DEF Inv
<1>1. /\ queue # <<>> /\ queue' = Tail(queue) /\ Reply(Head(queue), Done[Head(queue).op])
      /\ index' = After(Head(queue))
      /\ meta' = IF Head(queue).op = "record" THEN Generation(Head(queue).build) ELSE meta
      /\ served' = IF Head(queue).op = "swap" THEN served \cup {After(Head(queue))[Live]} ELSE served
      /\ UNCHANGED <<current, rolling, boots, cut>>
  BY DEF NextTask, Outcome, world
<1>2. Head(queue).op \in Tasks
  BY <1>1, TailShape DEF Structure, TypeOK, Task
<1>3. Done[Head(queue).op] \in {"off"} \cup Tasks
  BY <1>2 DEF Done, Tasks
<1>4. /\ queue' \in Seq(Task) /\ rep' \in [Replicas -> Rebuilds] /\ (Own /\ Senders)'
      /\ \A i \in Tk' : i + 1 \in Tk /\ queue'[i] = queue[i + 1]
      /\ Head(queue) = t /\ t \in Task /\ 1 \in Tk
  BY <1>1, <1>3, Shifting
<1> HIDE DEF t
<1>5. Ready(t.op, t.staging, t.build) /\ t.staging \in 1..boots
  BY <1>4 DEF Structure, Ordered, Own, t
<1>6. /\ index' \in [{Live} \cup Stagings -> Indexes \cup {Nil}]
      /\ \A i \in Stagings : i # t.staging => index'[i] = index[i]
      /\ t.op \notin {"create", "swap"} => index'[Live] = index[Live]
      /\ t.op = "create" => index'[Live] = IF index[Live] = Nil THEN Empty ELSE index[Live]
      /\ t.op = "stage" => index'[t.staging] = Empty
      /\ t.op = "settings" => index'[t.staging] = Configured(t.build)
      /\ t.op = "documents" => index'[t.staging] = Generation(t.build)
      /\ t.op = "swap" => index'[Live] = Generation(t.build) /\ After(t)[Live] = Generation(t.build)
  BY <1>1, <1>4, <1>5, Effects
<1>7. t.build \in Builds /\ Generation(t.build) \in Generations /\ Nil \notin Generations
  BY <1>4, NilAssumption DEF Task, Generations
<1>8. served' = (IF t.op = "swap" THEN served \cup {Generation(t.build)} ELSE served)
  BY <1>1, <1>4, <1>6
<1>9. \A r \in Replicas : r # t.sender => rep'[r] = rep[r]
  BY <1>1, <1>4 DEF Reply, Structure, TypeOK
<1>10. ASSUME NEW r \in Replicas, r = t.sender
       PROVE /\ rep[r].at = t.op /\ rep[r].staging = t.staging /\ rep[r].build = t.build
             /\ rep'[r].at = Done[t.op]
             /\ rep'[r].at # "off" => rep'[r].staging = t.staging /\ rep'[r].build = t.build
             /\ t.op \in Tasks
  <2>1. r # Nil
    BY NilAssumption
  <2>2. rep[r].at = t.op /\ rep[r].staging = t.staging /\ rep[r].build = t.build
    BY <2>1, <1>4, <1>10 DEF Structure, Senders, t
  <2>3. rep'[r] = To(rep[r], Done[t.op])
    BY <2>1, <1>1, <1>4, <1>10 DEF Reply, Structure, TypeOK
  <2> QED
    BY <2>2, <2>3, <1>2, <1>4 DEF To, Off
<1>11. TypeOK'
  <2>1. Serving' = Serving
    BY <1>1 DEF Serving
  <2>2. meta' \in Generations \cup {Nil} /\ served' \in SUBSET (Indexes \cup {Nil})
    BY <1>1, <1>4, <1>7, <1>8, Shapes DEF Structure, TypeOK
  <2> QED
    BY <1>1, <1>4, <1>6, <2>1, <2>2 DEF Structure, TypeOK
<1>12. Alone'
  <2>1. ASSUME NEW r \in Replicas, rep'[r].at \in Early, r # t.sender
        PROVE /\ Ready(rep[r].at, rep[r].staging, rep[r].build)'
              /\ \A i \in Tk' : queue'[i].staging = rep'[r].staging => queue'[i].sender = r
    <3>1. rep'[r] = rep[r] /\ ~At(r, "off")
      BY <2>1, <1>9 DEF At, Early
    <3>2. /\ Ready(rep[r].at, rep[r].staging, rep[r].build)
          /\ \A i \in Tk : queue[i].staging = rep[r].staging => queue[i].sender = r
      BY <2>1, <3>1 DEF Structure, Alone
    <3>3. t.staging # rep[r].staging
      BY <3>2, <2>1, <1>4 DEF t
    <3>4. rep[r].staging \in Stagings
      BY <3>1, SizesAssumption DEF Structure, Own, TypeOK, Stagings
    <3>5. index'[rep[r].staging] = index[rep[r].staging]
      BY <3>3, <3>4, <1>6
    <3> QED
      BY <3>1, <3>2, <3>5, <1>4 DEF Ready
  <2>2. ASSUME NEW r \in Replicas, rep'[r].at \in Early, r = t.sender
        PROVE /\ Ready(rep[r].at, rep[r].staging, rep[r].build)'
              /\ \A i \in Tk' : queue'[i].staging = rep'[r].staging => queue'[i].sender = r
    <3>1. /\ rep[r].at = t.op /\ rep[r].staging = t.staging /\ rep[r].build = t.build
          /\ rep'[r].at = Done[t.op] /\ t.op \in Tasks
          /\ rep'[r].staging = t.staging /\ rep'[r].build = t.build
      BY <2>2, <1>10 DEF Early
    <3>2. t.op \in {"create", "stage", "settings", "documents"}
      BY <3>1, <2>2 DEF Done, Tasks, Early
    <3>3. \A i \in Tk : queue[i].staging = rep[r].staging => queue[i].sender = r
      BY <3>1, <3>2 DEF Structure, Alone, Early
    <3>4. Ready(rep[r].at, rep[r].staging, rep[r].build)'
      BY <3>1, <3>2, <1>6 DEF Ready, Done
    <3> QED
      BY <3>1, <3>3, <3>4, <1>4
  <2> QED
    BY <2>1, <2>2 DEF Alone
<1>13. Ordered'
  <2>1. ASSUME NEW i \in Tk'
        PROVE /\ Ready(queue[i].op, queue[i].staging, queue[i].build)'
              /\ queue'[i].op \in Early => \A j \in Tk' : j < i => queue'[j].staging # queue'[i].staging
    <3>1. i + 1 \in Tk /\ queue'[i] = queue[i + 1] /\ 1 < i + 1 /\ queue[i + 1] \in Task
      BY <1>4 DEF Tk, Structure, TypeOK
    <3>2. \A j \in Tk' : j < i => j + 1 < i + 1 /\ j + 1 \in Tk /\ queue'[j] = queue[j + 1]
      BY <1>4 DEF Tk
    <3>3. /\ Ready(queue[i + 1].op, queue[i + 1].staging, queue[i + 1].build)
          /\ queue[i + 1].op \in Early => \A j \in Tk : j < i + 1 => queue[j].staging # queue[i + 1].staging
      BY <3>1 DEF Structure, Ordered
    <3>4. Ready(queue[i].op, queue[i].staging, queue[i].build)'
      <4>1. CASE queue[i + 1].op \in Early
        <5>1. t.staging # queue[i + 1].staging
          BY <4>1, <3>1, <3>3, <1>4 DEF t
        <5>2. index'[queue[i + 1].staging] = index[queue[i + 1].staging]
          BY <5>1, <3>1, <1>6 DEF Task
        <5> QED
          BY <5>2, <3>1, <3>3 DEF Ready
      <4>2. CASE queue[i + 1].op \notin Early
        BY <4>2, <3>1 DEF Ready, Early
      <4> QED
        BY <4>1, <4>2
    <3>5. queue'[i].op \in Early => \A j \in Tk' : j < i => queue'[j].staging # queue'[i].staging
      BY <3>1, <3>2, <3>3
    <3> QED
      BY <3>4, <3>5
  <2> QED
    BY <2>1 DEF Ordered
<1>14. Swapped'
  <2>1. ASSUME NEW r \in Replicas, rep'[r].at \in {"delete", "record"}
        PROVE Generation(rep'[r].build) \in served'
    <3>1. CASE r # t.sender
      BY <3>1, <2>1, <1>8, <1>9 DEF Structure, Swapped
    <3>2. CASE r = t.sender
      <4>1. /\ rep[r].at = t.op /\ rep[r].build = t.build /\ rep'[r].build = t.build
            /\ rep'[r].at = Done[t.op] /\ t.op \in Tasks
        BY <3>2, <2>1, <1>10
      <4>2. t.op \in {"swap", "delete"}
        BY <4>1, <2>1 DEF Done, Tasks
      <4> QED
        BY <4>1, <4>2, <1>8 DEF Structure, Swapped
    <3> QED
      BY <3>1, <3>2
  <2>2. \A i \in Tk' : queue'[i].op \in {"delete", "record"} => Generation(queue'[i].build) \in served'
    BY <1>4, <1>8 DEF Structure, Swapped
  <2> QED
    BY <2>1, <2>2 DEF Swapped
<1>15. LiveIsWhole'
  BY <1>6, <1>7 DEF LiveIsWhole
<1>16. RecordedWasServed'
  <2>1. t.op = "record" => Generation(t.build) \in served
    BY <1>4 DEF Structure, Swapped, t
  <2> QED
    BY <2>1, <1>1, <1>4, <1>8 DEF RecordedWasServed
<1>17. index[Live] \in Generations => index'[Live] \in Generations
  BY <1>6, <1>7
<1> QED
  BY <1>4, <1>11, <1>12, <1>13, <1>14, <1>15, <1>16, <1>17 DEF Structure

-----------------------------------------------------------------------------
LEMMA InitInv == Init => Inv
<1> SUFFICES ASSUME Init PROVE Inv
  OBVIOUS
<1>1. Tk = {} /\ queue \in Seq(Task)
  BY DEF Init, Tk
<1>2. Off \in Rebuilds /\ Off.at = "off" /\ current \in Builds /\ Serving \subseteq Builds
  BY SizesAssumption DEF Init, Off, Rebuilds, Builds, Serving
<1>3. TypeOK
  <2>1. index \in [{Live} \cup Stagings -> Indexes \cup {Nil}] /\ rep \in [Replicas -> Rebuilds]
    BY <1>2 DEF Init
  <2>2. boots \in 0..Boots /\ cut \in Nat /\ rolling \in BOOLEAN
    <3>1. Boots \in Nat
      BY SizesAssumption
    <3>2. boots = 0
      BY DEF Init
    <3>3. cut = 0
      BY DEF Init
    <3>4. rolling = FALSE
      BY DEF Init
    <3>5. boots \in 0..Boots /\ cut \in Nat
      BY <3>1, <3>2, <3>3
    <3> QED
      BY <3>4, <3>5
  <2>3. meta \in Generations \cup {Nil} /\ served \in SUBSET (Indexes \cup {Nil})
    BY DEF Init
  <2> QED
    BY <1>1, <1>2, <2>1, <2>2, <2>3 DEF TypeOK
<1>4. \A r \in Replicas : rep[r].at = "off"
  BY <1>2 DEF Init
<1>5. Own /\ Senders /\ Alone /\ Ordered /\ Swapped
  BY <1>1, <1>4 DEF Own, Senders, Alone, Ordered, Swapped, At, Early
<1>6. LiveIsWhole /\ RecordedWasServed
  BY DEF Init, LiveIsWhole, RecordedWasServed
<1> QED
  BY <1>3, <1>5, <1>6 DEF Inv, Structure

(* What is left of a step's type once the queue and the replicas have theirs. *)
LEMMA Typed ==
  ASSUME TypeOK, queue' \in Seq(Task), rep' \in [Replicas -> Rebuilds], UNCHANGED engine,
         boots' \in 0..Boots, cut' \in Nat,
         \/ UNCHANGED <<current, rolling>>
         \/ rolling' = TRUE /\ current' = current /\ current < LastBuild
         \/ rolling /\ rolling' = FALSE /\ current' = current + 1
  PROVE TypeOK'
<1>1. /\ UNCHANGED <<index, meta, served>>
      /\ current \in Nat /\ LastBuild \in Nat /\ Serving \subseteq Builds
  BY SizesAssumption DEF TypeOK, engine, Builds
<1>2. Serving' \subseteq Builds /\ current' \in Builds /\ rolling' \in BOOLEAN
  <2>1. CASE UNCHANGED <<current, rolling>>
    BY <2>1 DEF TypeOK, Serving
  <2>2. CASE rolling' = TRUE /\ current' = current /\ current < LastBuild
    BY <2>2, <1>1 DEF TypeOK, Serving, Builds
  <2>3. CASE rolling /\ rolling' = FALSE /\ current' = current + 1
    <3>1. Serving = current..(current + 1) /\ Serving' = (current + 1)..(current + 1)
      BY <2>3 DEF Serving
    <3>2. current + 1 \in Builds
      BY <3>1, <1>1
    <3>3. \A i \in (current + 1)..(current + 1) : i = current + 1
      BY <1>1
    <3> QED
      BY <2>3, <3>1, <3>2, <3>3
  <2> QED
    BY <2>1, <2>2, <2>3
<1> QED
  BY <1>1, <1>2 DEF TypeOK

LEMMA NextInv == Inv /\ [Next]_vars => Inv' /\ (index[Live] \in Generations => index'[Live] \in Generations)
<1> SUFFICES ASSUME Inv, [Next]_vars
             PROVE Inv' /\ (index[Live] \in Generations => index'[Live] \in Generations)
  OBVIOUS
<1>1. Structure /\ TypeOK /\ LiveIsWhole /\ RecordedWasServed
  BY DEF Inv, Structure
<1> SUFFICES ASSUME ~NextTask
             PROVE Structure' /\ UNCHANGED <<index, meta, served>> 
  BY Running, <1>1 DEF Inv, LiveIsWhole, RecordedWasServed
<1>2. rep \in [Replicas -> Rebuilds] /\ queue \in Seq(Task) /\ boots \in Nat /\ cut \in Nat /\ Boots \in Nat
      /\ boots \in 0..Boots
  BY <1>1, SizesAssumption DEF TypeOK
<1>3. Off \in Rebuilds /\ Off.at = "off"
  BY SizesAssumption DEF Off, Rebuilds, Builds
<1>4. ASSUME NEW r \in Replicas, Boot(r)
      PROVE Structure' /\ UNCHANGED <<index, meta, served>>
  <2>1. /\ UNCHANGED <<engine, queue, current, rolling, cut>> /\ UNCHANGED <<index, meta, served>>
        /\ boots' = boots + 1 /\ boots < Boots
    BY <1>4 DEF Boot, engine
  <2>2. PICK b \in Serving : rep' = [rep EXCEPT ![r] =
          [at |-> "check", build |-> b, staging |-> boots + 1, waits |-> FALSE]]
    BY <1>4 DEF Boot
  <2>3. [at |-> "check", build |-> b, staging |-> boots + 1, waits |-> FALSE] \in Rebuilds
    BY <1>1, <1>2, <2>1 DEF Rebuilds, TypeOK, Stagings
  <2>4. /\ rep' \in [Replicas -> Rebuilds] /\ \A q \in Replicas \ {r} : rep'[q] = rep[q]
        /\ rep'[r].at = "check" /\ rep'[r].staging = boots + 1
    BY <1>2, <2>2, <2>3
  <2>5. rep[r].at \notin Tasks
    BY <1>4 DEF Boot, At, Tasks
  <2>6. boots' \in 0..Boots /\ boots' \in Nat /\ boots' >= boots /\ boots + 1 \in 1..boots' /\ boots + 1 > boots
    BY <1>2, <2>1
  <2>7. TypeOK'
    BY <1>1, <1>2, <2>1, <2>4, <2>6, Typed
  <2>8. (Own /\ Senders /\ Alone /\ Ordered /\ Swapped)'
    BY <1>1, <1>2, <2>1, <2>4, <2>5, <2>6, Staying
  <2> QED
    BY <2>1, <2>7, <2>8 DEF Structure
<1>5. ASSUME NEW r \in Replicas, ReadFingerprint(r) \/ ReadCount(r)
      PROVE Structure' /\ UNCHANGED <<index, meta, served>>
  <2>1. UNCHANGED <<engine, queue, world, cut>> /\ UNCHANGED <<index, meta, served, boots, current, rolling>>
    BY <1>5 DEF ReadFingerprint, ReadCount, engine, world
  <2>2. PICK x \in {Off, [rep[r] EXCEPT !.at = "count"], [rep[r] EXCEPT !.at = "create"]} :
          rep' = [rep EXCEPT ![r] = x]
    BY <1>5 DEF ReadFingerprint, ReadCount, Rebuild
  <2>3. rep[r] \in Rebuilds /\ rep[r].at \in {"check", "count"}
    BY <1>2, <1>5 DEF ReadFingerprint, ReadCount, At
  <2>4. /\ x \in Rebuilds /\ x.at \in {"off", "count", "create"}
        /\ x.at # "off" => x.staging = rep[r].staging
    BY <1>3, <2>2, <2>3 DEF Rebuilds, Tasks
  <2>5. rep' \in [Replicas -> Rebuilds] /\ rep'[r] = x /\ \A q \in Replicas \ {r} : rep'[q] = rep[q]
    BY <1>2, <2>2, <2>4
  <2>6. TypeOK'
    BY <1>1, <1>2, <2>1, <2>5, Typed
  <2>7. rep[r].at \notin Tasks /\ rep[r].staging \in 1..boots'
    BY <1>1, <2>1, <2>3 DEF Structure, Own, At, Tasks
  <2>8. (Own /\ Senders /\ Alone /\ Ordered /\ Swapped)'
    BY <1>1, <1>2, <2>1, <2>3, <2>4, <2>5, <2>7, Staying
  <2> QED
    BY <2>1, <2>6, <2>8 DEF Structure
<1>6. ASSUME NEW r \in Replicas, Send(r)
      PROVE Structure' /\ UNCHANGED <<index, meta, served>>
  BY <1>1, <1>6, Sending DEF Send, engine
<1>7. ASSUME NEW r \in Replicas, GiveUp(r)
      PROVE Structure' /\ UNCHANGED <<index, meta, served>>
  <2>1. /\ UNCHANGED <<engine, world>> /\ UNCHANGED <<index, meta, served, boots, current, rolling>>
        /\ cut' = cut + 1 /\ Forget({r}) /\ rep' = [rep EXCEPT ![r] = To(rep[r], Failed[rep[r].at])]
        /\ rep[r].at \in Tasks /\ rep[r] \in Rebuilds
    BY <1>2, <1>7 DEF GiveUp, engine, world
  <2> DEFINE x == To(rep[r], Failed[rep[r].at])
  <2>2. /\ x \in Rebuilds
        /\ \/ x.at = "off"
           \/ /\ x.at = "discard" \/ (x.at = "record" /\ rep[r].at = "delete")
              /\ x.staging = rep[r].staging /\ x.build = rep[r].build
    BY <2>1, <1>3 DEF To, Failed, Tasks, Rebuilds
  <2> HIDE DEF x
  <2>3. rep' \in [Replicas -> Rebuilds] /\ rep'[r] = x /\ \A q \in Replicas \ {r} : rep'[q] = rep[q]
    BY <1>2, <2>1, <2>2 DEF x
  <2>4. queue' \in Seq(Task)
    BY <1>2, <2>1, ForgetShape
  <2>5. TypeOK'
    BY <1>1, <1>2, <2>1, <2>3, <2>4, Typed
  <2>6. ~At(r, "off")
    BY <2>1 DEF At, Tasks
  <2>7. (Own /\ Senders /\ Alone /\ Ordered /\ Swapped)'
    BY <1>1, <2>1, <2>2, <2>3, <2>6, Leaving
  <2> QED
    BY <2>1, <2>5, <2>7 DEF Structure
<1>8. ASSUME NEW r \in Replicas, Crash(r)
      PROVE Structure' /\ UNCHANGED <<index, meta, served>>
  <2>1. /\ UNCHANGED <<engine, world>> /\ UNCHANGED <<index, meta, served, boots, current, rolling>>
        /\ cut' = cut + 1 /\ Forget({r}) /\ rep' = [rep EXCEPT ![r] = Off]
    BY <1>8 DEF Crash, engine, world
  <2>2. rep' \in [Replicas -> Rebuilds] /\ rep'[r].at = "off" /\ \A q \in Replicas \ {r} : rep'[q] = rep[q]
    BY <1>2, <1>3, <2>1
  <2>3. queue' \in Seq(Task)
    BY <1>2, <2>1, ForgetShape
  <2>4. TypeOK'
    BY <1>1, <1>2, <2>1, <2>2, <2>3, Typed
  <2>5. (Own /\ Senders /\ Alone /\ Ordered /\ Swapped)'
    BY <1>1, <2>1, <2>2, Leaving
  <2> QED
    BY <2>1, <2>4, <2>5 DEF Structure
<1>9. CASE TaskFails
  BY <1>1, <1>9, Failing DEF TaskFails, engine
<1>10. CASE Deploy
  <2>1. /\ UNCHANGED <<engine, queue, rep, current, boots, cut>> /\ UNCHANGED <<index, meta, served>>
        /\ rolling' = TRUE /\ current < LastBuild
    BY <1>10 DEF Deploy, engine
  <2>2. TypeOK'
    BY <1>1, <1>2, <2>1, Typed
  <2>3. Tk' = Tk
    BY <2>1 DEF Tk
  <2>4. Own' /\ Senders' /\ Alone' /\ Ordered' /\ Swapped'
    BY <1>1, <2>1, <2>3 DEF Structure, Own, Senders, Alone, Ordered, Swapped, Ready, At
  <2> QED
    BY <2>1, <2>2, <2>4 DEF Structure
<1>11. CASE StopOld
  <2>1. /\ UNCHANGED <<engine, boots>> /\ UNCHANGED <<index, meta, served>>
        /\ rolling /\ rolling' = FALSE /\ current' = current + 1
        /\ rep' = [r \in Replicas |-> IF r \in Old THEN Off ELSE rep[r]]
        /\ Forget(Old) /\ cut' = cut + Cardinality(Old)
    BY <1>11 DEF StopOld, engine
  <2>2. Old \in SUBSET Replicas
    BY DEF Old
  <2>3. Cardinality(Old) \in Nat
    BY <2>2, SizesAssumption, FS_Subset, FS_CardinalityType
  <2>4. /\ rep' \in [Replicas -> Rebuilds] /\ \A r \in Old : rep'[r].at = "off"
        /\ \A r \in Replicas \ Old : rep'[r] = rep[r]
    BY <1>2, <1>3, <2>1, <2>2
  <2>5. queue' \in Seq(Task)
    BY <1>2, <2>1, ForgetShape
  <2>6. cut' \in Nat
    BY <1>2, <2>1, <2>3
  <2>7. TypeOK'
    BY <1>1, <1>2, <2>1, <2>4, <2>5, <2>6, Typed
  <2>8. (Own /\ Senders /\ Alone /\ Ordered /\ Swapped)'
    BY <1>1, <2>1, <2>2, <2>4, Leaving
  <2> QED
    BY <2>1, <2>7, <2>8 DEF Structure
<1>12. CASE UNCHANGED vars
  <2>1. UNCHANGED <<index, meta, served, queue, rep, current, rolling, boots, cut>>
    BY <1>12 DEF vars, engine, world
  <2>2. Tk' = Tk /\ Serving' = Serving
    BY <2>1 DEF Tk, Serving
  <2> QED
    BY <1>1, <2>1, <2>2 DEF Structure, TypeOK, Own, Senders, Alone, Ordered, Swapped, Ready, At
<1> QED
  BY <1>4, <1>5, <1>6, <1>7, <1>8, <1>9, <1>10, <1>11, <1>12 DEF Next, StepOf

(* The inductive invariant: who owns a staging index, what waits for it in
   the queue, and what it holds by then. *)
THEOREM InvHolds == Spec => []Inv
  BY InitInv, NextInv, PTL DEF Spec

(* The engine, its queue and the replicas keep their shape. *)
THEOREM TypeCorrect == Spec => []TypeOK
<1>1. Inv => TypeOK
  BY DEF Inv, Structure
<1> QED
  BY InvHolds, <1>1, PTL

(* Search never answers from a partial build (rebuild swaps a whole index in),
   for any number of replicas, builds, boots and failures. *)
THEOREM LiveIndexIsWhole == Spec => []LiveIsWhole
<1>1. Inv => LiveIsWhole
  BY DEF Inv
<1> QED
  BY InvHolds, <1>1, PTL

(* A recorded fingerprint is of a generation the live index has held. *)
THEOREM RecordHolds == Spec => []RecordedWasServed
<1>1. Inv => RecordedWasServed
  BY DEF Inv
<1> QED
  BY InvHolds, <1>1, PTL

(* Once the site is searchable no rebuild, failed or not, takes it away. *)
THEOREM SearchStays == Spec => KeepsAnswering
<1>1. Inv /\ [Next]_vars => [index[Live] \in Generations => index'[Live] \in Generations]_vars
  BY NextInv
<1> QED
  BY InvHolds, <1>1, PTL DEF Spec, KeepsAnswering

-----------------------------------------------------------------------------
(* The palette.  A new subscription ends the one before it, so what is     *)
(* shown is only ever extended by the answers that follow it.              *)

Showing == \E r \in requests : r.to = "show"
Appending == \E r \in requests : r.to = "append"

Flags == [loading : BOOLEAN, loadingMore : BOOLEAN, error : BOOLEAN]
Shown == [query : Queries \cup {Short}, type : Types, place : Nat]

Shape ==
  /\ PaletteTypeOK
  /\ flags \in Flags
  /\ dropped \subseteq {"show", "append", "closed"}
  /\ results \in Seq(Shown)
  /\ more => Len(results) < Total
  /\ query \notin Queries => settled = Short /\ requests = {}

(* Of one subscription, it is for the filter chosen, and more is asked for *)
(* where the list ends.                                                    *)
OneRequest ==
  /\ \A r, s \in requests : r = s
  /\ \A r \in requests :
       /\ r.type = type
       /\ r.to = "show" => r.offset = 0
       /\ r.to = "append" => r.query = settled /\ r.offset = Len(results)
       /\ r.to = "show" /\ timer = None /\ "closed" \notin dropped => r.query = query

(* A filter that was changed is being searched, or its search went wrong. *)
OfTheFilter ==
  /\ "show" \notin dropped /\ results # <<>> => results[1].type = type \/ flags.error \/ Showing
  /\ Appending => ~flags.error

(* What was typed is waiting, searched or shown. *)
Pursued ==
  /\ timer # None => timer = query
  /\ timer = None /\ {"show", "closed"} \cap dropped = {} /\ ~flags.error /\ ~Showing
       => settled = query /\ ~flags.loading
  /\ flags.loadingMore => "append" \in dropped \/ Appending

PaletteInv == Shape /\ OneRequest /\ OfTheFilter /\ Pursued /\ ResultsAreOfOneSearch

LEMMA PaletteStarts == PaletteInit => PaletteInv
<1> SUFFICES ASSUME PaletteInit PROVE PaletteInv
  OBVIOUS
<1> USE NoneAssumption
<1>1. Shape
  <2>1. flags \in Flags
    BY DEF PaletteInit, Flags
  <2>2. PaletteTypeOK
    BY DEF PaletteInit, PaletteTypeOK
  <2>3. results \in Seq(Shown)
    BY DEF PaletteInit
  <2> QED BY <2>1, <2>2, <2>3 DEF PaletteInit, Shape
<1>2. OneRequest
  BY DEF PaletteInit, OneRequest
<1>3. OfTheFilter
  BY DEF PaletteInit, OfTheFilter, Showing, Appending
<1>4. Pursued
  BY DEF PaletteInit, Pursued, Showing, Appending
<1>5. ResultsAreOfOneSearch
  BY DEF PaletteInit, ResultsAreOfOneSearch
<1> QED BY <1>1, <1>2, <1>3, <1>4, <1>5 DEF PaletteInv

LEMMA PaletteStep == PaletteInv /\ [PaletteNext]_palette => PaletteInv'
<1> SUFFICES ASSUME PaletteInv, [PaletteNext]_palette PROVE PaletteInv'
  OBVIOUS
<1> USE TotalAssumption, NoneAssumption DEF PaletteInv, Shape, OneRequest, OfTheFilter, Pursued, ResultsAreOfOneSearch,
  PaletteTypeOK, shown, Showing, Appending, Acts, Dropped, Asked,
  Unsubscribed
<1>1. ASSUME NEW q \in Queries \cup {Short}, q = Short, OnInput(q) PROVE PaletteInv'
  <2>1. Shape'
    <3>1. flags' \in Flags
      BY <1>1 DEF OnInput, Flags
    <3>2. results' \in Seq(Shown)
      BY <1>1 DEF OnInput, Shown
    <3> QED BY <1>1, <3>1, <3>2 DEF OnInput
  <2>2. OneRequest'
    BY <1>1 DEF OnInput
  <2>3. OfTheFilter'
    BY <1>1 DEF OnInput, Flags
  <2>4. Pursued'
    BY <1>1 DEF OnInput, Flags
  <2>5. ResultsAreOfOneSearch'
    BY <1>1 DEF OnInput
  <2> QED BY <2>1, <2>2, <2>3, <2>4, <2>5 DEF PaletteInv
<1>2. ASSUME NEW q \in Queries \cup {Short}, q # Short, OnInput(q) PROVE PaletteInv'
  <2>1. Shape'
    <3>1. flags' \in Flags
      BY <1>2 DEF OnInput, Flags
    <3>2. results' \in Seq(Shown)
      BY <1>2 DEF OnInput, Shown
    <3> QED BY <1>2, <3>1, <3>2 DEF OnInput
  <2>2. OneRequest'
    BY <1>2 DEF OnInput
  <2>3. OfTheFilter'
    BY <1>2 DEF OnInput, Flags
  <2>4. Pursued'
    BY <1>2 DEF OnInput, Flags
  <2>5. ResultsAreOfOneSearch'
    BY <1>2 DEF OnInput
  <2> QED BY <2>1, <2>2, <2>3, <2>4, <2>5 DEF PaletteInv
<1>3. ASSUME NEW q \in Queries, UseRecent(q) PROVE PaletteInv'
  <2>1. Shape'
    <3>1. flags' \in Flags
      BY <1>3 DEF UseRecent, Run, Flags
    <3>2. results' \in Seq(Shown)
      BY <1>3 DEF UseRecent, Run, Shown
    <3> QED BY <1>3, <3>1, <3>2 DEF UseRecent, Run
  <2>2. OneRequest'
    BY <1>3 DEF UseRecent, Run
  <2>3. OfTheFilter'
    BY <1>3 DEF UseRecent, Run, Flags
  <2>4. Pursued'
    BY <1>3 DEF UseRecent, Run, Flags
  <2>5. ResultsAreOfOneSearch'
    BY <1>3 DEF UseRecent, Run
  <2> QED BY <2>1, <2>2, <2>3, <2>4, <2>5 DEF PaletteInv
<1>4. ASSUME NEW t \in Types, SetType(t) PROVE PaletteInv'
  <2>1. Shape'
    <3>1. flags' \in Flags
      BY <1>4 DEF SetType, Run, Flags
    <3>2. results' \in Seq(Shown)
      BY <1>4 DEF SetType, Run, Shown
    <3> QED BY <1>4, <3>1, <3>2 DEF SetType, Run
  <2>2. OneRequest'
    BY <1>4 DEF SetType, Run
  <2>3. OfTheFilter'
    BY <1>4 DEF SetType, Run, Flags
  <2>4. Pursued'
    BY <1>4 DEF SetType, Run, Flags
  <2>5. ResultsAreOfOneSearch'
    BY <1>4 DEF SetType, Run
  <2> QED BY <2>1, <2>2, <2>3, <2>4, <2>5 DEF PaletteInv
<1>5. ASSUME LoadMore PROVE PaletteInv'
  <2>1. Shape'
    <3>1. flags' \in Flags
      BY <1>5 DEF LoadMore, Flags
    <3>2. results' \in Seq(Shown)
      BY <1>5 DEF LoadMore, Shown
    <3> QED BY <1>5, <3>1, <3>2 DEF LoadMore
  <2>2. OneRequest'
    BY <1>5 DEF LoadMore
  <2>3. OfTheFilter'
    BY <1>5 DEF LoadMore, Flags
  <2>4. Pursued'
    <3>1. flags'.loading = flags.loading /\ flags'.error = flags.error
      BY <1>5 DEF LoadMore, Flags
    <3>2. Appending'
      BY <1>5 DEF LoadMore
    <3> QED BY <1>5, <3>1, <3>2 DEF LoadMore
  <2>5. ResultsAreOfOneSearch'
    BY <1>5 DEF LoadMore
  <2> QED BY <2>1, <2>2, <2>3, <2>4, <2>5 DEF PaletteInv
<1>6. ASSUME DebounceEnds PROVE PaletteInv'
  <2>1. Shape'
    <3>1. flags' \in Flags
      BY <1>6 DEF DebounceEnds, Run, Flags
    <3>2. results' \in Seq(Shown)
      BY <1>6 DEF DebounceEnds, Run, Shown
    <3> QED BY <1>6, <3>1, <3>2 DEF DebounceEnds, Run
  <2>2. OneRequest'
    BY <1>6 DEF DebounceEnds, Run
  <2>3. OfTheFilter'
    BY <1>6 DEF DebounceEnds, Run, Flags
  <2>4. Pursued'
    BY <1>6 DEF DebounceEnds, Run, Flags
  <2>5. ResultsAreOfOneSearch'
    BY <1>6 DEF DebounceEnds, Run
  <2> QED BY <2>1, <2>2, <2>3, <2>4, <2>5 DEF PaletteInv
<1>7. ASSUME Open PROVE PaletteInv'
  <2>1. Shape'
    <3>1. flags' \in Flags
      BY <1>7 DEF Open, Flags
    <3>2. results' \in Seq(Shown)
      BY <1>7 DEF Open, Shown
    <3> QED BY <1>7, <3>1, <3>2 DEF Open
  <2>2. OneRequest'
    BY <1>7 DEF Open
  <2>3. OfTheFilter'
    BY <1>7 DEF Open, Flags
  <2>4. Pursued'
    BY <1>7 DEF Open, Flags
  <2>5. ResultsAreOfOneSearch'
    BY <1>7 DEF Open
  <2> QED BY <2>1, <2>2, <2>3, <2>4, <2>5 DEF PaletteInv
<1>8. ASSUME Close PROVE PaletteInv'
  <2>1. Shape'
    <3>1. flags' \in Flags
      BY <1>8 DEF Close, Flags
    <3>2. results' \in Seq(Shown)
      BY <1>8 DEF Close, Shown
    <3> QED BY <1>8, <3>1, <3>2 DEF Close
  <2>2. OneRequest'
    BY <1>8 DEF Close
  <2>3. OfTheFilter'
    BY <1>8 DEF Close, Flags
  <2>4. Pursued'
    BY <1>8 DEF Close, Flags
  <2>5. ResultsAreOfOneSearch'
    BY <1>8 DEF Close
  <2> QED BY <2>1, <2>2, <2>3, <2>4, <2>5 DEF PaletteInv
<1>9. ASSUME NEW r \in requests, Arrives(r), r.to = "show", Answer(r) PROVE PaletteInv'
  <2>0. results' = <<>> \/ \E page \in Shown : /\ results' = <<page>> /\ page.place = 1
                                              /\ page.query = settled' /\ page.type = type'
    BY <1>9 DEF Arrives, Answer, Page, Shown
  <2>1. Shape'
    <3>1. flags' \in Flags
      BY <1>9 DEF Arrives, Answer, Page, Flags
    <3>2. results' \in Seq(Shown)
      BY <1>9, <2>0 DEF Arrives, Answer, Page
    <3> QED BY <1>9, <3>1, <3>2 DEF Arrives, Answer, Page
  <2>2. OneRequest'
    BY <1>9 DEF Arrives, Answer, Page
  <2>3. OfTheFilter'
    BY <1>9 DEF Arrives, Answer, Page, Flags
  <2>4. Pursued'
    BY <1>9 DEF Arrives, Answer, Page, Flags
  <2>5. ResultsAreOfOneSearch'
    BY <1>9, <2>0 DEF Arrives, Answer, Page
  <2> QED BY <2>1, <2>2, <2>3, <2>4, <2>5 DEF PaletteInv
<1>10. ASSUME NEW r \in requests, Arrives(r), r.to = "append", Answer(r) PROVE PaletteInv'
  <2>0. results' = results \/ \E page \in Shown : /\ results' = Append(results, page)
                                                 /\ page.place = Len(results) + 1
                                                 /\ page.query = settled' /\ page.type = type'
    BY <1>10 DEF Arrives, Answer, Page, Shown
  <2>1. Shape'
    <3>1. flags' \in Flags
      BY <1>10 DEF Arrives, Answer, Page, Flags
    <3>2. results' \in Seq(Shown)
      BY <1>10, <2>0 DEF Arrives, Answer, Page
    <3> QED BY <1>10, <3>1, <3>2 DEF Arrives, Answer, Page
  <2>2. OneRequest'
    BY <1>10 DEF Arrives, Answer, Page
  <2>3. OfTheFilter'
    BY <1>10 DEF Arrives, Answer, Page, Flags
  <2>4. Pursued'
    BY <1>10 DEF Arrives, Answer, Page, Flags
  <2>5. ResultsAreOfOneSearch'
    <3>1. CASE results' = results
      BY <1>10, <3>1 DEF Arrives, Answer, Page
    <3>2. ASSUME NEW page \in Shown, results' = Append(results, page), page.place = Len(results) + 1,
                 page.query = settled', page.type = type'
          PROVE  ResultsAreOfOneSearch'
      <4>1. \A i \in DOMAIN results' : results'[i] = IF i <= Len(results) THEN results[i] ELSE page
        BY <3>2
      <4>2. Len(results') = Len(results) + 1 /\ DOMAIN results' = 1 .. Len(results')
        BY <3>2
      <4>3. query = query' /\ settled' = settled /\ type' = type /\ ~Showing /\ ~flags.error /\ dropped' = dropped \ {"append"}
        BY <1>10 DEF Arrives, Answer, Page
      <4>4. results # <<>> /\ "show" \notin dropped => results[1].type = type
        BY <4>3
      <4>5. \A j \in DOMAIN results' : results'[j].query = settled'
        BY <3>2, <4>1, <4>2, <4>3
      <4>6. ASSUME "show" \notin dropped', NEW j \in DOMAIN results'
            PROVE  results'[j].place = j /\ results'[j].type = results'[1].type
        BY <3>2, <4>1, <4>2, <4>3, <4>4, <4>6
      <4> QED BY <4>5, <4>6
    <3> QED BY <2>0, <3>1, <3>2
  <2> QED BY <2>1, <2>2, <2>3, <2>4, <2>5 DEF PaletteInv
<1>11. ASSUME NEW r \in requests, Arrives(r), flags' = AfterError(r), UNCHANGED <<shown, dropped>> PROVE PaletteInv'
  <2>1. Shape'
    <3>1. flags' \in Flags
      BY <1>11 DEF Arrives, AfterError, Flags
    <3>2. results' \in Seq(Shown)
      BY <1>11 DEF Arrives, AfterError, Shown
    <3> QED BY <1>11, <3>1, <3>2 DEF Arrives, AfterError
  <2>2. OneRequest'
    BY <1>11 DEF Arrives, AfterError
  <2>3. OfTheFilter'
    BY <1>11 DEF Arrives, AfterError, Flags
  <2>4. Pursued'
    BY <1>11 DEF Arrives, AfterError, Flags
  <2>5. ResultsAreOfOneSearch'
    BY <1>11 DEF Arrives, AfterError
  <2> QED BY <2>1, <2>2, <2>3, <2>4, <2>5 DEF PaletteInv
<1>12. ASSUME UNCHANGED palette PROVE PaletteInv'
  <2>1. Shape'
    <3>1. flags' \in Flags
      BY <1>12 DEF palette, Flags
    <3>2. results' \in Seq(Shown)
      BY <1>12 DEF palette, Shown
    <3> QED BY <1>12, <3>1, <3>2 DEF palette
  <2>2. OneRequest'
    BY <1>12 DEF palette
  <2>3. OfTheFilter'
    BY <1>12 DEF palette, Flags
  <2>4. Pursued'
    BY <1>12 DEF palette, Flags
  <2>5. ResultsAreOfOneSearch'
    BY <1>12 DEF palette
  <2> QED BY <2>1, <2>2, <2>3, <2>4, <2>5 DEF PaletteInv
<1>13. ASSUME NEW r \in requests, Arrives(r) PROVE PaletteInv'
  BY <1>9, <1>10, <1>11, <1>13 DEF Arrives
<1> QED BY <1>1, <1>2, <1>3, <1>4, <1>5, <1>6, <1>7, <1>8, <1>9, <1>10, <1>11, <1>12, <1>13 DEF PaletteNext

(* Palette, inductive: one subscription at a time, for the filter chosen;  *)
(* what was typed is waiting for the pause, searched or shown; and a       *)
(* filter that was changed is being searched or its search went wrong.     *)
THEOREM PaletteHolds == PaletteSpec => []PaletteInv
BY PaletteStarts, PaletteStep, PTL DEF PaletteSpec

(* However searches, filters and requests for more overlap, the pages      *)
(* shown are of one query, and of one filter in their order unless more of *)
(* them were asked for while a filter was loading.                         *)
THEOREM ResultsOfOneSearch == PaletteSpec => []ResultsAreOfOneSearch
<1>1. PaletteInv => ResultsAreOfOneSearch
  BY DEF PaletteInv
<1> QED BY <1>1, PaletteHolds, PTL

(* Once nothing is under way the palette shows what is asked, except where *)
(* a request for more or closing cut a search off.                         *)
THEOREM RestAnswers == PaletteSpec => []RestAnswersTheQuestion
<1>1. PaletteInv => RestAnswersTheQuestion
  <2> SUFFICES ASSUME PaletteInv, timer = None, requests = {}, ~flags.error, dropped \cap {"show", "closed"} = {}
               PROVE  /\ settled = query /\ ~flags.loading
                      /\ "append" \notin dropped => ~flags.loadingMore
                      /\ query # Short => \A i \in DOMAIN results : results[i].type = type
    BY Zenon DEF RestAnswersTheQuestion
  <2>1. ~Showing /\ ~Appending
    BY DEF Showing, Appending
  <2>2. settled = query /\ ~flags.loading /\ ("append" \notin dropped => ~flags.loadingMore)
    BY <2>1 DEF PaletteInv, Pursued
  <2>3. "show" \notin dropped
    OBVIOUS
  <2>4. \A i \in DOMAIN results : results[i].type = results[1].type
    BY <2>3 DEF PaletteInv, ResultsAreOfOneSearch
  <2>5. results # <<>> => results[1].type = type
    BY <2>1, <2>3 DEF PaletteInv, OfTheFilter
  <2> QED BY <2>2, <2>4, <2>5 DEF PaletteInv, Shape
<1> QED BY <1>1, PaletteHolds, PTL
=============================================================================
