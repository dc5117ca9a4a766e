--------------------------- MODULE ReadingGroups ---------------------------
(***************************************************************************)
(* Reading groups (backend/src/paper-groups) and the annotations shared    *)
(* into them (backend/src/paper-annotations).  Every route first reads the *)
(* caller's role, then reads or locks more, then writes: the steps of one  *)
(* request interleave with those of the others, on any replica, and only   *)
(* PostgreSQL (READ COMMITTED) and two advisory locks order them.          *)
(*                                                                         *)
(* A request is a record: which call, by whom, how far it has come and     *)
(* what it read on the way.  All it writes is in its last step, so one     *)
(* that is refused, fails or dies with its replica leaves nothing behind.  *)
(***************************************************************************)
EXTENDS Naturals, FiniteSets

CONSTANTS
  Readers, Groups, Papers,
  Notes,          \* annotations that can be shared
  Author, PaperOf, \* of each annotation
  Invitations,    \* invitation ids; how many exist bounds how many are sent
  Requests,       \* requests in flight at once
  Calls,          \* the routes clients use: all of them, or those a run studies
  MaxOwned, MaxMembers, MaxInbox, MaxPapers, MaxShares,
  Nil

ASSUME NotesAssumption ==
  Author \in [Notes -> Readers] /\ PaperOf \in [Notes -> Papers]
ASSUME LimitsAssumption == {MaxOwned, MaxMembers, MaxInbox, MaxPapers, MaxShares} \subseteq Nat \ {0}
ASSUME FiniteAssumption == IsFiniteSet(Readers)
ASSUME NilAssumption == \A g \in Groups, r \in Readers : Nil # <<g, r>>

Managers == {"owner", "moderator"}
Roles == Managers \cup {"member"}

VARIABLES
  group,         \* paper_group: a row, not yet, or deleted
  role,          \* paper_group_member
  sentTo, waiting, \* paper_group_invitation: what each id was for, which rows exist
  list,          \* paper_group_paper
  share, into,   \* paper_annotation_share (its visibility) and .._share_group
  req            \* the requests in flight

people == <<group, role>>
invitations == <<sentTo, waiting>>
shares == <<share, into>>
vars == <<people, invitations, list, shares, req>>

-----------------------------------------------------------------------------
(* Helpers *)

Members(g) == {r \in Readers : role[g][r] # "none"}
Pending(g) == {i \in waiting : sentTo[i][1] = g}
Inbox(r) == {i \in waiting : sentTo[i][2] = r}
Owned(r) == {g \in Groups : role[g][r] = "owner"}
Shared(r) == {n \in Notes : Author[n] = r /\ share[n] # "none"}

Idle == [op |-> "idle", at |-> "idle", by |-> Nil, group |-> Nil, arg |-> Nil, role |-> Nil, rows |-> {}, last |-> {}]
AskAs(o, at, r, g, x, s) ==
  [op |-> o, at |-> at, by |-> r, group |-> g, arg |-> x, role |-> s, rows |-> {}, last |-> {}]
Ask(o, at, r, g, x) == AskAs(o, at, r, g, x, Nil)
Free(q, o) == req[q] = Idle /\ o \in Calls
At(q, o, at) == req[q].op = o /\ req[q].at = at
Goto(q, at) == req' = [req EXCEPT ![q].at = at]
End(q) == req' = [req EXCEPT ![q] = Idle]

(* An invitation being inserted holds the advisory lock of its group. *)
Locked(g) == \E q \in Requests : At(q, "invite", "insert") /\ req[q].group = g

(* Rows of paper_annotation_share_group a running withdrawal has deleted. *)
Deleting(q, n, g) == req[q].group = g /\ n \in req[q].rows /\ req[q].op # "share"
RowLocked(n, g) == \E q \in Requests : Deleting(q, n, g)

-----------------------------------------------------------------------------
Init ==
  /\ group = [g \in Groups |-> "unused"]
  /\ role = [g \in Groups |-> [r \in Readers |-> "none"]]
  /\ sentTo = [i \in Invitations |-> Nil]
  /\ waiting = {}
  /\ list = [g \in Groups |-> {}]
  /\ share = [n \in Notes |-> "none"]
  /\ into = [n \in Notes |-> {}]
  /\ req = [q \in Requests |-> Idle]

(* create: one transaction, one at a time per owner. *)
Create(r) ==
  /\ "create" \in Calls
  /\ Cardinality(Owned(r)) < MaxOwned
  /\ \E g \in Groups :
       /\ group[g] = "unused"
       /\ group' = [group EXCEPT ![g] = "live"]
       /\ role' = [role EXCEPT ![g][r] = "owner"]
  /\ UNCHANGED <<invitations, list, shares, req>>

-----------------------------------------------------------------------------
(* Every route of a group starts by reading the caller's role. *)

(* leave, remove, removePaper: the role is all they check. *)
CallWithdrawing(q, r, g) ==
  /\ \/ /\ Free(q, "leave") /\ role[g][r] \in {"moderator", "member"}
        /\ req' = [req EXCEPT ![q] = Ask("leave", "withdraw", r, g, r)]
     \/ /\ Free(q, "remove") /\ role[g][r] = "owner"
        /\ req' = [req EXCEPT ![q] = Ask("remove", "withdraw", r, g, Nil)]
     \/ /\ Free(q, "removePaper") /\ role[g][r] \in Managers
        /\ \E p \in Papers : req' = [req EXCEPT ![q] = Ask("removePaper", "withdraw", r, g, p)]
  /\ UNCHANGED <<people, invitations, list, shares>>

(* removeMember and setRole go on to read the target's role, *)
(* removeAnnotation the shared annotation.                   *)
CallOnTarget(q, r, g) ==
  /\ \/ /\ Free(q, "removeMember") /\ role[g][r] \in Managers
        /\ \E t \in Readers \ {r} :
             req' = [req EXCEPT ![q] = AskAs("removeMember", "target", r, g, t, role[g][r])]
     \/ /\ Free(q, "setRole") /\ role[g][r] = "owner"
        /\ \E t \in Readers, new \in {"moderator", "member"} :
             req' = [req EXCEPT ![q] = AskAs("setRole", "target", r, g, t, new)]
     \/ /\ Free(q, "removeAnnotation") /\ role[g][r] # "none"
        /\ \E n \in Notes :
             req' = [req EXCEPT ![q] = AskAs("removeAnnotation", "target", r, g, n, role[g][r])]
  /\ UNCHANGED <<people, invitations, list, shares>>

(* invite, revokeInvitation, addPaper: managers only. *)
CallAsManager(q, r, g) ==
  /\ role[g][r] \in Managers
  /\ \/ /\ Free(q, "invite")
        /\ \E t \in Readers \ {r} : req' = [req EXCEPT ![q] = Ask("invite", "lock", r, g, t)]
     \/ /\ Free(q, "revoke")
        /\ \E i \in Invitations : req' = [req EXCEPT ![q] = Ask("revoke", "write", r, g, i)]
     \/ /\ Free(q, "addPaper")
        /\ \E p \in Papers : req' = [req EXCEPT ![q] = Ask("addPaper", "write", r, g, p)]
  /\ UNCHANGED <<people, invitations, list, shares>>

(* A refusal, an error of the database or the end of the replica: nothing *)
(* of the request is left, its transaction is rolled back.                *)
Refuse(q) ==
  /\ req[q] # Idle
  /\ End(q)
  /\ UNCHANGED <<people, invitations, list, shares>>

-----------------------------------------------------------------------------
(* Members *)

ReadTarget(q) ==
  /\ \/ /\ At(q, "removeMember", "target")
        /\ role[req[q].group][req[q].arg] \in
             IF req[q].role = "moderator" THEN {"member"} ELSE {"moderator", "member"}
        /\ Goto(q, "withdraw")
     \/ /\ At(q, "setRole", "target")
        /\ role[req[q].group][req[q].arg] \in {"moderator", "member"}
        /\ Goto(q, "write")
     \/ /\ At(q, "removeAnnotation", "target")
        /\ req[q].group \in into[req[q].arg]
        /\ Author[req[q].arg] = req[q].by \/ req[q].role \in Managers
        /\ Goto(q, "withdraw")
  /\ UNCHANGED <<people, invitations, list, shares>>

(* setRole: an UPDATE of a row that may be gone by now. *)
SetRole(q) ==
  /\ At(q, "setRole", "write")
  /\ LET g == req[q].group  t == req[q].arg IN
       role' = IF role[g][t] = "none" THEN role ELSE [role EXCEPT ![g][t] = req[q].role]
  /\ End(q)
  /\ UNCHANGED <<group, invitations, list, shares>>

-----------------------------------------------------------------------------
(* withdrawShares, and what the transaction it belongs to deletes after it *)

WithdrawnBy(q) ==
  {n \in Notes :
    /\ req[q].group \in into[n]
    /\ CASE req[q].op \in {"leave", "removeMember"} -> Author[n] = req[q].arg
         [] req[q].op = "removePaper" -> PaperOf[n] = req[q].arg
         [] req[q].op = "removeAnnotation" -> n = req[q].arg
         [] OTHER -> TRUE}

(* The first DELETE.  It waits for rows another transaction is deleting. *)
Withdraw(q) ==
  /\ req[q].at = "withdraw"
  /\ \A n \in WithdrawnBy(q) : ~ RowLocked(n, req[q].group)
  /\ req' = [req EXCEPT ![q].rows = WithdrawnBy(q),
                        ![q].at = IF WithdrawnBy(q) = {} THEN "commit" ELSE "orphans"]
  /\ UNCHANGED <<people, invitations, list, shares>>

OrphansUnchecked(q) ==  \* mutant: other groups of the share are forgotten
  {n \in req[q].rows : share[n] = "group"}

(* The second DELETE: shares for groups that have none left, as far as this *)
(* transaction can see.                                                     *)
Orphans(q) == {n \in req[q].rows : share[n] = "group" /\ into[n] = {req[q].group}}

FindOrphans(q) ==
  /\ req[q].at = "orphans"
  /\ req' = [req EXCEPT ![q].last = Orphans(q), ![q].at = "commit"]
  /\ UNCHANGED <<people, invitations, list, shares>>

TakeOut(q, cascade) ==
  /\ share' = [n \in Notes |-> IF n \in req[q].last THEN "none" ELSE share[n]]
  /\ into' = [n \in Notes |->
       IF n \in req[q].last THEN {}
       ELSE IF cascade \/ n \in req[q].rows THEN into[n] \ {req[q].group} ELSE into[n]]

CommitLeave(q) ==
  /\ req[q].op \in {"leave", "removeMember"} /\ req[q].at = "commit"
  /\ TakeOut(q, FALSE)
  /\ role' = [role EXCEPT ![req[q].group][req[q].arg] = "none"]
  /\ End(q)
  /\ UNCHANGED <<group, invitations, list>>

CommitRemovePaper(q) ==
  /\ At(q, "removePaper", "commit")
  /\ TakeOut(q, FALSE)
  /\ list' = [list EXCEPT ![req[q].group] = @ \ {req[q].arg}]
  /\ End(q)
  /\ UNCHANGED <<people, invitations>>

CommitRemoveAnnotation(q) ==
  /\ At(q, "removeAnnotation", "commit")
  /\ TakeOut(q, FALSE)
  /\ End(q)
  /\ UNCHANGED <<people, invitations, list>>

(* DELETE FROM paper_group cascades to every row that names the group, and *)
(* waits for those another transaction is deleting.                        *)
CommitRemove(q) ==
  LET g == req[q].group IN
  /\ At(q, "remove", "commit")
  /\ \A p \in Requests \ {q}, n \in Notes : ~ Deleting(p, n, g)
  /\ TakeOut(q, TRUE)
  /\ group' = [group EXCEPT ![g] = "gone"]
  /\ role' = [role EXCEPT ![g] = [r \in Readers |-> "none"]]
  /\ waiting' = waiting \ Pending(g)
  /\ list' = [list EXCEPT ![g] = {}]
  /\ End(q)
  /\ UNCHANGED sentTo

-----------------------------------------------------------------------------
(* Invitations *)

HasRoom(g, t) ==
  /\ role[g][t] = "none"
  /\ \A i \in Pending(g) : sentTo[i][2] # t
  /\ Cardinality(Members(g)) + Cardinality(Pending(g)) < MaxMembers
  /\ Cardinality(Inbox(t)) < MaxInbox

(* The checks of invite, under the group's lock, which is kept. *)
Invite(q) ==
  /\ At(q, "invite", "lock")
  /\ ~ Locked(req[q].group)
  /\ HasRoom(req[q].group, req[q].arg)
  /\ Goto(q, "insert")
  /\ UNCHANGED <<people, invitations, list, shares>>

(* The INSERT; the foreign key refuses it once the group is deleted. *)
InsertInvitation(q) ==
  /\ At(q, "invite", "insert")
  /\ group[req[q].group] = "live"
  /\ \E i \in Invitations :
       /\ sentTo[i] = Nil
       /\ sentTo' = [sentTo EXCEPT ![i] = <<req[q].group, req[q].arg>>]
       /\ waiting' = waiting \cup {i}
  /\ End(q)
  /\ UNCHANGED <<people, list, shares>>

Revoke(q) ==
  /\ At(q, "revoke", "write")
  /\ req[q].arg \in Pending(req[q].group)
  /\ waiting' = waiting \ {req[q].arg}
  /\ End(q)
  /\ UNCHANGED <<people, sentTo, list, shares>>

ReadAnyInvitation(q, r) ==  \* mutant: the invitee is not compared
  \E i \in waiting :
    /\ \/ Free(q, "accept") /\ req' = [req EXCEPT ![q] = Ask("accept", "lock", r, sentTo[i][1], i)]
       \/ Free(q, "decline") /\ req' = [req EXCEPT ![q] = Ask("decline", "write", r, sentTo[i][1], i)]
    /\ UNCHANGED <<people, invitations, list, shares>>

(* invitationOf, by accept (in its transaction, before the lock) and decline. *)
ReadInvitation(q, r) ==
  \E i \in Inbox(r) :
    /\ \/ Free(q, "accept") /\ req' = [req EXCEPT ![q] = Ask("accept", "lock", r, sentTo[i][1], i)]
       \/ Free(q, "decline") /\ req' = [req EXCEPT ![q] = Ask("decline", "write", r, sentTo[i][1], i)]
    /\ UNCHANGED <<people, invitations, list, shares>>

AcceptUncounted(q) ==  \* mutant: the size is left to the invitation's own check
  /\ At(q, "accept", "lock")
  /\ ~ Locked(req[q].group)
  /\ group[req[q].group] = "live"
  /\ waiting' = waiting \ {req[q].arg}
  /\ role' = [role EXCEPT ![req[q].group][req[q].by] = IF @ = "none" THEN "member" ELSE @]
  /\ End(q)
  /\ UNCHANGED <<group, sentTo, list, shares>>

(* The rest of accept, under the group's lock: the DELETE may find no row, *)
(* the INSERT does nothing when there is one already.                      *)
Accept(q) ==
  /\ At(q, "accept", "lock")
  /\ ~ Locked(req[q].group)
  /\ group[req[q].group] = "live"
  /\ Cardinality(Members(req[q].group)) < MaxMembers
  /\ waiting' = waiting \ {req[q].arg}
  /\ role' = [role EXCEPT ![req[q].group][req[q].by] = IF @ = "none" THEN "member" ELSE @]
  /\ End(q)
  /\ UNCHANGED <<group, sentTo, list, shares>>

Decline(q) ==
  /\ At(q, "decline", "write")
  /\ waiting' = waiting \ {req[q].arg}
  /\ End(q)
  /\ UNCHANGED <<people, sentTo, list, shares>>

-----------------------------------------------------------------------------
(* The paper list and the shares *)

(* One transaction, one at a time per group. *)
AddPaper(q) ==
  LET g == req[q].group IN
  /\ At(q, "addPaper", "write")
  /\ group[g] = "live"
  /\ Cardinality(list[g] \ {req[q].arg}) < MaxPapers
  /\ list' = [list EXCEPT ![g] = @ \cup {req[q].arg}]
  /\ End(q)
  /\ UNCHANGED <<people, invitations, shares>>

MayShareInto(n, g) == role[g][Author[n]] # "none" /\ PaperOf[n] \in list[g]

(* The checks of share: the audience (G = {}: the public, or named readers) *)
(* and the author's limit, all before the transaction.                      *)
CheckShare(q, n, G) ==
  /\ Free(q, "share")
  /\ \A g \in G : MayShareInto(n, g)
  /\ Cardinality(Shared(Author[n]) \ {n}) < MaxShares
  /\ req' = [req EXCEPT ![q] = [op |-> "share", at |-> "write", by |-> Author[n], group |-> Nil,
                               arg |-> n, role |-> Nil, rows |-> G, last |-> {}]]
  /\ UNCHANGED <<people, invitations, list, shares>>

WriteShareAdding(q) ==  \* mutant: the old audience is kept
  LET n == req[q].arg  G == req[q].rows IN
  /\ At(q, "share", "write")
  /\ \A g \in G : group[g] = "live"
  /\ share' = [share EXCEPT ![n] = IF G = {} THEN "other" ELSE "group"]
  /\ into' = [into EXCEPT ![n] = @ \cup G]
  /\ End(q)
  /\ UNCHANGED <<people, invitations, list>>

(* The transaction of share: the copy and its whole audience are replaced, *)
(* once no withdrawal is deleting rows of it.                              *)
WriteShare(q) ==
  LET n == req[q].arg  G == req[q].rows IN
  /\ At(q, "share", "write")
  /\ \A g \in Groups : ~ RowLocked(n, g)
  /\ \A g \in G : group[g] = "live"
  /\ share' = [share EXCEPT ![n] = IF G = {} THEN "other" ELSE "group"]
  /\ into' = [into EXCEPT ![n] = G]
  /\ End(q)
  /\ UNCHANGED <<people, invitations, list>>

(* unshare, or the annotation itself is deleted: the rows cascade. *)
Unshare(n) ==
  /\ "unshare" \in Calls
  /\ share[n] # "none"
  /\ \A g \in Groups : ~ RowLocked(n, g)
  /\ share' = [share EXCEPT ![n] = "none"]
  /\ into' = [into EXCEPT ![n] = {}]
  /\ UNCHANGED <<people, invitations, list, req>>

-----------------------------------------------------------------------------
Step(q) ==
  \/ \E r \in Readers, g \in Groups :
       CallWithdrawing(q, r, g) \/ CallOnTarget(q, r, g) \/ CallAsManager(q, r, g)
  \/ Refuse(q) \/ ReadTarget(q) \/ SetRole(q)
  \/ Withdraw(q) \/ FindOrphans(q)
  \/ CommitLeave(q) \/ CommitRemovePaper(q) \/ CommitRemoveAnnotation(q) \/ CommitRemove(q)
  \/ Invite(q) \/ InsertInvitation(q) \/ Revoke(q)
  \/ (\E r \in Readers : ReadInvitation(q, r)) \/ Accept(q) \/ Decline(q)
  \/ AddPaper(q)
  \/ (\E n \in Notes, G \in SUBSET Groups : CheckShare(q, n, G)) \/ WriteShare(q)

Next ==
  \/ \E r \in Readers : Create(r)
  \/ \E q \in Requests : Step(q)
  \/ \E n \in Notes : Unshare(n)

Spec == Init /\ [][Next]_vars

-----------------------------------------------------------------------------
(* Properties *)

Calling == [op : {"leave", "remove", "removePaper", "removeMember", "setRole", "removeAnnotation",
                  "invite", "revoke", "addPaper", "accept", "decline", "share"},
            at : {"withdraw", "orphans", "commit", "target", "lock", "insert", "write"},
            by : Readers, group : Groups \cup {Nil}, arg : Readers \cup Papers \cup Notes \cup Invitations \cup {Nil},
            role : Roles \cup {Nil}, rows : (SUBSET Notes) \cup (SUBSET Groups), last : SUBSET Notes]

(* Every variable stays in its type. *)
TypeOK ==
  /\ group \in [Groups -> {"unused", "live", "gone"}]
  /\ role \in [Groups -> [Readers -> Roles \cup {"none"}]]
  /\ sentTo \in [Invitations -> (Groups \X Readers) \cup {Nil}]
  /\ waiting \subseteq {i \in Invitations : sentTo[i] # Nil}
  /\ list \in [Groups -> SUBSET Papers]
  /\ share \in [Notes -> {"none", "other", "group"}]
  /\ into \in [Notes -> SUBSET Groups]
  /\ req \in [Requests -> Calling \cup {Idle}]

(* A group never has more readers than it may hold, although invitations are *)
(* taken back, sent again and accepted twice while an accept is under way.   *)
NeverOverfull == \A g \in Groups : Cardinality(Members(g)) <= MaxMembers

(* "There is exactly one owner" (README.md:23): no removal or change of role, *)
(* by whoever read what before it, takes the owner out of a group.            *)
OneOwner == \A g \in Groups : group[g] = "live" => \E r \in Readers : \A s \in Readers :
  role[g][s] = "owner" <=> s = r

(* The rows of a group end with it, also those of requests under way when it *)
(* is deleted.                                                               *)
NothingOutlivesItsGroup == \A g \in Groups : group[g] # "live" =>
  Members(g) = {} /\ Pending(g) = {} /\ list[g] = {} /\ \A n \in Notes : g \notin into[n]

(* Nobody is in a group without having been invited to it by name, or having *)
(* created it.                                                               *)
MembersWereInvited == \A g \in Groups, r \in Readers :
  role[g][r] \in {"moderator", "member"} => \E i \in Invitations : sentTo[i] = <<g, r>>

(* "Never a mix" (README.md:58): a share is in groups only while it is for groups. *)
AudiencesDoNotMix == \A n \in Notes : into[n] # {} => share[n] = "group"

(* Taking an annotation out of one group deletes its copy only when that was *)
(* the last group it was for: other audiences are not touched.               *)
WithdrawalsSpareOthers ==
  [][\A q \in Requests, n \in Notes :
       req[q].at = "commit" /\ req'[q] = Idle /\ share[n] # "none" /\ share'[n] = "none"
         => share[n] = "group" /\ into[n] = {req[q].group}]_vars

=============================================================================
