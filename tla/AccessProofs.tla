---------------------------- MODULE AccessProofs ----------------------------
(***************************************************************************)
(* For any number of users, workspaces, projects, shares and overlapping   *)
(* requests: the role of owner is nobody's but the creator's, the creator  *)
(* is not removed, a deleted workspace stays empty, and a grant was forked *)
(* while its share was live and covers what that published.                *)
(*                                                                         *)
(* A check only changes the request that passed it (AskStep); a write only *)
(* changes the rows its request names, so it is shown to keep what every   *)
(* other request still relies on.                                          *)
(***************************************************************************)
EXTENDS Access, WellFoundedInduction, TLAPS

-----------------------------------------------------------------------------
(* What the helpers of the checks return *)

\* A set of numbers that is not empty has a least one, and Min returns it.
LEMMA MinIn == ASSUME NEW S \in SUBSET Nat, S # {} PROVE Min(S) \in S
<1>1. PICK x \in S : \A y \in S : ~ (<<y, x>> \in OpToRel(<, Nat))
  <2>1. IsWellFoundedOn(OpToRel(<, Nat), Nat)
    BY NatLessThanWellFounded
  <2> QED BY <2>1, WFMin
<1>2. \A y \in S : ~ (y < x)
  BY <1>1 DEF OpToRel
<1>3. \A y \in S : x <= y
  BY <1>2
<1>4. \E z \in S : \A y \in S : z <= y
  BY <1>3
<1> QED BY <1>4 DEF Min

\* The default workspace is one the user is a member of and owns.
LEMMA DefaultSpaceIn ==
  ASSUME NEW u \in User
  PROVE  DefaultSpace(u) = None \/ (DefaultSpace(u) \in MemberOf(u) /\ spaces[DefaultSpace(u)] = u)
<1> DEFINE mine == {w \in MemberOf(u) : spaces[w] = u}
<1>1. mine \in SUBSET Nat
  BY AccessAssumption DEF MemberOf
<1>2. CASE mine = {}
  BY <1>2 DEF DefaultSpace
<1>3. CASE mine # {}
  <2>1. Min(mine) \in mine
    BY <1>1, <1>3, MinIn
  <2>2. DefaultSpace(u) = Min(mine)
    BY <1>3 DEF DefaultSpace
  <2> QED BY <2>1, <2>2
<1> QED BY <1>2, <1>3

\* Documents resolved among some are among them.
LEMMA ResolveIn == ASSUME NEW F, NEW D PROVE Resolve(F, D) \subseteq D
BY DEF Resolve

\* What a user may read are documents.
LEMMA AccessibleIn == ASSUME TypeOK, NEW u \in User PROVE Accessible(u) \subseteq Doc
<1>1. owned[u] \subseteq Doc /\ Public \subseteq Doc
  BY AccessAssumption DEF TypeOK
<1>2. Granted(u) \subseteq Doc
  BY DEF Granted
<1>3. OfSpaces(u) \subseteq Doc
  BY DEF TypeOK, OfSpaces, MemberOf
<1> QED BY <1>1, <1>2, <1>3 DEF Accessible

LEMMA VisibleProject ==
  ASSUME TypeOK, NEW u \in User, NEW p \in Visible(u)
  PROVE  p \in Project /\ projects[p] # None /\ projects[p] \in ProjectRec
BY DEF TypeOK, Visible, Theirs, Lives

\* Who administers a workspace is a member of it, and it is there.
LEMMA AdminIsMember ==
  ASSUME NEW u \in User, NEW w \in Administers(u)
  PROVE  w \in Space /\ spaces[w] \in User /\ members[w][u] # None
BY AccessAssumption DEF Administers, Role

\* The constants that stand for nothing are nobody.
LEMMA Nothing ==
  /\ None \notin User /\ Gone \notin User /\ None # Gone
  /\ None \notin Share /\ None \notin Space /\ None \notin Role
  /\ None \notin ShareRec /\ None \notin ProjectRec
  /\ Public \subseteq Doc
BY AccessAssumption

-----------------------------------------------------------------------------
(* A check *)

\* What a record has to be for a request to start with it.
Startable(r, rec) ==
  /\ rec \in ReqRec /\ StillHolds(rec)
  /\ \A op \in {"createSpace", "share"} :
       rec.op = op => \A q \in Request : ~Doing(q, op)
  /\ rec.op # "found" /\ rec.op # "grant"
  /\ rec.op \in OnMembers => \E u \in User : members[rec.space][u] # None

\* A check that passes keeps the invariant.
LEMMA AskStep ==
  ASSUME IInv, NEW r \in Request, NEW rec, Ask(r, rec), Startable(r, rec)
  PROVE  IInv'
<1> USE DEF IInv
<1>1. /\ UNCHANGED <<spaces, members, spaceDocs, owned, had, shares, grants, projects>>
      /\ req' = [req EXCEPT ![r] = rec]
      /\ req[r] = None /\ forks \subseteq forks'
      /\ rec.op = "createProject" /\ rec.from # None => forks' = forks \union {<<rec.user, rec.from>>}
      /\ ~(rec.op = "createProject" /\ rec.from # None) => forks' = forks
  BY DEF Ask, tables
<1>2. /\ \A q \in Request : req'[q] = IF q = r THEN rec ELSE req[q]
      /\ rec \in ReqRec
  BY <1>1 DEF TypeOK, Startable
<1>3. TypeOK'
  <2>1. rec.op = "createProject" /\ rec.from # None => rec.user \in User /\ rec.from \in Share
    BY <1>2 DEF ReqRec
  <2>2. forks' \subseteq User \X Share
    BY <1>1, <2>1 DEF TypeOK
  <2> QED BY <1>1, <1>2, <2>2 DEF TypeOK
<1>4. ReqInv'
  <2>1. \A q \in Request : req'[q] # None => StillHolds(req'[q])
    BY <1>2 DEF ReqInv, Startable
  <2> QED BY <2>1, <1>1 DEF ReqInv, StillHolds
<1>5. FreshInv'
  BY <1>2 DEF FreshInv, Doing, Startable
<1>6. FoundInv'
  <2>1. ASSUME NEW q \in Request, Doing(q, "found")' PROVE q # r /\ Doing(q, "found")
    BY <1>2, <2>1 DEF Doing, Startable
  <2>2. rec.op \in OnMembers => \A q \in Request : Doing(q, "found") => req[q].space # rec.space
    BY DEF FoundInv, Startable
  <2> QED BY <1>1, <1>2, <2>1, <2>2 DEF FoundInv, Startable
<1>7. ForkInv'
  <2>1. ASSUME NEW q \in Request, NEW x, x = req'[q], x # None PROVE IsFork(x)'
    <3>1. CASE q = r
      BY <1>1, <1>2, <2>1, <3>1 DEF IsFork, Startable
    <3>2. CASE q # r
      BY <1>1, <1>2, <2>1, <3>2 DEF ForkInv, IsFork
    <3> QED BY <3>1, <3>2
  <2> QED BY <2>1 DEF ForkInv, IsFork
<1>8. CreatorStays'
  BY <1>1, <1>2 DEF CreatorStays, Doing
<1>9. (UnbornInv /\ HadInv /\ PublishedInv /\ OneOwner /\ DeadSpacesAreEmpty)'
  BY <1>1 DEF UnbornInv, HadInv, PublishedInv, OneOwner, DeadSpacesAreEmpty
<1>10. GrantsComeFromForks'
  BY <1>1 DEF GrantsComeFromForks
<1> QED BY <1>3, <1>4, <1>5, <1>6, <1>7, <1>8, <1>9, <1>10

\* Every check that lets a request through gives it what it may rely on.
LEMMA ChecksStep == ASSUME IInv, NEW r \in Request, Checks(r) PROVE IInv'
<1> USE DEF IInv
<1>0. ASSUME NEW u \in User, NEW stamp \in BOOLEAN, Create(r, u, stamp) PROVE IInv'
  <2>1. PICK w \in Fresh :
          /\ \A q \in Request : ~Doing(q, "createSpace")
          /\ Ask(r, [op |-> "createSpace", user |-> u, space |-> w, stamp |-> stamp])
    BY <1>0 DEF Create
  <2>2. Startable(r, [op |-> "createSpace", user |-> u, space |-> w, stamp |-> stamp])
    BY <2>1 DEF Startable, ReqRec, StillHolds, OnMembers, Fresh
  <2> QED BY <2>1, <2>2, AskStep
<1>1. CASE AskCreateSpace(r)
  BY <1>0, <1>1 DEF AskCreateSpace
<1>14. CASE AskBackfill(r)
  <2>1. PICK u \in User :
          \/ Create(r, u, TRUE)
          \/ DefaultSpace(u) # None /\ Ask(r, [op |-> "stamp", user |-> u, space |-> DefaultSpace(u)])
    BY <1>14 DEF AskBackfill
  <2>2. ASSUME DefaultSpace(u) # None, Ask(r, [op |-> "stamp", user |-> u, space |-> DefaultSpace(u)])
        PROVE  IInv'
    <3>1. PICK w \in Space : w = DefaultSpace(u)
      BY <2>2, DefaultSpaceIn DEF MemberOf
    <3>2. Startable(r, [op |-> "stamp", user |-> u, space |-> w])
      BY DEF Startable, ReqRec, StillHolds, OnMembers
    <3> QED BY <2>2, <3>1, <3>2, AskStep
  <2> QED BY <1>0, <2>1, <2>2
<1>2. CASE AskDeleteSpace(r)
  <2>1. PICK u \in User, w \in Space :
          /\ members[w][u] # None /\ spaces[w] = u
          /\ Ask(r, [op |-> "deleteSpace", space |-> w])
    BY <1>2 DEF AskDeleteSpace
  <2>2. Startable(r, [op |-> "deleteSpace", space |-> w])
    BY <2>1, Nothing DEF Startable, ReqRec, StillHolds, OnMembers
  <2> QED BY <2>1, <2>2, AskStep
<1>3. CASE AskAddMember(r)
  <2>1. PICK u \in User, v \in User, role \in Role \ {"owner"}, w \in Space :
          w \in Administers(u) /\ Ask(r, [op |-> "addMember", space |-> w, user |-> v, role |-> role])
    BY <1>3 DEF AskAddMember, Administers
  <2>2. Startable(r, [op |-> "addMember", space |-> w, user |-> v, role |-> role])
    BY <2>1, Nothing, AdminIsMember DEF Startable, ReqRec, StillHolds, OnMembers
  <2> QED BY <2>1, <2>2, AskStep
<1>4. CASE AskSetRole(r)
  <2>1. PICK u \in User, v \in User, role \in Role \ {"owner"}, w \in Space :
          w \in Administers(u) /\ Ask(r, [op |-> "setRole", space |-> w, user |-> v, role |-> role])
    BY <1>4 DEF AskSetRole, Administers
  <2>2. Startable(r, [op |-> "setRole", space |-> w, user |-> v, role |-> role])
    BY <2>1, Nothing, AdminIsMember DEF Startable, ReqRec, StillHolds, OnMembers
  <2> QED BY <2>1, <2>2, AskStep
<1>5. CASE AskRemoveMember(r)
  <2>1. PICK u \in User, v \in User, w \in Space :
          /\ w \in Administers(u) /\ v # spaces[w]
          /\ Ask(r, [op |-> "removeMember", space |-> w, user |-> v])
    BY <1>5 DEF AskRemoveMember, Administers
  <2>2. Startable(r, [op |-> "removeMember", space |-> w, user |-> v])
    BY <2>1, Nothing, AdminIsMember DEF Startable, ReqRec, StillHolds, OnMembers
  <2> QED BY <2>1, <2>2, AskStep
<1>6. CASE AskCreateProject(r)
  <2>1. PICK u \in User, p \in Project, F \in SUBSET (Doc \union Name), w \in Space \union {None} :
          /\ w # None
          /\ Ask(r, [op |-> "createProject", user |-> u, project |-> p, space |-> w,
                     docs |-> Resolve(F, Accessible(u)), from |-> None])
    BY <1>6, DefaultSpaceIn DEF AskCreateProject, MemberOf
  <2>0. PICK rec : rec = [op |-> "createProject", user |-> u, project |-> p, space |-> w,
                          docs |-> Resolve(F, Accessible(u)), from |-> None]
    OBVIOUS
  <2>2. w \in Space
    BY <2>1
  <2>3. Resolve(F, Accessible(u)) \subseteq Doc
    BY ResolveIn, AccessibleIn
  <2>4. Startable(r, rec)
    BY <2>0, <2>2, <2>3 DEF Startable, ReqRec, StillHolds, OnMembers
  <2> QED BY <2>0, <2>1, <2>4, AskStep
<1>7. CASE AskDeleteProject(r)
  <2>1. PICK u \in User, p \in Project : Ask(r, [op |-> "deleteProject", project |-> p])
    BY <1>7 DEF AskDeleteProject
  <2>2. Startable(r, [op |-> "deleteProject", project |-> p])
    BY <2>1 DEF Startable, ReqRec, StillHolds, OnMembers
  <2> QED BY <2>1, <2>2, AskStep
<1>8. CASE AskFiles(r)
  <2>1. PICK u \in User, op \in {"attach", "setFiles"}, F \in SUBSET (Doc \union Name),
             p \in Project :
          p \in Visible(u) /\ Ask(r, [op |-> op, project |-> p, docs |-> Resolve(F, Accessible(u))])
    BY <1>8 DEF AskFiles, Visible, Theirs
  <2>0. PICK rec : rec = [op |-> op, project |-> p, docs |-> Resolve(F, Accessible(u))]
    OBVIOUS
  <2>2. Resolve(F, Accessible(u)) \subseteq Doc
    BY ResolveIn, AccessibleIn
  <2>3. p \in Project /\ projects[p] # None
    BY <2>1, VisibleProject
  <2>4. Startable(r, rec)
    BY <2>0, <2>2, <2>3 DEF Startable, ReqRec, StillHolds, OnMembers
  <2> QED BY <2>0, <2>1, <2>4, AskStep
<1>9. CASE AskDetach(r)
  <2>1. PICK u \in User, d \in Doc, p \in Project :
          p \in Visible(u) /\ Ask(r, [op |-> "detach", project |-> p, docs |-> {d}])
    BY <1>9 DEF AskDetach, Visible, Theirs
  <2>2. p \in Project /\ projects[p] # None
    BY <2>1, VisibleProject
  <2>3. Startable(r, [op |-> "detach", project |-> p, docs |-> {d}])
    BY <2>1, <2>2 DEF Startable, ReqRec, StillHolds, OnMembers
  <2> QED BY <2>1, <2>3, AskStep
<1>10. CASE AskUpload(r)
  <2>1. PICK u \in User, d \in Doc : Ask(r, [op |-> "upload", user |-> u, docs |-> {d}])
    BY <1>10 DEF AskUpload
  <2>2. Startable(r, [op |-> "upload", user |-> u, docs |-> {d}])
    BY <2>1 DEF Startable, ReqRec, StillHolds, OnMembers
  <2> QED BY <2>1, <2>2, AskStep
<1>11. CASE AskShare(r)
  <2>1. PICK u \in User, s \in Share, p \in Project :
          /\ p \in Visible(u) /\ shares[s] = None /\ \A q \in Request : ~Doing(q, "share")
          /\ Ask(r, [op |-> "share", share |-> s,
                     rec |-> [owner |-> projects[p].owner, by |-> u, revoked |-> FALSE,
                              docs |-> Resolve(projects[p].files, owned[u] \union Public)]])
    BY <1>11 DEF AskShare, Visible, Theirs
  <2>0. PICK rec :
          rec = [op |-> "share", share |-> s,
                 rec |-> [owner |-> projects[p].owner, by |-> u, revoked |-> FALSE,
                          docs |-> Resolve(projects[p].files, owned[u] \union Public)]]
    OBVIOUS
  <2>2. /\ Resolve(projects[p].files, owned[u] \union Public) \subseteq owned[u] \union Public
        /\ owned[u] \union Public \subseteq Doc
    BY ResolveIn, Nothing DEF TypeOK
  <2>3. projects[p].owner \in User
    BY <2>1, VisibleProject DEF ProjectRec
  <2>4. rec.rec \in ShareRec
    BY <2>0, <2>2, <2>3 DEF ShareRec
  <2>5. rec \in ReqRec
    BY <2>0, <2>4 DEF ReqRec
  <2>6. StillHolds(rec)
    <3>1. owned[u] \subseteq had[u]
      BY DEF HadInv
    <3> QED BY <2>0, <2>1, <2>2, <3>1 DEF StillHolds, OnMembers
  <2>7. Startable(r, rec)
    BY <2>0, <2>1, <2>5, <2>6 DEF Startable, OnMembers
  <2> QED BY <2>0, <2>1, <2>7, AskStep
<1>12. CASE AskRevoke(r)
  <2>1. PICK u \in User, s \in Share : shares[s] # None /\ Ask(r, [op |-> "revoke", share |-> s])
    BY <1>12 DEF AskRevoke
  <2>2. Startable(r, [op |-> "revoke", share |-> s])
    BY <2>1 DEF Startable, ReqRec, StillHolds, OnMembers
  <2> QED BY <2>1, <2>2, AskStep
<1>13. CASE AskFork(r)
  <2>1. PICK u \in User, s \in Share, p \in Project :
          /\ shares[s] # None
          /\ Ask(r, [op |-> "createProject", user |-> u, project |-> p, space |-> None,
                     docs |-> shares[s].docs, from |-> s])
    BY <1>13 DEF AskFork
  <2>0. PICK rec : rec = [op |-> "createProject", user |-> u, project |-> p, space |-> None,
                          docs |-> shares[s].docs, from |-> s]
    OBVIOUS
  <2>2. shares[s].docs \subseteq Doc
    BY <2>1 DEF TypeOK, ShareRec
  <2>3. Startable(r, rec)
    BY <2>0, <2>1, <2>2 DEF Startable, ReqRec, StillHolds, OnMembers
  <2> QED BY <2>0, <2>1, <2>3, AskStep
<1> QED BY <1>1, <1>2, <1>3, <1>4, <1>5, <1>6, <1>7, <1>8, <1>9, <1>10, <1>11, <1>12, <1>13, <1>14
        DEF Checks

-----------------------------------------------------------------------------
(* The writes *)

\* The fields a request has, by what it is about.
LEMMA ReqFields ==
  ASSUME NEW q \in ReqRec
  PROVE  /\ q.op \in OnMembers \union {"createSpace", "found", "stamp", "save", "spaceDocs"} => q.space \in Space
         /\ q.op \in {"createSpace", "found", "addMember", "removeMember", "createProject", "upload", "grant"} =>
              q.user \in User
         /\ q.op \in {"addMember", "setRole"} => q.role \in Role \ {"owner"}
         /\ q.op \in {"createSpace", "found"} => q.stamp \in BOOLEAN
         /\ q.op = "save" => q.rest \in SUBSET Project /\ q.read \in [Project -> ProjectRec \union {None, Gone}]
         /\ q.op \in {"attach", "setFiles", "detach", "createProject", "deleteProject"} => q.project \in Project
         /\ q.op = "createProject" => q.space \in Space \union {None} /\ q.from \in Share \union {None}
         /\ q.op \in {"attach", "setFiles", "detach", "createProject", "upload", "spaceDocs", "grant"} =>
              q.docs \in SUBSET Doc
         /\ q.op \in {"share", "revoke", "dropGrants", "grant"} => q.share \in Share
         /\ q.op = "share" => q.rec \in ShareRec
BY DEF ReqRec, OnMembers

\* A request in progress is one of the records above.
LEMMA ReqTyped ==
  ASSUME IInv, NEW r \in Request, req[r] # None PROVE req[r] \in ReqRec
BY DEF IInv, TypeOK

\* What the tables of documents, shares and grants have to do with each other.
Kept == HadInv /\ PublishedInv /\ GrantsComeFromForks

\* Rows are added and changed, and none goes back to never having been there; a
\* new row is the one its request has the id of.
Steady(r) ==
  /\ \A w \in Space : spaces[w] # None => spaces'[w] \in {spaces[w], Gone}
  /\ \A w \in Space : spaces[w] = None /\ spaces'[w] # None =>
       Doing(r, "createSpace") /\ req[r].space = w
  /\ \A s \in Share : shares[s] # None =>
       shares'[s] # None /\ shares'[s].docs = shares[s].docs /\ shares'[s].by = shares[s].by
  /\ \A s \in Share : shares[s] = None /\ shares'[s] # None => Doing(r, "share") /\ req[r].share = s
  /\ \A u \in User : had[u] \subseteq had'[u]
  /\ forks' = forks
  /\ \A p \in Project : projects[p] # None => projects'[p] # None

\* What the other requests rely on outlasts such a write.
LEMMA OthersHold ==
  ASSUME IInv, NEW r \in Request, Steady(r), NEW q \in Request, q # r, NEW x, x = req[q], x # None
  PROVE  StillHolds(x)' /\ IsFork(x)'
<1>1. StillHolds(x) /\ x \in ReqRec
  BY DEF IInv, ReqInv, TypeOK
<1>11. IsFork(x)'
  BY DEF IInv, ForkInv, IsFork, Steady
<1>12. x.op = "save" => \A p \in x.rest : projects'[p] # None /\ x.read[p] \in ProjectRec
  BY <1>1, ReqFields DEF StillHolds, Steady
<1>13. x.op = "removeMember" => spaces'[x.space] # x.user
  <2>1. x.op = "removeMember" => x.space \in Space /\ x.user \in User /\ spaces[x.space] # None
    BY <1>1, ReqFields DEF StillHolds, OnMembers
  <2>2. x.op = "removeMember" => spaces[x.space] # x.user
    BY <1>1 DEF StillHolds
  <2> QED BY <2>1, <2>2, Nothing DEF Steady
<1>2. x.op = "createSpace" => ~Doing(r, "createSpace")
  BY DEF IInv, FreshInv, Doing
<1>3. x.op = "share" => ~Doing(r, "share")
  BY DEF IInv, FreshInv, Doing
<1>4. x.op = "createSpace" => spaces'[x.space] = None
  BY <1>1, <1>2, ReqFields DEF StillHolds, Steady
<1>5. x.op \in OnMembers => spaces'[x.space] # None
  BY <1>1, ReqFields, Nothing DEF StillHolds, Steady
<1>6. x.op \in {"attach", "setFiles", "detach"} => projects'[x.project] # None
  BY <1>1, ReqFields DEF StillHolds, Steady
<1>7. x.op = "createProject" /\ x.from # None => shares'[x.from] # None /\ x.docs \subseteq shares'[x.from].docs
  BY <1>1, ReqFields DEF StillHolds, Steady
<1>8. x.op = "grant" => shares'[x.share] # None /\ x.docs \subseteq shares'[x.share].docs
  BY <1>1, ReqFields DEF StillHolds, Steady
<1>9. x.op = "share" => shares'[x.share] = None /\ x.rec.docs \subseteq had'[x.rec.by] \union Public
  <2>1. x.op = "share" => x.share \in Share /\ x.rec.by \in User
    BY <1>1, ReqFields DEF ShareRec
  <2> QED BY <1>1, <1>3, <2>1 DEF StillHolds, Steady
<1>10. x.op = "revoke" => shares'[x.share] # None
  BY <1>1, ReqFields DEF StillHolds, Steady
<1> QED BY <1>4, <1>5, <1>6, <1>7, <1>8, <1>9, <1>10, <1>11, <1>12, <1>13 DEF StillHolds

\* What is left of a request after a write: nothing, or another write.
Left(rec) ==
  rec = None \/ (rec \in ReqRec /\ rec.op \in {"grant", "spaceDocs", "dropGrants", "stamp", "save"})

\* A write leaves the requests as the invariant has them.
LEMMA WriteStep ==
  ASSUME IInv, NEW r \in Request, NEW rec, req' = [req EXCEPT ![r] = rec],
         Left(rec), rec # None => StillHolds(rec)' /\ IsFork(rec)', Steady(r),
         \A q \in Request \ {r} : Doing(q, "found") =>
           spaces'[req[q].space] = spaces[req[q].space] /\ members'[req[q].space] = members[req[q].space]
  PROVE  req' \in [Request -> ReqRec \union {None}] /\ ReqInv' /\ ForkInv' /\ FreshInv' /\ FoundInv'
<1>1. /\ \A q \in Request : req'[q] = IF q = r THEN rec ELSE req[q]
      /\ req' \in [Request -> ReqRec \union {None}]
  BY DEF IInv, TypeOK, Left
<1>2. ReqInv' /\ ForkInv'
  <2>1. ASSUME NEW q \in Request, NEW x, x = req'[q], x # None PROVE StillHolds(x)' /\ IsFork(x)'
    BY <1>1, <2>1, OthersHold
  <2> QED BY <2>1 DEF ReqInv, StillHolds, ForkInv, IsFork
<1>3. FreshInv'
  BY <1>1 DEF IInv, FreshInv, Doing, Left
<1>4. FoundInv'
  <2>1. ASSUME NEW q \in Request, Doing(q, "found")' PROVE q # r /\ Doing(q, "found") /\ req'[q] = req[q]
    BY <1>1, <2>1 DEF Doing, Left
  <2>2. ASSUME NEW q \in Request, Doing(q, "found")'
        PROVE  /\ spaces'[req'[q].space] = req'[q].user
               /\ \A u \in User : members'[req'[q].space][u] = None
    BY <2>1, <2>2 DEF IInv, FoundInv
  <2>3. ASSUME NEW q \in Request, Doing(q, "found")', NEW p \in Request \ {q}, req'[p] # None,
               req'[p].op \in OnMembers \union {"found"}
        PROVE  req'[p].space # req'[q].space
    BY <1>1, <2>1, <2>3 DEF IInv, FoundInv, Left, OnMembers
  <2> QED BY <2>2, <2>3 DEF FoundInv
<1> QED BY <1>1, <1>2, <1>3, <1>4

\* A creator is there after a write that leaves the creators' rows.
LEMMA CreatorKept ==
  ASSUME IInv, NEW r \in Request, NEW rec, req' = [req EXCEPT ![r] = rec], ~Doing(r, "found"),
         \A w \in Space : spaces'[w] \in User =>
           spaces'[w] = spaces[w] /\ (members[w][spaces[w]] # None => members'[w][spaces[w]] # None)
  PROVE  CreatorStays'
<1> SUFFICES ASSUME NEW w \in Space, spaces'[w] \in User, members'[w][spaces'[w]] = None
             PROVE  \E q \in Request : Doing(q, "found")' /\ req'[q].space = w
  BY DEF CreatorStays
<1>1. PICK q \in Request : Doing(q, "found") /\ req[q].space = w
  BY DEF IInv, CreatorStays
<1>2. req'[q] = req[q]
  BY <1>1 DEF IInv, TypeOK
<1> QED BY <1>1, <1>2 DEF Doing

\* The first statement of create_workspace: the one write that leaves a request
\* on the members behind, and nobody else has one on the new workspace.
LEMMA InsertSpaceStep == ASSUME IInv, NEW r \in Request, InsertSpace(r) PROVE IInv'
<1>0. req[r] \in [op : {"createSpace", "found"}, user : User, space : Space, stamp : BOOLEAN]
  BY ReqTyped DEF InsertSpace, Doing, ReqRec
<1>1. PICK w \in Space, u \in User : req[r].space = w /\ req[r].user = u
  BY <1>0
<1>2. PICK rec :
        /\ rec = [req[r] EXCEPT !.op = "found"]
        /\ rec \in [op : {"createSpace", "found"}, user : User, space : Space, stamp : BOOLEAN]
        /\ rec.op = "found" /\ rec.space = w /\ rec.user = u
  <2>1. PICK rec : rec = [req[r] EXCEPT !.op = "found"]
    OBVIOUS
  <2>2. /\ rec \in [op : {"createSpace", "found"}, user : User, space : Space, stamp : BOOLEAN]
        /\ rec.op = "found" /\ rec.space = w /\ rec.user = u
    BY <1>0, <1>1, <2>1
  <2> QED BY <2>1, <2>2
<1>3. /\ req' = [req EXCEPT ![r] = rec]
      /\ spaces' = [spaces EXCEPT ![w] = u]
      /\ UNCHANGED <<members, spaceDocs, owned, had, shares, grants, projects, forks>>
      /\ Doing(r, "createSpace")
  BY <1>1, <1>2 DEF InsertSpace, Next1
<1>4. /\ spaces[w] = None
      /\ \A v \in User : members[w][v] = None
  BY <1>1, <1>3 DEF IInv, ReqInv, StillHolds, UnbornInv, Doing
<1>5. /\ \A q \in Request : req'[q] = IF q = r THEN rec ELSE req[q]
      /\ rec \in ReqRec
      /\ \A x \in Space : spaces'[x] = IF x = w THEN u ELSE spaces[x]
  BY <1>2, <1>3 DEF IInv, TypeOK, ReqRec
<1>6. TypeOK'
  BY <1>3, <1>5 DEF IInv, TypeOK
<1>7. Steady(r)
  BY <1>1, <1>3, <1>4, <1>5, Nothing DEF Steady
<1>8. ReqInv' /\ ForkInv'
  <2>1. ASSUME NEW q \in Request, NEW x, x = req'[q], x # None PROVE StillHolds(x)' /\ IsFork(x)'
    <3>1. CASE q = r
      BY <1>2, <1>5, <2>1, <3>1, Nothing DEF StillHolds, OnMembers, IsFork
    <3>2. CASE q # r
      BY <1>5, <1>7, <2>1, <3>2, OthersHold
    <3> QED BY <3>1, <3>2
  <2> QED BY <2>1 DEF ReqInv, StillHolds, ForkInv, IsFork
<1>9. FreshInv'
  BY <1>2, <1>5 DEF IInv, FreshInv, Doing
<1>10. FoundInv'
  <2>1. ASSUME NEW q \in Request, req[q] # None, req[q].op \in OnMembers \union {"found"}
        PROVE  req[q].space # w
    <3>1. CASE req[q].op \in OnMembers
      BY <1>4, <2>1, <3>1 DEF IInv, ReqInv, StillHolds
    <3>2. CASE req[q].op = "found"
      <4>1. spaces[req[q].space] = req[q].user /\ req[q].user \in User
        BY <2>1, <3>2, ReqFields, ReqTyped DEF IInv, FoundInv, Doing
      <4> QED BY <1>4, <4>1, Nothing
    <3> QED BY <2>1, <3>1, <3>2
  <2>2. ASSUME NEW q \in Request \ {r}, Doing(q, "found") PROVE req[q].space # w /\ req[q].space \in Space
    BY <2>1, <2>2, ReqFields, ReqTyped DEF Doing, OnMembers
  <2>3. ASSUME NEW q \in Request, Doing(q, "found")'
        PROVE  /\ spaces'[req'[q].space] = req'[q].user
               /\ \A v \in User : members'[req'[q].space][v] = None
    <3>1. CASE q = r
      BY <1>2, <1>3, <1>4, <1>5, <3>1
    <3>2. CASE q # r
      <4>1. req'[q] = req[q] /\ Doing(q, "found")
        BY <1>5, <2>3, <3>2 DEF Doing
      <4> QED BY <1>3, <1>5, <2>2, <3>2, <4>1 DEF IInv, FoundInv
    <3> QED BY <3>1, <3>2
  <2>4. ASSUME NEW q \in Request, Doing(q, "found")', NEW p \in Request \ {q}, req'[p] # None,
               req'[p].op \in OnMembers \union {"found"}
        PROVE  req'[p].space # req'[q].space
    <3>1. CASE q = r
      BY <1>2, <1>5, <2>1, <2>4, <3>1
    <3>2. CASE q # r
      <4>1. req'[q] = req[q] /\ Doing(q, "found")
        BY <1>5, <2>4, <3>2 DEF Doing
      <4> QED BY <1>2, <1>5, <2>2, <2>4, <3>2, <4>1 DEF IInv, FoundInv
    <3> QED BY <3>1, <3>2
  <2> QED BY <2>3, <2>4 DEF FoundInv
<1>11. UnbornInv' /\ OneOwner' /\ DeadSpacesAreEmpty'
  BY <1>3, <1>4, <1>5, Nothing
  DEF IInv, UnbornInv, OneOwner, DeadSpacesAreEmpty, Role
<1>12. Kept'
  BY <1>3 DEF IInv, Kept, HadInv, PublishedInv, GrantsComeFromForks
<1>13. CreatorStays'
  <2>1. Doing(r, "found")' /\ req'[r].space = w
    BY <1>2, <1>5, RequestAssumption DEF Doing
  <2>2. ASSUME NEW x \in Space, x # w, spaces'[x] \in User, members'[x][spaces'[x]] = None
        PROVE  \E q \in Request : Doing(q, "found")' /\ req'[q].space = x
    <3>1. PICK q \in Request : Doing(q, "found") /\ req[q].space = x
      BY <1>3, <1>5, <2>2 DEF IInv, CreatorStays
    <3>2. req'[q] = req[q]
      BY <1>3, <1>5, <3>1 DEF Doing
    <3> QED BY <3>1, <3>2 DEF Doing
  <2> QED BY <2>1, <2>2 DEF CreatorStays
<1> QED BY <1>6, <1>8, <1>9, <1>10, <1>11, <1>12, <1>13 DEF IInv, Kept

\* The second one: who asked for the workspace is its first member.
LEMMA InsertFounderStep == ASSUME IInv, NEW r \in Request, InsertFounder(r) PROVE IInv'
<1>0. req[r] \in [op : {"createSpace", "found"}, user : User, space : Space, stamp : BOOLEAN]
  BY ReqTyped DEF InsertFounder, Doing, ReqRec
<1>1. PICK w \in Space, u \in User : req[r].space = w /\ req[r].user = u
  BY <1>0
<1>2. PICK rec :
        rec = IF req[r].stamp THEN [op |-> "stamp", user |-> u, space |-> w] ELSE None
  OBVIOUS
<1>3. /\ req' = [req EXCEPT ![r] = rec]
      /\ members' = [members EXCEPT ![w][u] = "owner"]
      /\ UNCHANGED <<spaces, spaceDocs, owned, had, shares, grants, projects, forks>>
      /\ Doing(r, "found")
  BY <1>1, <1>2 DEF InsertFounder, Answer, Next1
<1>4. spaces[w] = u
  BY <1>1, <1>3 DEF IInv, FoundInv
<1>5. /\ members' \in [Space -> [User -> Role \union {None}]]
      /\ \A x \in Space \ {w} : members'[x] = members[x]
      /\ \A v \in User \ {u} : members'[w][v] = members[w][v]
      /\ members'[w][u] = "owner"
  BY <1>3 DEF IInv, TypeOK, Role
<1>6. req' \in [Request -> ReqRec \union {None}] /\ ReqInv' /\ ForkInv' /\ FreshInv' /\ FoundInv'
  <2>1. Steady(r)
    BY <1>3 DEF Steady
  <2>2. ASSUME NEW q \in Request \ {r}, Doing(q, "found") PROVE req[q].space # w /\ req[q].space \in Space
    BY <1>1, <1>3, <2>2, ReqFields, ReqTyped DEF IInv, FoundInv, Doing
  <2>3. \A q \in Request \ {r} : Doing(q, "found") =>
          spaces'[req[q].space] = spaces[req[q].space] /\ members'[req[q].space] = members[req[q].space]
    BY <1>3, <1>5, <2>2
  <2>4. Left(rec) /\ (rec # None => StillHolds(rec)' /\ IsFork(rec)')
    BY <1>2 DEF Left, ReqRec, StillHolds, OnMembers, IsFork
  <2> QED BY <1>3, <2>1, <2>3, <2>4, WriteStep
<1>7. TypeOK'
  BY <1>3, <1>5, <1>6 DEF IInv, TypeOK
<1>8. UnbornInv' /\ Kept'
  BY <1>3, <1>4, <1>5, Nothing DEF IInv, UnbornInv, Kept, HadInv, PublishedInv, GrantsComeFromForks
<1>9. OneOwner'
  BY <1>3, <1>4, <1>5 DEF IInv, OneOwner
<1>10. DeadSpacesAreEmpty'
  BY <1>3, <1>4, <1>5 DEF IInv, DeadSpacesAreEmpty
<1>11. CreatorStays'
  <2>1. members'[w][spaces'[w]] # None
    BY <1>3, <1>4, <1>5, Nothing DEF Role
  <2>2. ASSUME NEW x \in Space, x # w, spaces'[x] \in User, members'[x][spaces'[x]] = None
        PROVE  \E q \in Request : Doing(q, "found")' /\ req'[q].space = x
    <3>1. PICK q \in Request : Doing(q, "found") /\ req[q].space = x
      BY <1>3, <1>5, <2>2 DEF IInv, CreatorStays
    <3>2. req'[q] = req[q]
      BY <1>1, <1>3, <2>2, <3>1 DEF IInv, TypeOK
    <3> QED BY <3>1, <3>2 DEF Doing
  <2> QED BY <2>1, <2>2 DEF CreatorStays
<1> QED BY <1>6, <1>7, <1>8, <1>9, <1>10, <1>11 DEF IInv, Kept

\* The statements on the members that follow.
LEMMA InsertMemberStep == ASSUME IInv, NEW r \in Request, InsertMember(r) PROVE IInv'
<1>1. PICK w \in Space, u \in User, role \in Role \ {"owner"} :
        req[r].space = w /\ req[r].user = u /\ req[r].role = role
  BY ReqTyped DEF InsertMember, Doing, ReqRec
<1>2. /\ req' = [req EXCEPT ![r] = None]
      /\ members' = IF Keys(w) THEN [members EXCEPT ![w][u] = role] ELSE members
      /\ UNCHANGED <<spaces, spaceDocs, owned, had, shares, grants, projects, forks>>
      /\ Doing(r, "addMember")
  BY <1>1 DEF InsertMember, Answer, Next1
<1>3. /\ members' \in [Space -> [User -> Role \union {None}]]
      /\ \A x \in Space \ {w} : members'[x] = members[x]
      /\ \A v \in User \ {u} : members'[w][v] = members[w][v]
      /\ members'[w][u] \in {role, members[w][u]}
  BY <1>2 DEF IInv, TypeOK
<1>4. spaces[w] # None
  BY <1>1, <1>2 DEF IInv, ReqInv, StillHolds, Doing, OnMembers
<1>5. req' \in [Request -> ReqRec \union {None}] /\ ReqInv' /\ ForkInv' /\ FreshInv' /\ FoundInv'
  <2>1. Steady(r)
    BY <1>2 DEF Steady
  <2>2. ASSUME NEW q \in Request \ {r}, Doing(q, "found") PROVE req[q].space # w /\ req[q].space \in Space
    BY <1>1, <1>2, <2>2, ReqFields, ReqTyped DEF IInv, FoundInv, Doing, OnMembers
  <2>3. \A q \in Request \ {r} : Doing(q, "found") =>
          spaces'[req[q].space] = spaces[req[q].space] /\ members'[req[q].space] = members[req[q].space]
    BY <1>2, <1>3, <2>2
  <2> QED BY <1>2, <2>1, <2>3, WriteStep DEF Left
<1>6. TypeOK'
  BY <1>2, <1>3, <1>5 DEF IInv, TypeOK
<1>7. UnbornInv' /\ Kept'
  BY <1>2, <1>3, <1>4 DEF IInv, UnbornInv, Kept, HadInv, PublishedInv, GrantsComeFromForks
<1>8. OneOwner'
  BY <1>2, <1>3, <1>4 DEF IInv, OneOwner
<1>9. DeadSpacesAreEmpty'
  BY <1>2, <1>3 DEF IInv, DeadSpacesAreEmpty, Keys
<1>10. CreatorStays'
  BY <1>2, <1>3, Nothing, CreatorKept DEF Doing, Role
<1> QED BY <1>5, <1>6, <1>7, <1>8, <1>9, <1>10 DEF IInv, Kept

LEMMA UpdateRoleStep == ASSUME IInv, NEW r \in Request, UpdateRole(r) PROVE IInv'
<1>1. PICK w \in Space, u \in User, role \in Role \ {"owner"} :
        req[r].space = w /\ req[r].user = u /\ req[r].role = role
  BY ReqTyped DEF UpdateRole, Doing, ReqRec
<1>2. /\ req' = [req EXCEPT ![r] = None]
      /\ members' = IF members[w][u] = None THEN members ELSE [members EXCEPT ![w][u] = role]
      /\ UNCHANGED <<spaces, spaceDocs, owned, had, shares, grants, projects, forks>>
      /\ Doing(r, "setRole")
  BY <1>1 DEF UpdateRole, Answer, Next1
<1>3. /\ members' \in [Space -> [User -> Role \union {None}]]
      /\ \A x \in Space \ {w} : members'[x] = members[x]
      /\ \A v \in User \ {u} : members'[w][v] = members[w][v]
      /\ members'[w][u] \in {role, members[w][u]}
      /\ members[w][u] = None => members' = members
  BY <1>2 DEF IInv, TypeOK
<1>4. spaces[w] # None
  BY <1>1, <1>2 DEF IInv, ReqInv, StillHolds, Doing, OnMembers
<1>5. req' \in [Request -> ReqRec \union {None}] /\ ReqInv' /\ ForkInv' /\ FreshInv' /\ FoundInv'
  <2>1. Steady(r)
    BY <1>2 DEF Steady
  <2>2. ASSUME NEW q \in Request \ {r}, Doing(q, "found") PROVE req[q].space # w /\ req[q].space \in Space
    BY <1>1, <1>2, <2>2, ReqFields, ReqTyped DEF IInv, FoundInv, Doing, OnMembers
  <2>3. \A q \in Request \ {r} : Doing(q, "found") =>
          spaces'[req[q].space] = spaces[req[q].space] /\ members'[req[q].space] = members[req[q].space]
    BY <1>2, <1>3, <2>2
  <2> QED BY <1>2, <2>1, <2>3, WriteStep DEF Left
<1>6. TypeOK'
  BY <1>2, <1>3, <1>5 DEF IInv, TypeOK
<1>7. UnbornInv' /\ Kept'
  BY <1>2, <1>3, <1>4 DEF IInv, UnbornInv, Kept, HadInv, PublishedInv, GrantsComeFromForks
<1>8. OneOwner'
  BY <1>2, <1>3 DEF IInv, OneOwner
<1>9. DeadSpacesAreEmpty'
  <2> SUFFICES ASSUME ~InMemory, NEW x \in Space, spaces[x] \notin User
               PROVE  members'[x] = [v \in User |-> None] /\ spaceDocs[x] = {}
    BY <1>2 DEF DeadSpacesAreEmpty
  <2>1. members[x] = [v \in User |-> None] /\ spaceDocs[x] = {}
    BY DEF IInv, DeadSpacesAreEmpty
  <2> QED BY <1>3, <2>1
<1>10. CreatorStays'
  BY <1>2, <1>3, Nothing, CreatorKept DEF Doing, Role
<1> QED BY <1>5, <1>6, <1>7, <1>8, <1>9, <1>10 DEF IInv, Kept

LEMMA DeleteMemberStep == ASSUME IInv, NEW r \in Request, DeleteMember(r) PROVE IInv'
<1>1. PICK w \in Space, u \in User : req[r].space = w /\ req[r].user = u
  BY ReqTyped DEF DeleteMember, Doing, ReqRec
<1>2. /\ req' = [req EXCEPT ![r] = None]
      /\ members' = [members EXCEPT ![w][u] = None]
      /\ UNCHANGED <<spaces, spaceDocs, owned, had, shares, grants, projects, forks>>
      /\ Doing(r, "removeMember")
  BY <1>1 DEF DeleteMember, Answer, Next1
<1>3. /\ members' \in [Space -> [User -> Role \union {None}]]
      /\ \A x \in Space \ {w} : members'[x] = members[x]
      /\ \A v \in User \ {u} : members'[w][v] = members[w][v]
      /\ members'[w][u] = None
  BY <1>2 DEF IInv, TypeOK
<1>4. req' \in [Request -> ReqRec \union {None}] /\ ReqInv' /\ ForkInv' /\ FreshInv' /\ FoundInv'
  <2>1. Steady(r)
    BY <1>2 DEF Steady
  <2>2. ASSUME NEW q \in Request \ {r}, Doing(q, "found") PROVE req[q].space # w /\ req[q].space \in Space
    BY <1>1, <1>2, <2>2, ReqFields, ReqTyped DEF IInv, FoundInv, Doing, OnMembers
  <2>3. \A q \in Request \ {r} : Doing(q, "found") =>
          spaces'[req[q].space] = spaces[req[q].space] /\ members'[req[q].space] = members[req[q].space]
    BY <1>2, <1>3, <2>2
  <2> QED BY <1>2, <2>1, <2>3, WriteStep DEF Left
<1>5. TypeOK'
  BY <1>2, <1>3, <1>4 DEF IInv, TypeOK
<1>6. UnbornInv' /\ Kept'
  BY <1>2, <1>3 DEF IInv, UnbornInv, Kept, HadInv, PublishedInv, GrantsComeFromForks
<1>7. OneOwner'
  BY <1>2, <1>3, Nothing DEF IInv, OneOwner, Role
<1>8. DeadSpacesAreEmpty'
  <2> SUFFICES ASSUME ~InMemory, NEW x \in Space, spaces[x] \notin User
               PROVE  members'[x] = [v \in User |-> None] /\ spaceDocs[x] = {}
    BY <1>2 DEF DeadSpacesAreEmpty
  <2>1. members[x] = [v \in User |-> None] /\ spaceDocs[x] = {}
    BY DEF IInv, DeadSpacesAreEmpty
  <2> QED BY <1>3, <2>1
<1>9. CreatorStays'
  <2>1. u # spaces[w]
    BY <1>1, <1>2 DEF IInv, ReqInv, StillHolds, Doing
  <2> QED BY <1>2, <1>3, <2>1, CreatorKept DEF Doing
<1> QED BY <1>4, <1>5, <1>6, <1>7, <1>8, <1>9 DEF IInv, Kept

LEMMA DeleteSpaceStep == ASSUME IInv, NEW r \in Request, DeleteSpace(r) PROVE IInv'
<1>1. PICK w \in Space : req[r].space = w
  BY ReqTyped DEF DeleteSpace, Doing, ReqRec
<1>2. /\ req' = [req EXCEPT ![r] = None]
      /\ spaces' = [spaces EXCEPT ![w] = Gone]
      /\ members' = [members EXCEPT ![w] = [u \in User |-> None]]
      /\ spaceDocs' = [spaceDocs EXCEPT ![w] = {}]
      /\ UNCHANGED <<owned, had, shares, grants, projects, forks>>
      /\ Doing(r, "deleteSpace")
  BY <1>1 DEF DeleteSpace, Answer, Next1
<1>3. /\ members' \in [Space -> [User -> Role \union {None}]]
      /\ \A x \in Space : members'[x] = IF x = w THEN [u \in User |-> None] ELSE members[x]
      /\ \A x \in Space : spaces'[x] = IF x = w THEN Gone ELSE spaces[x]
      /\ \A x \in Space : spaceDocs'[x] = IF x = w THEN {} ELSE spaceDocs[x]
  BY <1>2 DEF IInv, TypeOK
<1>4. spaces[w] # None
  BY <1>1, <1>2 DEF IInv, ReqInv, StillHolds, Doing, OnMembers
<1>5. req' \in [Request -> ReqRec \union {None}] /\ ReqInv' /\ ForkInv' /\ FreshInv' /\ FoundInv'
  <2>1. Steady(r)
    BY <1>2, <1>3, <1>4, Nothing DEF Steady
  <2>2. ASSUME NEW q \in Request \ {r}, Doing(q, "found") PROVE req[q].space # w /\ req[q].space \in Space
    BY <1>1, <1>2, <2>2, ReqFields, ReqTyped DEF IInv, FoundInv, Doing, OnMembers
  <2>3. \A q \in Request \ {r} : Doing(q, "found") =>
          spaces'[req[q].space] = spaces[req[q].space] /\ members'[req[q].space] = members[req[q].space]
    BY <1>3, <2>2
  <2> QED BY <1>2, <2>1, <2>3, WriteStep DEF Left
<1>6. TypeOK'
  BY <1>2, <1>3, <1>5 DEF IInv, TypeOK
<1>7. UnbornInv' /\ Kept'
  BY <1>2, <1>3 DEF IInv, UnbornInv, Kept, HadInv, PublishedInv, GrantsComeFromForks
<1>8. OneOwner'
  BY <1>2, <1>3, Nothing DEF IInv, OneOwner, Role
<1>9. DeadSpacesAreEmpty'
  BY <1>2, <1>3 DEF IInv, DeadSpacesAreEmpty
<1>10. CreatorStays'
  <2>1. \A x \in Space : spaces'[x] \in User => x # w /\ spaces'[x] = spaces[x] /\ members'[x] = members[x]
    BY <1>3, Nothing
  <2>2. ~Doing(r, "found")
    BY <1>2 DEF Doing
  <2> QED BY <1>2, <2>1, <2>2, CreatorKept
<1> QED BY <1>5, <1>6, <1>7, <1>8, <1>9, <1>10 DEF IInv, Kept

\* The writes that leave workspaces and members alone.
LEMMA RestStep ==
  ASSUME IInv, NEW r \in Request, NEW rec, req' = [req EXCEPT ![r] = rec],
         Left(rec), rec # None => StillHolds(rec)' /\ IsFork(rec)', Steady(r), ~Doing(r, "found"),
         UNCHANGED <<spaces, members>>, spaceDocs' \in [Space -> SUBSET Doc],
         owned' \in [User -> SUBSET Doc], had' \in [User -> SUBSET Doc],
         shares' \in [Share -> ShareRec \union {None}], grants' \subseteq User \X Doc \X Share,
         projects' \in [Project -> ProjectRec \union {None, Gone}],
         \A w \in Space : spaceDocs'[w] = spaceDocs[w] \/ InMemory \/ spaces[w] \in User,
         Kept'
  PROVE  IInv'
<1>1. req' \in [Request -> ReqRec \union {None}] /\ ReqInv' /\ ForkInv' /\ FreshInv' /\ FoundInv'
  BY WriteStep
<1>2. TypeOK'
  BY <1>1 DEF IInv, TypeOK, Steady
<1>3. UnbornInv' /\ OneOwner'
  BY DEF IInv, UnbornInv, OneOwner
<1>4. DeadSpacesAreEmpty'
  BY DEF IInv, DeadSpacesAreEmpty
<1>5. CreatorStays'
  BY CreatorKept
<1> QED BY <1>1, <1>2, <1>3, <1>4, <1>5 DEF IInv, Kept

LEMMA InsertDocumentStep == ASSUME IInv, NEW r \in Request, InsertDocument(r) PROVE IInv'
<1>1. PICK u \in User, D \in SUBSET Doc : req[r].user = u /\ req[r].docs = D
  BY ReqTyped DEF InsertDocument, Doing, ReqRec
<1>2. /\ req' = [req EXCEPT ![r] = None]
      /\ owned' = [owned EXCEPT ![u] = @ \union D] /\ had' = [had EXCEPT ![u] = @ \union D]
      /\ UNCHANGED <<spaces, members, spaceDocs, shares, grants, projects, forks>>
      /\ Doing(r, "upload")
  BY <1>1 DEF InsertDocument, Answer, Next1
<1>3. /\ owned' \in [User -> SUBSET Doc] /\ had' \in [User -> SUBSET Doc]
      /\ \A v \in User : had[v] \subseteq had'[v] /\ (owned[v] \subseteq had[v] => owned'[v] \subseteq had'[v])
  BY <1>2 DEF IInv, TypeOK
<1>4. Kept'
  BY <1>2, <1>3 DEF IInv, TypeOK, Kept, HadInv, PublishedInv, GrantsComeFromForks, ShareRec
<1>5. Steady(r)
  BY <1>2, <1>3 DEF Steady
<1> QED BY <1>2, <1>3, <1>4, <1>5, RestStep DEF IInv, TypeOK, Doing, Left

LEMMA InsertProjectStep == ASSUME IInv, NEW r \in Request, InsertProject(r) PROVE IInv'
<1>1. PICK u \in User, p \in Project, w \in Space \union {None}, D \in SUBSET Doc, s \in Share \union {None} :
        /\ req[r].user = u /\ req[r].project = p /\ req[r].space = w
        /\ req[r].docs = D /\ req[r].from = s
  BY ReqTyped DEF InsertProject, Doing, ReqRec
<1>2. PICK rec :
        rec = IF s # None /\ D # {} THEN [op |-> "grant", user |-> u, docs |-> D, share |-> s] ELSE None
  OBVIOUS
<1>3. /\ req' = [req EXCEPT ![r] = rec]
      /\ projects' = [projects EXCEPT ![p] = [owner |-> u, space |-> w, files |-> D, from |-> s]]
      /\ UNCHANGED <<spaces, members, spaceDocs, owned, had, shares, grants, forks>>
      /\ Doing(r, "createProject")
  BY <1>1, <1>2 DEF InsertProject, Answer, Next1
<1>4. [owner |-> u, space |-> w, files |-> D, from |-> s] \in ProjectRec
  BY DEF ProjectRec
<1>5. projects' \in [Project -> ProjectRec \union {None, Gone}]
      /\ \A x \in Project : projects[x] # None => projects'[x] # None
  BY <1>3, <1>4, Nothing DEF IInv, TypeOK
<1>6. Left(rec) /\ (rec # None => StillHolds(rec)' /\ IsFork(rec)')
  <2>1. s # None => shares[s] # None /\ D \subseteq shares[s].docs /\ <<u, s>> \in forks
    BY <1>1, <1>3 DEF IInv, ReqInv, ForkInv, StillHolds, IsFork, Doing
  <2> QED BY <1>2, <1>3, <2>1 DEF Left, ReqRec, StillHolds, OnMembers, IsFork
<1>7. Kept'
  BY <1>3 DEF IInv, Kept, HadInv, PublishedInv, GrantsComeFromForks
<1>8. Steady(r)
  BY <1>3, <1>5 DEF Steady
<1> QED BY <1>3, <1>5, <1>6, <1>7, <1>8, RestStep DEF IInv, TypeOK, Doing

\* The request after one statement of a list of documents.
LEMMA OneLessLeft ==
  ASSUME IInv, NEW r \in Request, NEW d \in Doc, OneLess(r, d), UNCHANGED <<shares, forks>>,
         Doing(r, "grant") \/ Doing(r, "spaceDocs")
  PROVE  \E rec : /\ req' = [req EXCEPT ![r] = rec]
                  /\ Left(rec) /\ (rec # None => StillHolds(rec)' /\ IsFork(rec)')
<1>1. CASE req[r].docs = {d}
  BY <1>1 DEF OneLess, Answer, Next1, Left
<1>2. CASE req[r].docs # {d}
  <2>1. PICK rec : rec = [req[r] EXCEPT !.docs = @ \ {d}]
    OBVIOUS
  <2>2. req' = [req EXCEPT ![r] = rec]
    BY <1>2, <2>1 DEF OneLess, Next1
  <2>3. CASE Doing(r, "grant")
    <3>1. req[r] \in [op : {"grant"}, user : User, docs : SUBSET Doc, share : Share]
      BY <2>3, ReqTyped DEF Doing, ReqRec
    <3>2. /\ rec \in [op : {"grant"}, user : User, docs : SUBSET Doc, share : Share]
          /\ rec.share = req[r].share /\ rec.user = req[r].user /\ rec.docs \subseteq req[r].docs
      BY <2>1, <3>1
    <3>3. /\ shares[req[r].share] # None /\ req[r].docs \subseteq shares[req[r].share].docs
          /\ <<req[r].user, req[r].share>> \in forks
      BY <2>3 DEF IInv, ReqInv, ForkInv, StillHolds, IsFork, Doing
    <3>4. Left(rec)
      BY <3>2 DEF Left, ReqRec
    <3>5. StillHolds(rec)' /\ IsFork(rec)'
      BY <3>2, <3>3 DEF StillHolds, OnMembers, IsFork
    <3> QED BY <2>2, <3>4, <3>5
  <2>4. CASE Doing(r, "spaceDocs")
    <3>1. req[r] \in [op : {"spaceDocs"}, space : Space, docs : SUBSET Doc]
      BY <2>4, ReqTyped DEF Doing, ReqRec
    <3>2. rec \in [op : {"spaceDocs"}, space : Space, docs : SUBSET Doc]
      BY <2>1, <3>1
    <3>3. Left(rec) /\ StillHolds(rec)' /\ IsFork(rec)'
      BY <3>2 DEF Left, ReqRec, StillHolds, OnMembers, IsFork
    <3> QED BY <2>2, <3>3
  <2> QED BY <2>3, <2>4
<1> QED BY <1>1, <1>2

LEMMA InsertGrantsStep == ASSUME IInv, NEW r \in Request, InsertGrants(r) PROVE IInv'
<1>1. PICK u \in User, D \in SUBSET Doc, s \in Share :
        req[r].user = u /\ req[r].docs = D /\ req[r].share = s
  BY ReqTyped DEF InsertGrants, Doing, ReqRec
<1>2. PICK d \in D : grants' = grants \union {<<u, d, s>>} /\ OneLess(r, d)
  BY <1>1 DEF InsertGrants
<1>3. /\ UNCHANGED <<spaces, members, spaceDocs, owned, had, shares, projects, forks>>
      /\ Doing(r, "grant")
  BY DEF InsertGrants, OneLess, Answer, Next1
<1>4. PICK rec : req' = [req EXCEPT ![r] = rec] /\ Left(rec) /\ (rec # None => StillHolds(rec)' /\ IsFork(rec)')
  BY <1>2, <1>3, OneLessLeft
<1>5. shares[s] # None /\ D \subseteq shares[s].docs /\ <<u, s>> \in forks
  BY <1>1, <1>3 DEF IInv, ReqInv, ForkInv, StillHolds, IsFork, Doing
<1>6. grants' \subseteq User \X Doc \X Share
  BY <1>2 DEF IInv, TypeOK
<1>9. shares[s].docs \subseteq had[shares[s].by] \union Public
  BY <1>5 DEF IInv, PublishedInv
<1>7. Kept'
  BY <1>2, <1>3, <1>5, <1>9 DEF IInv, Kept, HadInv, PublishedInv, GrantsComeFromForks
<1>8. Steady(r)
  BY <1>3 DEF Steady
<1> QED BY <1>3, <1>4, <1>6, <1>7, <1>8, RestStep DEF IInv, TypeOK, Doing

LEMMA DropProjectStep == ASSUME IInv, NEW r \in Request, DropProject(r) PROVE IInv'
<1>1. /\ req' = [req EXCEPT ![r] = None]
      /\ projects' = [projects EXCEPT ![req[r].project] = Gone]
      /\ UNCHANGED <<spaces, members, spaceDocs, owned, had, shares, grants, forks>>
      /\ Doing(r, "deleteProject")
  BY DEF DropProject, Answer, Next1
<1>2. projects' \in [Project -> ProjectRec \union {None, Gone}]
      /\ \A x \in Project : projects[x] # None => projects'[x] # None
  BY <1>1, Nothing DEF IInv, TypeOK
<1>3. Kept'
  BY <1>1 DEF IInv, Kept, HadInv, PublishedInv, GrantsComeFromForks
<1>4. Steady(r)
  BY <1>1, <1>2 DEF Steady
<1> QED BY <1>1, <1>2, <1>3, <1>4, RestStep DEF IInv, TypeOK, Doing, Left

LEMMA WriteFilesStep == ASSUME IInv, NEW r \in Request, WriteFiles(r) PROVE IInv'
<1>1. PICK p \in Project, D \in SUBSET Doc : req[r].project = p /\ req[r].docs = D
  BY ReqTyped DEF WriteFiles, ReqRec
<1>2. /\ UNCHANGED <<spaces, members, spaceDocs, owned, had, shares, grants, forks>>
      /\ req[r] # None /\ req[r].op \in {"attach", "setFiles", "detach"}
  BY DEF WriteFiles, OneLess, Answer, Next1
<1>3. projects[p] # None
  BY <1>1, <1>2 DEF IInv, ReqInv, StillHolds
<1>4. Kept'
  BY <1>2 DEF IInv, Kept, HadInv, PublishedInv, GrantsComeFromForks
<1>5. CASE projects[p] = Gone
  <2>1. req' = [req EXCEPT ![r] = None] /\ UNCHANGED projects
    BY <1>1, <1>5 DEF WriteFiles, Answer, Next1
  <2>2. Steady(r)
    BY <1>2, <2>1 DEF Steady
  <2> QED BY <1>2, <1>4, <2>1, <2>2, RestStep DEF IInv, TypeOK, Doing, Left
<1>6. CASE projects[p] # Gone
  <2>1. projects[p] \in ProjectRec
    BY <1>3, <1>6 DEF IInv, TypeOK
  <2>2. PICK files \in SUBSET Doc :
          files = CASE req[r].op = "attach" -> projects[p].files \union D
                    [] req[r].op = "setFiles" -> D
                    [] req[r].op = "detach" -> projects[p].files \ D
    BY <1>2, <2>1 DEF ProjectRec
  <2>3. PICK w \in Space \union {None} : w = projects[p].space
    BY <2>1 DEF ProjectRec
  <2>4. PICK rec : rec = IF req[r].op = "attach" /\ w # None /\ D # {}
                         THEN [op |-> "spaceDocs", space |-> w, docs |-> D] ELSE None
    OBVIOUS
  <2>5. req' = [req EXCEPT ![r] = rec] /\ projects' = [projects EXCEPT ![p].files = files]
    BY <1>1, <1>6, <2>2, <2>3, <2>4 DEF WriteFiles, Answer, Next1
  <2>6. [projects[p] EXCEPT !.files = files] \in ProjectRec
    BY <2>1 DEF ProjectRec
  <2>7. projects' \in [Project -> ProjectRec \union {None, Gone}]
        /\ \A x \in Project : projects[x] # None => projects'[x] # None
    BY <2>5, <2>6, Nothing DEF IInv, TypeOK
  <2>8. Left(rec) /\ (rec # None => StillHolds(rec)' /\ IsFork(rec)')
    BY <2>3, <2>4 DEF Left, ReqRec, StillHolds, OnMembers, IsFork
  <2>9. Steady(r)
    BY <1>2, <2>7 DEF Steady
  <2> QED BY <1>2, <1>4, <2>5, <2>7, <2>8, <2>9, RestStep DEF IInv, TypeOK, Doing
<1> QED BY <1>5, <1>6

LEMMA InsertSpaceDocsStep == ASSUME IInv, NEW r \in Request, InsertSpaceDocs(r) PROVE IInv'
<1>1. PICK w \in Space, D \in SUBSET Doc : req[r].space = w /\ req[r].docs = D
  BY ReqTyped DEF InsertSpaceDocs, Doing, ReqRec
<1>2. /\ UNCHANGED <<spaces, members, owned, had, shares, grants, projects, forks>>
      /\ Doing(r, "spaceDocs")
  BY DEF InsertSpaceDocs, OneLess, Answer, Next1
<1>3. Kept' /\ Steady(r)
  BY <1>2 DEF IInv, Kept, HadInv, PublishedInv, GrantsComeFromForks, Steady
<1>4. CASE Keys(w)
  <2>1. PICK d \in D : spaceDocs' = [spaceDocs EXCEPT ![w] = @ \union {d}] /\ OneLess(r, d)
    BY <1>1, <1>4 DEF InsertSpaceDocs
  <2>2. PICK rec : req' = [req EXCEPT ![r] = rec] /\ Left(rec) /\ (rec # None => StillHolds(rec)' /\ IsFork(rec)')
    BY <1>2, <2>1, OneLessLeft
  <2>3. /\ spaceDocs' \in [Space -> SUBSET Doc]
        /\ \A x \in Space : spaceDocs'[x] = spaceDocs[x] \/ InMemory \/ spaces[x] \in User
    BY <1>4, <2>1 DEF IInv, TypeOK, Keys
  <2> QED BY <1>2, <1>3, <2>2, <2>3, RestStep DEF IInv, TypeOK, Doing
<1>5. CASE ~Keys(w)
  <2>1. req' = [req EXCEPT ![r] = None] /\ UNCHANGED spaceDocs
    BY <1>1, <1>5 DEF InsertSpaceDocs, Answer, Next1
  <2> QED BY <1>2, <1>3, <2>1, RestStep DEF IInv, TypeOK, Doing, Left
<1> QED BY <1>4, <1>5

LEMMA InsertShareStep == ASSUME IInv, NEW r \in Request, InsertShare(r) PROVE IInv'
<1>1. PICK s \in Share, sh \in ShareRec : req[r].share = s /\ req[r].rec = sh
  BY ReqTyped DEF InsertShare, Doing, ReqRec
<1>2. /\ req' = [req EXCEPT ![r] = None]
      /\ shares' = [shares EXCEPT ![s] = sh]
      /\ UNCHANGED <<spaces, members, spaceDocs, owned, had, grants, projects, forks>>
      /\ Doing(r, "share")
  BY <1>1 DEF InsertShare, Answer, Next1
<1>3. shares[s] = None /\ sh.docs \subseteq had[sh.by] \union Public
  BY <1>1, <1>2 DEF IInv, ReqInv, StillHolds, Doing
<1>4. /\ shares' \in [Share -> ShareRec \union {None}]
      /\ \A x \in Share : shares'[x] = IF x = s THEN sh ELSE shares[x]
  BY <1>2 DEF IInv, TypeOK
<1>7. GrantsComeFromForks'
  <2>1. \A g \in grants : g[3] \in Share /\ shares[g[3]] # None
    BY DEF IInv, TypeOK, GrantsComeFromForks
  <2>2. \A g \in grants : shares'[g[3]] = shares[g[3]]
    BY <1>3, <1>4, <2>1
  <2> QED BY <1>2, <2>2 DEF IInv, GrantsComeFromForks
<1>5. Kept'
  BY <1>2, <1>3, <1>4, <1>7 DEF IInv, HadInv, PublishedInv, Kept
<1>6. Steady(r)
  BY <1>1, <1>2, <1>3, <1>4, Nothing DEF Steady
<1> QED BY <1>2, <1>4, <1>5, <1>6, RestStep DEF IInv, TypeOK, Doing, Left

LEMMA MarkRevokedStep == ASSUME IInv, NEW r \in Request, MarkRevoked(r) PROVE IInv'
<1>1. PICK s \in Share : req[r].share = s
  BY ReqTyped DEF MarkRevoked, Doing, ReqRec
<1>2. PICK rec : rec = [op |-> "dropGrants", share |-> s]
  OBVIOUS
<1>3. /\ req' = [req EXCEPT ![r] = rec]
      /\ shares' = [shares EXCEPT ![s].revoked = TRUE]
      /\ UNCHANGED <<spaces, members, spaceDocs, owned, had, grants, projects, forks>>
      /\ Doing(r, "revoke")
  BY <1>1, <1>2 DEF MarkRevoked, Next1
<1>4. shares[s] # None /\ shares[s] \in ShareRec
  BY <1>1, <1>3 DEF IInv, ReqInv, TypeOK, StillHolds, Doing
<1>5. PICK sh :
        /\ sh = [shares[s] EXCEPT !.revoked = TRUE]
        /\ sh \in ShareRec /\ sh.docs = shares[s].docs /\ sh.by = shares[s].by
  <2>1. PICK sh : sh = [shares[s] EXCEPT !.revoked = TRUE]
    OBVIOUS
  <2>2. sh \in ShareRec /\ sh.docs = shares[s].docs /\ sh.by = shares[s].by
    BY <1>4, <2>1 DEF ShareRec
  <2> QED BY <2>1, <2>2
<1>6. /\ shares' \in [Share -> ShareRec \union {None}]
      /\ \A x \in Share : shares'[x] = IF x = s THEN sh ELSE shares[x]
  BY <1>3, <1>5 DEF IInv, TypeOK
<1>7. Steady(r)
  BY <1>3, <1>4, <1>5, <1>6, Nothing DEF Steady
<1>10. GrantsComeFromForks'
  <2>1. \A g \in grants : g[3] \in Share /\ shares[g[3]] # None
    BY DEF IInv, TypeOK, GrantsComeFromForks
  <2>2. \A g \in grants : /\ shares'[g[3]] # None /\ shares'[g[3]].docs = shares[g[3]].docs
                          /\ shares'[g[3]].by = shares[g[3]].by
    BY <1>5, <1>6, <2>1, Nothing
  <2> QED BY <1>3, <2>2 DEF IInv, GrantsComeFromForks
<1>8. Kept'
  BY <1>3, <1>4, <1>5, <1>6, <1>10 DEF IInv, HadInv, PublishedInv, Kept
<1>9. Left(rec) /\ StillHolds(rec)' /\ IsFork(rec)'
  BY <1>2 DEF Left, ReqRec, StillHolds, OnMembers, IsFork
<1> QED BY <1>3, <1>6, <1>7, <1>8, <1>9, RestStep DEF IInv, TypeOK, Doing

LEMMA DropGrantsStep == ASSUME IInv, NEW r \in Request, DropGrants(r) PROVE IInv'
<1>1. /\ req' = [req EXCEPT ![r] = None]
      /\ grants' \subseteq grants
      /\ UNCHANGED <<spaces, members, spaceDocs, owned, had, shares, projects, forks>>
      /\ Doing(r, "dropGrants")
  BY DEF DropGrants, Answer, Next1
<1>2. Kept' /\ grants' \subseteq User \X Doc \X Share
  BY <1>1 DEF IInv, TypeOK, Kept, HadInv, PublishedInv, GrantsComeFromForks
<1>3. Steady(r)
  BY <1>1 DEF Steady
<1> QED BY <1>1, <1>2, <1>3, RestStep DEF IInv, TypeOK, Doing, Left

LEMMA ListUnstampedStep == ASSUME IInv, NEW r \in Request, ListUnstamped(r) PROVE IInv'
<1>1. PICK w \in Space : req[r].space = w
  BY ReqTyped DEF ListUnstamped, Doing, ReqRec
<1>2. PICK rest \in SUBSET Project :
        rest = {p \in Project : Lives(p) /\ projects[p].owner = req[r].user /\ projects[p].space = None}
  OBVIOUS
<1>3. PICK rec : rec = [op |-> "save", space |-> w, rest |-> rest, read |-> projects]
  OBVIOUS
<1>4. /\ req' = [req EXCEPT ![r] = rec] /\ Doing(r, "stamp")
      /\ UNCHANGED <<spaces, members, spaceDocs, owned, had, shares, grants, projects, forks>>
  BY <1>1, <1>2, <1>3 DEF ListUnstamped, Next1, tables
<1>5. \A p \in rest : projects[p] \in ProjectRec
  BY <1>2 DEF IInv, TypeOK, Lives
<1>6. Left(rec) /\ StillHolds(rec)' /\ IsFork(rec)'
  <2>1. rec \in ReqRec
    BY <1>3 DEF IInv, TypeOK, ReqRec
  <2>2. StillHolds(rec)' /\ IsFork(rec)'
    BY <1>3, <1>4, <1>5, Nothing DEF StillHolds, OnMembers, IsFork
  <2> QED BY <1>3, <2>1, <2>2 DEF Left
<1>7. Kept' /\ Steady(r)
  BY <1>4 DEF IInv, Kept, HadInv, PublishedInv, GrantsComeFromForks, Steady
<1> QED BY <1>4, <1>6, <1>7, RestStep DEF IInv, TypeOK, Doing

LEMMA SaveStampedStep == ASSUME IInv, NEW r \in Request, SaveStamped(r) PROVE IInv'
<1>1. /\ UNCHANGED <<spaces, members, spaceDocs, owned, had, shares, grants, forks>>
      /\ Doing(r, "save")
  BY DEF SaveStamped, Answer, Next1
<1>2. Kept'
  BY <1>1 DEF IInv, Kept, HadInv, PublishedInv, GrantsComeFromForks
<1>3. CASE req[r].rest = {} /\ Answer(r) /\ UNCHANGED projects
  <2>1. req' = [req EXCEPT ![r] = None]
    BY <1>3 DEF Answer, Next1
  <2>2. Steady(r)
    BY <1>1, <1>3 DEF Steady
  <2> QED BY <1>1, <1>2, <1>3, <2>1, <2>2, RestStep DEF IInv, TypeOK, Left, Doing
<1>4. CASE \E p \in req[r].rest :
             /\ projects' = [projects EXCEPT ![p] = [req[r].read[p] EXCEPT !.space = req[r].space]]
             /\ Next1(r, [req[r] EXCEPT !.rest = @ \ {p}])
  <2>0. req[r] \in [op : {"save"}, space : Space, rest : SUBSET Project,
                    read : [Project -> ProjectRec \union {None, Gone}]]
    BY <1>1, ReqTyped DEF Doing, ReqRec
  <2>1. PICK p \in req[r].rest :
          /\ projects' = [projects EXCEPT ![p] = [req[r].read[p] EXCEPT !.space = req[r].space]]
          /\ Next1(r, [req[r] EXCEPT !.rest = @ \ {p}])
    BY <1>4
  <2>2. \A x \in req[r].rest : projects[x] # None /\ req[r].read[x] \in ProjectRec
    BY <1>1 DEF IInv, ReqInv, StillHolds, Doing
  <2>3. PICK new : new = [req[r].read[p] EXCEPT !.space = req[r].space]
    OBVIOUS
  <2>4. new \in ProjectRec
    BY <2>0, <2>2, <2>3 DEF ProjectRec
  <2>5. PICK rec :
          /\ rec = [req[r] EXCEPT !.rest = @ \ {p}]
          /\ rec \in [op : {"save"}, space : Space, rest : SUBSET Project,
                      read : [Project -> ProjectRec \union {None, Gone}]]
          /\ rec.op = "save" /\ rec.rest \subseteq req[r].rest /\ rec.read = req[r].read
    <3>1. PICK rec : rec = [req[r] EXCEPT !.rest = @ \ {p}]
      OBVIOUS
    <3>2. /\ rec \in [op : {"save"}, space : Space, rest : SUBSET Project,
                      read : [Project -> ProjectRec \union {None, Gone}]]
          /\ rec.op = "save" /\ rec.rest \subseteq req[r].rest /\ rec.read = req[r].read
      BY <2>0, <3>1
    <3> QED BY <3>1, <3>2
  <2>6. req' = [req EXCEPT ![r] = rec] /\ projects' = [projects EXCEPT ![p] = new]
    BY <2>1, <2>3, <2>5 DEF Next1
  <2>7. /\ projects' \in [Project -> ProjectRec \union {None, Gone}]
        /\ \A x \in Project : projects[x] # None => projects'[x] # None
    BY <2>0, <2>4, <2>6, Nothing DEF IInv, TypeOK
  <2>8. Left(rec) /\ StillHolds(rec)' /\ IsFork(rec)'
    <3>1. rec \in ReqRec
      BY <2>5 DEF ReqRec
    <3>2. StillHolds(rec)' /\ IsFork(rec)'
      BY <2>0, <2>2, <2>5, <2>7 DEF StillHolds, OnMembers, IsFork
    <3> QED BY <2>5, <3>1, <3>2 DEF Left
  <2>9. Steady(r)
    BY <1>1, <2>7 DEF Steady
  <2> QED BY <1>1, <1>2, <2>6, <2>7, <2>8, <2>9, RestStep DEF IInv, TypeOK, Doing
<1> QED BY <1>3, <1>4 DEF SaveStamped

LEMMA WritesStep == ASSUME IInv, NEW r \in Request, Writes(r) PROVE IInv'
BY InsertSpaceStep, InsertFounderStep, InsertMemberStep, UpdateRoleStep, DeleteMemberStep,
   DeleteSpaceStep, InsertDocumentStep, InsertProjectStep, InsertGrantsStep, DropProjectStep,
   WriteFilesStep, InsertSpaceDocsStep, InsertShareStep, MarkRevokedStep, DropGrantsStep,
   ListUnstampedStep, SaveStampedStep DEF Writes

\* A document that a connector takes away leaves what its owner once had.
LEMMA RemoveDocumentStep == ASSUME IInv, NEW u \in User, RemoveDocument(u) PROVE IInv'
<1>1. /\ UNCHANGED <<spaces, members, spaceDocs, had, shares, grants, projects, forks, req>>
      /\ owned' \in [User -> SUBSET Doc] /\ \A v \in User : owned'[v] \subseteq owned[v]
  BY DEF RemoveDocument, IInv, TypeOK
<1>2. TypeOK' /\ HadInv'
  BY <1>1 DEF IInv, TypeOK, HadInv
<1>3. ReqInv' /\ ForkInv'
  BY <1>1 DEF IInv, ReqInv, ForkInv, StillHolds, IsFork
<1>4. FreshInv' /\ FoundInv' /\ UnbornInv'
  BY <1>1 DEF IInv, FreshInv, FoundInv, UnbornInv, Doing
<1>5. PublishedInv' /\ OneOwner' /\ DeadSpacesAreEmpty' /\ GrantsComeFromForks'
  BY <1>1 DEF IInv, PublishedInv, OneOwner, DeadSpacesAreEmpty, GrantsComeFromForks
<1>6. CreatorStays'
  BY <1>1 DEF IInv, CreatorStays, Doing
<1> QED BY <1>2, <1>3, <1>4, <1>5, <1>6 DEF IInv

-----------------------------------------------------------------------------
(* The theorems *)

LEMMA InitInv == Init => IInv
<1> SUFFICES ASSUME Init PROVE IInv
  OBVIOUS
<1>1. TypeOK
  BY DEF Init, TypeOK, Role
<1>2. ReqInv /\ ForkInv /\ FreshInv /\ FoundInv /\ HadInv
  BY DEF Init, ReqInv, ForkInv, FreshInv, FoundInv, HadInv, Doing
<1>3. UnbornInv /\ OneOwner /\ DeadSpacesAreEmpty
  BY Nothing DEF Init, UnbornInv, OneOwner, DeadSpacesAreEmpty, Role
<1>4. GrantsComeFromForks /\ PublishedInv
  BY DEF Init, GrantsComeFromForks, PublishedInv
<1>5. CreatorStays
  BY Nothing DEF Init, CreatorStays
<1> QED BY <1>1, <1>2, <1>3, <1>4, <1>5 DEF IInv

LEMMA NextInv == IInv /\ [Next]_vars => IInv'
<1> SUFFICES ASSUME IInv, [Next]_vars PROVE IInv'
  OBVIOUS
<1>1. CASE Next
  BY <1>1, ChecksStep, WritesStep, RemoveDocumentStep DEF Next
<1>2. CASE UNCHANGED vars
  <2>1. (TypeOK /\ ReqInv /\ ForkInv /\ FreshInv /\ FoundInv)'
    BY <1>2 DEF vars, tables, IInv, TypeOK, ReqInv, ForkInv, FreshInv, FoundInv, StillHolds, IsFork, Doing
  <2>2. (UnbornInv /\ HadInv /\ PublishedInv /\ OneOwner /\ CreatorStays)'
    BY <1>2 DEF vars, tables, IInv, UnbornInv, HadInv, PublishedInv, OneOwner, CreatorStays, Doing
  <2>3. (DeadSpacesAreEmpty /\ GrantsComeFromForks)'
    BY <1>2 DEF vars, tables, IInv, DeadSpacesAreEmpty, GrantsComeFromForks
  <2> QED BY <2>1, <2>2, <2>3 DEF IInv
<1> QED BY <1>1, <1>2

LEMMA Inductive == Spec => []IInv
BY InitInv, NextInv, PTL DEF Spec

\* Every variable keeps its type: tables, requests in progress and their fields.
THEOREM TypeCorrect == Spec => []TypeOK
<1>1. IInv => TypeOK
  BY DEF IInv
<1> QED BY <1>1, Inductive, PTL

\* Who has the role of owner in a workspace is its creator, however many requests
\* of admins overlap with its creation and deletion.  (Not the other way round.)
THEOREM OwnerIsCreator == Spec => []OneOwner
<1>1. IInv => OneOwner
  BY DEF IInv
<1> QED BY <1>1, Inductive, PTL

\* The creator of a workspace stays a member of it, whatever its admins do and
\* however their requests overlap.
THEOREM CreatorIsMember == Spec => []CreatorStays
<1>1. IInv => CreatorStays
  BY DEF IInv
<1> QED BY <1>1, Inductive, PTL

\* With the database's foreign keys, nothing is written into a deleted workspace.
THEOREM NothingLeftBehind == Spec => []DeadSpacesAreEmpty
<1>1. IInv => DeadSpacesAreEmpty
  BY DEF IInv
<1> QED BY <1>1, Inductive, PTL

\* Who has a grant forked its share while that was live, and the grant is on a
\* document the share published and its publisher once owned, or a public one.
THEOREM GrantsAreBounded == Spec => []GrantsComeFromForks
<1>1. IInv => GrantsComeFromForks
  BY DEF IInv
<1> QED BY <1>1, Inductive, PTL

=============================================================================
