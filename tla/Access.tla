------------------------------- MODULE Access -------------------------------
(***************************************************************************)
(* Who may read what: the tables of IdentityStore (workspaces, members,    *)
(* owned documents, shares, grants), the owner, workspace and documents of *)
(* each project, and the gateway routes that change them.  A route first   *)
(* checks, then writes; every write is a statement of its own (the         *)
(* connections of PostgresIdentityStore are in autocommit), so requests    *)
(* interleave between the check and each of the writes.                    *)
(***************************************************************************)
EXTENDS Naturals, FiniteSets, FiniteSetsExt

CONSTANTS
  User, Doc, Project, Share, Request,
  Space,        \* workspaces, numbered in the order they are created
  Public,       \* documents of the web corpus, which everyone may read
  Name,         \* names a project's file list may use instead of a doc_id
  NameOf,       \* the name a document goes by
  InMemory,     \* whether the store is the one without a database
  Gone,         \* what is left of a deleted workspace or project: ids are not reused
  MaxAsked,     \* bound: how many requests are made
  None

Role == {"owner", "admin", "member"}

ShareRec == [owner : User, by : User, docs : SUBSET Doc, revoked : BOOLEAN]
ProjectRec == [owner : User, space : Space \union {None}, files : SUBSET Doc, from : Share \union {None}]

ASSUME AccessAssumption ==
  /\ Space \subseteq Nat /\ Public \subseteq Doc
  /\ NameOf \in [Doc -> Name] /\ Name \intersect Doc = {}
  /\ InMemory \in BOOLEAN /\ MaxAsked \in Nat
  /\ {None, Gone} \intersect (User \union Doc \union Project \union Share \union Space) = {}
  /\ None # Gone /\ None \notin Role /\ None \notin ShareRec /\ None \notin ProjectRec

VARIABLES
  spaces,     \* workspaces: owner_id of each, None before it is made, Gone after
  members,    \* workspace_members: the role of each user, or None
  spaceDocs,  \* workspace_documents
  owned,      \* user_documents
  had,        \* history: the documents a user has ever owned
  shares,     \* shares: [owner, by, docs, revoked] or None
  grants,     \* doc_grants: <<user, doc, share>>
  forks,      \* history: <<user, share>> of the forks whose check found the share live
  projects,   \* projects: [owner, space, files, from], None or Gone
  req,        \* a request that passed its checks and has writes to do, or None
  asked       \* how many requests were made

tables == <<spaces, members, spaceDocs, owned, had, shares, grants, projects>>
vars == <<tables, forks, req, asked>>

Init ==
  /\ spaces = [w \in Space |-> None]
  /\ members = [w \in Space |-> [u \in User |-> None]]
  /\ spaceDocs = [w \in Space |-> {}]
  /\ owned = [u \in User |-> {}] /\ had = [u \in User |-> {}]
  /\ shares = [s \in Share |-> None]
  /\ grants = {} /\ forks = {}
  /\ projects = [p \in Project |-> None]
  /\ req = [r \in Request |-> None]
  /\ asked = 0

-----------------------------------------------------------------------------
(* What the checks read                                                      *)

MemberOf(u) == {w \in Space : members[w][u] # None}

Granted(u) == {d \in Doc : \E s \in Share :
                 <<u, d, s>> \in grants /\ shares[s] # None /\ ~shares[s].revoked}

OfSpaces(u) == UNION {spaceDocs[w] : w \in MemberOf(u)}

Accessible(u) == owned[u] \union Granted(u) \union OfSpaces(u) \union Public

\* An entry names a document by its id or by its name.
Names(entry, d) == entry = d \/ entry = NameOf[d]

\* resolve_scope: an exact id first, otherwise all the documents the name fits.
Resolve(entries, docs) ==
  UNION {IF e \in docs THEN {e} ELSE {d \in docs : Names(e, d)} : e \in entries}

Lives(p) == projects[p] \notin {None, Gone}

\* The projects of the user's workspaces and their own.
Theirs(u) == {p \in Project : Lives(p) /\
                (projects[p].space \in MemberOf(u) \/ projects[p].owner = u)}

\* workspace_session: one of those by its id; "default" names one of them, and any
\* project there is to a user who has none.
Visible(u) == IF Theirs(u) # {} THEN Theirs(u) ELSE {p \in Project : Lives(p)}

Administers(u) == {w \in Space : spaces[w] \in User /\ members[w][u] \in {"owner", "admin"}}

\* The oldest of the workspaces the user owns and is a member of.
DefaultSpace(u) ==
  LET mine == {w \in MemberOf(u) : spaces[w] = u} IN IF mine = {} THEN None ELSE Min(mine)

-----------------------------------------------------------------------------
(* A request passes its checks.                                              *)
Doing(r, op) == req[r] # None /\ req[r].op = op

\* Ids are new uuids: workspaces are numbered in order, and no id comes twice.
Fresh == {w \in Space : spaces[w] = None /\ \A x \in Space : x < w => spaces[x] # None}

Unused(p) == projects[p] = None /\ \A q \in Request : ~(Doing(q, "createProject") /\ req[q].project = p)

Ask(r, rec) ==
  /\ req[r] = None /\ asked < MaxAsked
  /\ req' = [req EXCEPT ![r] = rec] /\ asked' = asked + 1
  /\ forks' = IF rec.op = "createProject" /\ rec.from # None
              THEN forks \union {<<rec.user, rec.from>>} ELSE forks
  /\ UNCHANGED tables

\* stamp: whether the user's projects are then put into the new workspace.
Create(r, u, stamp) == \E w \in Fresh :
  /\ \A q \in Request : ~Doing(q, "createSpace")
  /\ Ask(r, [op |-> "createSpace", user |-> u, space |-> w, stamp |-> stamp])

AskCreateSpace(r) == \E u \in User : Create(r, u, FALSE)

\* services.identity.migrate, for one user, with the gateway up or not: a workspace
\* for a user who owns none, and a workspace for their projects without one.
AskBackfill(r) == \E u \in User :
  \/ DefaultSpace(u) = None /\ Create(r, u, TRUE)
  \/ DefaultSpace(u) # None /\ Ask(r, [op |-> "stamp", user |-> u, space |-> DefaultSpace(u)])

AskDeleteSpace(r) == \E u \in User, w \in Space :
  /\ members[w][u] # None /\ spaces[w] = u
  /\ Ask(r, [op |-> "deleteSpace", space |-> w])

\* Mutation of AskAddMember: the role asked for may be owner.
AddsOwners(r) == \E u, v \in User, role \in Role : \E w \in Administers(u) :
  Ask(r, [op |-> "addMember", space |-> w, user |-> v, role |-> role])

AskAddMember(r) == \E u, v \in User, role \in Role \ {"owner"} : \E w \in Administers(u) :
  Ask(r, [op |-> "addMember", space |-> w, user |-> v, role |-> role])

AskSetRole(r) == \E u, v \in User, role \in Role \ {"owner"} : \E w \in Administers(u) :
  /\ v # spaces[w]
  /\ Ask(r, [op |-> "setRole", space |-> w, user |-> v, role |-> role])

\* Mutation of AskRemoveMember: the creator is removed like anybody else.
RemovesAnyone(r) == \E u, v \in User : \E w \in Administers(u) :
  Ask(r, [op |-> "removeMember", space |-> w, user |-> v])

AskRemoveMember(r) == \E u, v \in User : \E w \in Administers(u) :
  /\ v # spaces[w]
  /\ Ask(r, [op |-> "removeMember", space |-> w, user |-> v])

\* A project goes to the workspace asked for, or to the caller's default one.
AskCreateProject(r) == \E u \in User, p \in Project, F \in SUBSET (Doc \union Name) :
  \E w \in MemberOf(u) \union {DefaultSpace(u)} :
    /\ w # None /\ Unused(p)
    /\ \A e \in F : Resolve({e}, Accessible(u)) # {}
    /\ Ask(r, [op |-> "createProject", user |-> u, project |-> p, space |-> w,
               docs |-> Resolve(F, Accessible(u)), from |-> None])

AskDeleteProject(r) == \E u \in User, p \in Project :
  /\ Lives(p) /\ projects[p].owner = u
  /\ Ask(r, [op |-> "deleteProject", project |-> p])

\* POST files adds, PATCH replaces; both only with what the caller may read.
AskFiles(r) == \E u \in User, op \in {"attach", "setFiles"}, F \in SUBSET (Doc \union Name) :
  \E p \in Visible(u) :
    /\ \A e \in F : Resolve({e}, Accessible(u)) # {}
    /\ Ask(r, [op |-> op, project |-> p, docs |-> Resolve(F, Accessible(u))])

AskDetach(r) == \E u \in User, d \in Doc : \E p \in Visible(u) :
  Ask(r, [op |-> "detach", project |-> p, docs |-> {d}])

AskUpload(r) == \E u \in User, d \in Doc \ Public :
  Ask(r, [op |-> "upload", user |-> u, docs |-> {d}])

\* Mutation of AskShare: whatever the sharer can read goes into the snapshot.
SharesReadable(r) == \E u \in User, s \in Share : \E p \in Visible(u) :
  /\ shares[s] = None /\ \A q \in Request : ~Doing(q, "share")
  /\ Ask(r, [op |-> "share", share |-> s,
             rec |-> [owner |-> projects[p].owner, by |-> u, revoked |-> FALSE,
                      docs |-> Resolve(projects[p].files, Accessible(u))]])

\* Only what the sharer owns, or everyone has, goes into the snapshot.
AskShare(r) == \E u \in User, s \in Share : \E p \in Visible(u) :
  /\ shares[s] = None /\ \A q \in Request : ~Doing(q, "share")
  /\ Ask(r, [op |-> "share", share |-> s,
             rec |-> [owner |-> projects[p].owner, by |-> u, revoked |-> FALSE,
                      docs |-> Resolve(projects[p].files, owned[u] \union Public)]])

AskRevoke(r) == \E u \in User, s \in Share :
  /\ shares[s] # None /\ shares[s].owner = u
  /\ Ask(r, [op |-> "revoke", share |-> s])

AskFork(r) == \E u \in User, s \in Share, p \in Project :
  /\ shares[s] # None /\ ~shares[s].revoked /\ Unused(p)
  /\ Ask(r, [op |-> "createProject", user |-> u, project |-> p, space |-> None,
             docs |-> shares[s].docs, from |-> s])

-----------------------------------------------------------------------------
(* Its writes.  A statement that breaks a foreign key of the database fails  *)
(* and the route ends there; the store in memory has no foreign keys.        *)
Next1(r, rec) == req' = [req EXCEPT ![r] = rec] /\ UNCHANGED <<forks, asked>>

Answer(r) == Next1(r, None)

\* Documents are written one statement each.
OneLess(r, d) == IF req[r].docs = {d} THEN Answer(r) ELSE Next1(r, [req[r] EXCEPT !.docs = @ \ {d}])

\* Mutation of Keys: the tables have no foreign keys.
NoKeys(w) == TRUE

Keys(w) == InMemory \/ spaces[w] \in User

InsertSpace(r) ==
  /\ Doing(r, "createSpace")
  /\ spaces' = [spaces EXCEPT ![req[r].space] = req[r].user]
  /\ Next1(r, [req[r] EXCEPT !.op = "found"])
  /\ UNCHANGED <<members, spaceDocs, owned, had, shares, grants, projects>>

InsertFounder(r) ==
  LET w == req[r].space  u == req[r].user IN
  /\ Doing(r, "found")
  /\ members' = [members EXCEPT ![w][u] = "owner"]
  /\ IF req[r].stamp THEN Next1(r, [op |-> "stamp", user |-> u, space |-> w]) ELSE Answer(r)
  /\ UNCHANGED <<spaces, spaceDocs, owned, had, shares, grants, projects>>

\* An insert, or a change of role when the row is there.
InsertMember(r) ==
  /\ Doing(r, "addMember")
  /\ members' = IF Keys(req[r].space) THEN [members EXCEPT ![req[r].space][req[r].user] = req[r].role]
                                      ELSE members
  /\ Answer(r)
  /\ UNCHANGED <<spaces, spaceDocs, owned, had, shares, grants, projects>>

UpdateRole(r) ==
  /\ Doing(r, "setRole")
  /\ members' = IF members[req[r].space][req[r].user] = None THEN members
                ELSE [members EXCEPT ![req[r].space][req[r].user] = req[r].role]
  /\ Answer(r)
  /\ UNCHANGED <<spaces, spaceDocs, owned, had, shares, grants, projects>>

DeleteMember(r) ==
  /\ Doing(r, "removeMember")
  /\ members' = [members EXCEPT ![req[r].space][req[r].user] = None]
  /\ Answer(r)
  /\ UNCHANGED <<spaces, spaceDocs, owned, had, shares, grants, projects>>

\* The rows of members and documents go with the workspace.
DeleteSpace(r) ==
  LET w == req[r].space IN
  /\ Doing(r, "deleteSpace")
  /\ spaces' = [spaces EXCEPT ![w] = Gone]
  /\ members' = [members EXCEPT ![w] = [u \in User |-> None]]
  /\ spaceDocs' = [spaceDocs EXCEPT ![w] = {}]
  /\ Answer(r)
  /\ UNCHANGED <<owned, had, shares, grants, projects>>

InsertDocument(r) ==
  /\ Doing(r, "upload")
  /\ owned' = [owned EXCEPT ![req[r].user] = @ \union req[r].docs]
  /\ had' = [had EXCEPT ![req[r].user] = @ \union req[r].docs]
  /\ Answer(r)
  /\ UNCHANGED <<spaces, members, spaceDocs, shares, grants, projects>>

\* create_session, and for a fork the grants that follow it.
InsertProject(r) ==
  LET q == req[r] IN
  /\ Doing(r, "createProject")
  /\ projects' = [projects EXCEPT ![q.project] =
                    [owner |-> q.user, space |-> q.space, files |-> q.docs, from |-> q.from]]
  /\ IF q.from # None /\ q.docs # {}
     THEN Next1(r, [op |-> "grant", user |-> q.user, docs |-> q.docs, share |-> q.from])
     ELSE Answer(r)
  /\ UNCHANGED <<spaces, members, spaceDocs, owned, had, shares, grants>>

InsertGrants(r) ==
  /\ Doing(r, "grant")
  /\ \E d \in req[r].docs :
       /\ grants' = grants \union {<<req[r].user, d, req[r].share>>}
       /\ OneLess(r, d)
  /\ UNCHANGED <<spaces, members, spaceDocs, owned, had, shares, projects>>

DropProject(r) ==
  /\ Doing(r, "deleteProject")
  /\ projects' = [projects EXCEPT ![req[r].project] = Gone]
  /\ Answer(r)
  /\ UNCHANGED <<spaces, members, spaceDocs, owned, had, shares, grants>>

\* A project that was deleted meanwhile is a 404; attach goes on to its workspace.
WriteFiles(r) ==
  LET q == req[r]  rec == projects[q.project]
      files == CASE q.op = "attach" -> rec.files \union q.docs
                 [] q.op = "setFiles" -> q.docs
                 [] q.op = "detach" -> rec.files \ q.docs IN
  /\ req[r] # None /\ q.op \in {"attach", "setFiles", "detach"}
  /\ IF rec = Gone THEN Answer(r) /\ UNCHANGED projects
     ELSE /\ projects' = [projects EXCEPT ![q.project].files = files]
          /\ IF q.op = "attach" /\ rec.space # None /\ q.docs # {}
             THEN Next1(r, [op |-> "spaceDocs", space |-> rec.space, docs |-> q.docs])
             ELSE Answer(r)
  /\ UNCHANGED <<spaces, members, spaceDocs, owned, had, shares, grants>>

InsertSpaceDocs(r) ==
  /\ Doing(r, "spaceDocs")
  /\ IF Keys(req[r].space)
     THEN \E d \in req[r].docs :
            /\ spaceDocs' = [spaceDocs EXCEPT ![req[r].space] = @ \union {d}]
            /\ OneLess(r, d)
     ELSE Answer(r) /\ UNCHANGED spaceDocs
  /\ UNCHANGED <<spaces, members, owned, had, shares, grants, projects>>

InsertShare(r) ==
  /\ Doing(r, "share")
  /\ shares' = [shares EXCEPT ![req[r].share] = req[r].rec]
  /\ Answer(r)
  /\ UNCHANGED <<spaces, members, spaceDocs, owned, had, grants, projects>>

MarkRevoked(r) ==
  /\ Doing(r, "revoke")
  /\ shares' = [shares EXCEPT ![req[r].share].revoked = TRUE]
  /\ Next1(r, [op |-> "dropGrants", share |-> req[r].share])
  /\ UNCHANGED <<spaces, members, spaceDocs, owned, had, grants, projects>>

DropGrants(r) ==
  /\ Doing(r, "dropGrants")
  /\ grants' = {g \in grants : g[3] # req[r].share}
  /\ Answer(r)
  /\ UNCHANGED <<spaces, members, spaceDocs, owned, had, shares, projects>>

\* stamp_workspace_for_owner reads the user's projects, and then saves those
\* without a workspace one after the other, each as it was read.
ListUnstamped(r) ==
  LET u == req[r].user
      rest == {p \in Project : Lives(p) /\ projects[p].owner = u /\ projects[p].space = None} IN
  /\ Doing(r, "stamp")
  /\ Next1(r, [op |-> "save", space |-> req[r].space, rest |-> rest, read |-> projects])
  /\ UNCHANGED tables

SaveStamped(r) ==
  /\ Doing(r, "save")
  /\ \/ \E p \in req[r].rest :
          /\ projects' = [projects EXCEPT ![p] = [req[r].read[p] EXCEPT !.space = req[r].space]]
          /\ Next1(r, [req[r] EXCEPT !.rest = @ \ {p}])
     \/ req[r].rest = {} /\ Answer(r) /\ UNCHANGED projects
  /\ UNCHANGED <<spaces, members, spaceDocs, owned, had, shares, grants>>

\* A connector of the user retires a page's document.
RemoveDocument(u) ==
  /\ \E d \in owned[u] : owned' = [owned EXCEPT ![u] = @ \ {d}]
  /\ UNCHANGED <<spaces, members, spaceDocs, had, shares, grants, projects, forks, req, asked>>

-----------------------------------------------------------------------------
Checks(r) ==
  \/ AskCreateSpace(r) \/ AskBackfill(r) \/ AskDeleteSpace(r) \/ AskAddMember(r) \/ AskSetRole(r) \/ AskRemoveMember(r)
  \/ AskCreateProject(r) \/ AskDeleteProject(r) \/ AskFiles(r) \/ AskDetach(r) \/ AskUpload(r)
  \/ AskShare(r) \/ AskRevoke(r) \/ AskFork(r)

Writes(r) ==
  \/ InsertSpace(r) \/ InsertFounder(r) \/ InsertMember(r) \/ UpdateRole(r) \/ DeleteMember(r) \/ DeleteSpace(r)
  \/ InsertDocument(r) \/ InsertProject(r) \/ InsertGrants(r) \/ DropProject(r)
  \/ WriteFiles(r) \/ InsertSpaceDocs(r) \/ InsertShare(r) \/ MarkRevoked(r) \/ DropGrants(r)
  \/ ListUnstamped(r) \/ SaveStamped(r)

Next == (\E r \in Request : Checks(r) \/ Writes(r)) \/ \E u \in User : RemoveDocument(u)

Spec == Init /\ [][Next]_vars

-----------------------------------------------------------------------------
(* Types *)

ReqRec ==
  [op : {"createSpace", "found"}, user : User, space : Space, stamp : BOOLEAN]
    \union [op : {"stamp"}, user : User, space : Space]
    \union [op : {"save"}, space : Space, rest : SUBSET Project,
            read : [Project -> ProjectRec \union {None, Gone}]]
    \union [op : {"deleteSpace"}, space : Space]
    \union [op : {"addMember", "setRole"}, space : Space, user : User, role : Role \ {"owner"}]
    \union [op : {"removeMember"}, space : Space, user : User]
    \union [op : {"createProject"}, user : User, project : Project, space : Space \union {None},
            docs : SUBSET Doc, from : Share \union {None}]
    \union [op : {"deleteProject"}, project : Project]
    \union [op : {"attach", "setFiles", "detach"}, project : Project, docs : SUBSET Doc]
    \union [op : {"spaceDocs"}, space : Space, docs : SUBSET Doc]
    \union [op : {"upload"}, user : User, docs : SUBSET Doc]
    \union [op : {"share"}, share : Share, rec : ShareRec]
    \union [op : {"revoke", "dropGrants"}, share : Share]
    \union [op : {"grant"}, user : User, docs : SUBSET Doc, share : Share]

ASSUME RequestAssumption == None \notin ReqRec

\* Every variable keeps its type.
TypeOK ==
  /\ spaces \in [Space -> User \union {None, Gone}]
  /\ members \in [Space -> [User -> Role \union {None}]]
  /\ spaceDocs \in [Space -> SUBSET Doc] /\ owned \in [User -> SUBSET Doc]
  /\ had \in [User -> SUBSET Doc] /\ forks \subseteq User \X Share
  /\ shares \in [Share -> ShareRec \union {None}]
  /\ grants \subseteq User \X Doc \X Share
  /\ projects \in [Project -> ProjectRec \union {None, Gone}]
  /\ req \in [Request -> ReqRec \union {None}]

-----------------------------------------------------------------------------
(* Properties *)

\* Nobody but the creator ever has the role of owner: no sequence of additions and
\* promotions by admins, overlapping or not, hands it out.  (The creator may lose it:
\* add_member overwrites the row it finds.)
OneOwner == \A w \in Space, u \in User : members[w][u] = "owner" => spaces[w] = u

\* The creator of a workspace is a member of it as long as it is there, whatever its
\* admins do at the same time: otherwise nobody could delete it, which takes a member
\* and the creator.
CreatorStays == \A w \in Space : spaces[w] \in User =>
  \/ members[w][spaces[w]] # None
  \/ \E r \in Request : Doing(r, "found") /\ req[r].space = w

\* With the database, no request that was checked before a workspace was deleted
\* leaves a member or a document behind in it.
DeadSpacesAreEmpty == ~InMemory =>
  \A w \in Space : spaces[w] \notin User => members[w] = [u \in User |-> None] /\ spaceDocs[w] = {}

\* Who has a grant forked its share while the share was live, however late the grant
\* was written, and the grant is on a document that the share published and that its
\* publisher once owned or everyone may read: nothing is passed on twice.
GrantsComeFromForks == \A g \in grants :
  /\ <<g[1], g[3]>> \in forks
  /\ shares[g[3]] # None /\ g[2] \in shares[g[3]].docs
  /\ g[2] \in had[shares[g[3]].by] \union Public

-----------------------------------------------------------------------------
(* The inductive invariant: what a request that passed its checks may still  *)
(* rely on when its writes come, whatever the others wrote in between.       *)

OnMembers == {"deleteSpace", "addMember", "setRole", "removeMember"}

\* The workspace its checks found has not become one that was never made, the
\* share is still there with the documents read from it, ids are still new.
StillHolds(q) ==
  /\ q.op = "createSpace" => spaces[q.space] = None
  /\ q.op \in OnMembers => spaces[q.space] # None
  /\ q.op = "removeMember" => spaces[q.space] # q.user
  /\ q.op \in {"attach", "setFiles", "detach"} => projects[q.project] # None
  /\ q.op = "save" => \A p \in q.rest : projects[p] # None /\ q.read[p] \in ProjectRec
  /\ q.op = "createProject" /\ q.from # None =>
       shares[q.from] # None /\ q.docs \subseteq shares[q.from].docs
  /\ q.op = "grant" => shares[q.share] # None /\ q.docs \subseteq shares[q.share].docs
  /\ q.op = "share" => shares[q.share] = None /\ q.rec.docs \subseteq had[q.rec.by] \union Public
  /\ q.op = "revoke" => shares[q.share] # None

ReqInv == \A r \in Request : req[r] # None => StillHolds(req[r])

\* What is still going to grant is a fork.
IsFork(q) ==
  /\ q.op = "createProject" /\ q.from # None => <<q.user, q.from>> \in forks
  /\ q.op = "grant" => <<q.user, q.share>> \in forks

ForkInv == \A r \in Request : req[r] # None => IsFork(req[r])

\* A new id is in the hands of one request.
FreshInv ==
  \A q, r \in Request : \A op \in {"createSpace", "share"} :
    Doing(q, op) /\ Doing(r, op) => q = r

\* Between the two statements of create_workspace nobody is a member yet, so
\* nobody else has passed a check on the workspace.
FoundInv ==
  \A r \in Request : Doing(r, "found") =>
    /\ spaces[req[r].space] = req[r].user
    /\ \A u \in User : members[req[r].space][u] = None
    /\ \A q \in Request \ {r} :
         req[q] # None /\ req[q].op \in OnMembers \union {"found"} => req[q].space # req[r].space

UnbornInv == \A w \in Space : spaces[w] = None => \A u \in User : members[w][u] = None

HadInv == \A u \in User : owned[u] \subseteq had[u]

\* A share publishes what its publisher once owned, or everyone may read.
PublishedInv == \A s \in Share :
  shares[s] # None => shares[s].docs \subseteq had[shares[s].by] \union Public

IInv ==
  TypeOK /\ ReqInv /\ ForkInv /\ FreshInv /\ FoundInv /\ UnbornInv /\ HadInv /\ PublishedInv
    /\ OneOwner /\ CreatorStays /\ DeadSpacesAreEmpty /\ GrantsComeFromForks
=============================================================================
