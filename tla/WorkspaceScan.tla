--------------------------- MODULE WorkspaceScan ---------------------------
(* How a workspace is read: the scan of a workspace snapshot (inventory, then*)
(* git summary) and that of an intent mapping, call by call of the file      *)
(* system and of git, over a tree and a repository that users change         *)
(* meanwhile.                                                                *)
EXTENDS Integers, FiniteSets

CONSTANTS
  Paths, Root, Parent,   \* the paths below the workspace root, and what each is in
  Contents, Dir, Absent, \* what can be at a path
  SizeOf,                \* bytes, as stat tells them
  Ignored,               \* the paths that a pattern of ignored paths matches
  GitIgnored,            \* the paths that git does not look at
  Matchable,             \* the paths with an extension whose text is searched
  MaxTextScanBytes,
  Branches,
  InitialTrees,
  Null,                  \* what a scan does not know yet
  Idle,                  \* no scan
  MaxChanges             \* bound: changes by users

Below == Paths \ {Root}

\* A path, the directory it is in, the one that is in, and so on up to the root.
Upward(A)    == \A q \in A \ {Root} : Parent[q] \in A
Ancestors[p \in Paths] ==
  {q \in Paths : \A A \in SUBSET Paths : p \in A /\ Upward(A) => q \in A}

Nodes == Contents \cup {Dir, Absent}
Kinds == {"snapshot", "mapping"}

WellFormed(t) ==
  /\ t[Root] = Dir
  /\ \A p \in Below : t[p] # Absent => t[Parent[p]] = Dir
Trees == {t \in [Paths -> Nodes] : WellFormed(t)}

ASSUME PathAssumption ==
  /\ Root \in Paths /\ Parent \in [Below -> Paths]
  /\ \A p \in Paths : Root \in Ancestors[p]
  /\ Ignored \cup GitIgnored \cup Matchable \subseteq Below
ASSUME NodeAssumption ==
  /\ Dir \notin Contents /\ Absent \notin Contents /\ Dir # Absent
  /\ Null \notin Contents /\ Null \notin Paths /\ Null \notin Branches
  /\ Null \notin [path : Below, size : Nat]
  /\ SizeOf \in [Contents \cup {Dir} -> Nat] /\ MaxTextScanBytes \in Nat
ASSUME TreeAssumption == InitialTrees \subseteq Trees /\ MaxChanges \in Nat

Records == [path : Below, size : Nat, content : Contents]
Commits == [Below -> Contents \cup {Absent}]
Repos   == [heads : [Branches -> Commits], branch : Branches]

\* git: the files of a tree that a commit of all of them holds.
Tracked(t) ==
  [p \in Below |-> IF p \in GitIgnored \/ t[p] = Dir THEN Absent ELSE t[p]]

VARIABLES
  node,     \* what is at each path
  repo,     \* the commit of each branch, and the branch that is checked out
  scan,     \* the scan under way
  seen,     \* what each path has had in the course of it
  seenRepo, \* what the repository has been in the course of it
  changes

users == <<node, repo, changes>>
vars  == <<users, scan, seen, seenRepo>>

\* todo: directories to read; files: entries of the last one read that are
\* files and are not yet dealt with; at: the one that was statted, with its size.
Scans ==
  [kind : Kinds, todo : SUBSET Paths, files : SUBSET Below,
   at : [path : Below, size : Nat] \cup {Null}, records : SUBSET Records,
   head : Commits \cup {Null}, branch : Branches \cup {Null},
   status : (SUBSET Below) \cup {Null}, done : BOOLEAN]

-----------------------------------------------------------------------------
Init ==
  /\ node \in InitialTrees
  /\ \E b \in Branches :
       repo = [heads |-> [h \in Branches |-> Tracked(node)], branch |-> b]
  /\ scan = Idle /\ changes = 0
  /\ seen = [p \in Paths |-> {node[p]}] /\ seenRepo = {repo}

Begin(kind) ==
  /\ scan = Idle
  /\ scan' = [kind |-> kind, todo |-> {Root}, files |-> {}, at |-> Null,
              records |-> {}, head |-> Null, branch |-> Null, status |-> Null,
              done |-> FALSE]
  /\ seen' = [p \in Paths |-> {node[p]}] /\ seenRepo' = {repo}
  /\ UNCHANGED users

Scanning == scan # Idle /\ ~scan.done

\* Mutant: the ignored paths are looked up for directories only.
EntriesIfEntered(d, type) ==
  {p \in Below :
     /\ Parent[p] = d
     /\ IF type = "dir" THEN node[p] = Dir /\ p \notin Ignored
        ELSE node[p] \in Contents}
\* The entries of a directory with a type, as readdir tells it.
Entries(d, type) ==
  {p \in Below \ Ignored :
     /\ Parent[p] = d
     /\ IF type = "dir" THEN node[p] = Dir ELSE node[p] \in Contents}

\* Mutant: what is in a directory is left out.
NoSubdirectories(d) == {}
Subdirectories(d)   == Entries(d, "dir")

\* Mutant: a directory stays on the list.
AllOfThem(d) == scan.todo
Remaining(d) == scan.todo \ {d}

\* readdir.  Which directory and which file is next is left open.
List(d) ==
  /\ Scanning /\ scan.at = Null /\ scan.files = {} /\ d \in scan.todo
  /\ scan' = IF node[d] = Dir
             THEN [scan EXCEPT !.todo = Remaining(d) \cup Subdirectories(d),
                               !.files = Entries(d, "file")]
             ELSE Idle
  /\ UNCHANGED <<users, seen, seenRepo>>

\* A mapping reads the text of files that have one and are not too large.
Wanted(f, size) ==
  scan.kind = "mapping" => f \in Matchable /\ size <= MaxTextScanBytes

\* stat: a file may be gone by now, or be a directory.
Stat(f) ==
  /\ Scanning /\ scan.at = Null /\ f \in scan.files
  /\ scan' = IF node[f] = Absent THEN Idle
             ELSE [scan EXCEPT !.files = @ \ {f},
                               !.at = IF Wanted(f, SizeOf[node[f]])
                                      THEN [path |-> f, size |-> SizeOf[node[f]]]
                                      ELSE Null]
  /\ UNCHANGED <<users, seen, seenRepo>>

\* Mutant: what is read may be a directory.
ReadableIfThere(f) == node[f] # Absent
Readable(f)        == node[f] \in Contents

\* readFileSync, of what was statted.
Read ==
  /\ Scanning /\ scan.at # Null
  /\ scan' = IF Readable(scan.at.path)
             THEN [scan EXCEPT !.at = Null, !.records = @ \cup
                     {[path |-> scan.at.path, size |-> scan.at.size,
                       content |-> node[scan.at.path]]}]
             ELSE Idle
  /\ UNCHANGED <<users, seen, seenRepo>>

-----------------------------------------------------------------------------
(* git, called three times after the inventory; any call may fail.           *)
Head == repo.heads[repo.branch]

\* Mutant: git is asked without --untracked-files.
StatusOfTracked ==
  {p \in Below : Head[p] # Absent /\ Tracked(node)[p] # Head[p]}
Status == {p \in Below : Tracked(node)[p] # Head[p]}

Inventoried ==
  Scanning /\ scan.at = Null /\ scan.files = {} /\ scan.todo = {}

RevParseHead ==
  /\ Inventoried /\ scan.kind = "snapshot" /\ scan.head = Null
  /\ scan' = [scan EXCEPT !.head = Head]
  /\ UNCHANGED <<users, seen, seenRepo>>

RevParseBranch ==
  /\ Inventoried /\ scan.head # Null /\ scan.branch = Null
  /\ scan' = [scan EXCEPT !.branch = repo.branch]
  /\ UNCHANGED <<users, seen, seenRepo>>

StatusPorcelain ==
  /\ Inventoried /\ scan.branch # Null
  /\ scan' = [scan EXCEPT !.status = Status, !.done = TRUE]
  /\ UNCHANGED <<users, seen, seenRepo>>

GitFails ==
  /\ Inventoried /\ scan.kind = "snapshot"
  /\ scan' = Idle
  /\ UNCHANGED <<users, seen, seenRepo>>

\* A mapping has its candidates once the inventory is through.
Collected ==
  /\ Inventoried /\ scan.kind = "mapping"
  /\ scan' = [scan EXCEPT !.done = TRUE]
  /\ UNCHANGED <<users, seen, seenRepo>>

Return ==
  /\ scan # Idle /\ scan.done
  /\ scan' = Idle
  /\ UNCHANGED <<users, seen, seenRepo>>

-----------------------------------------------------------------------------
(* Users, editors and git.                                                   *)
Change ==
  /\ changes < MaxChanges
  /\ changes' = changes + 1
  /\ seen' = [p \in Paths |-> seen[p] \cup {node'[p]}]
  /\ seenRepo' = seenRepo \cup {repo'}
  /\ UNCHANGED scan

Edit ==
  /\ \E p \in Below, n \in Nodes :
       /\ node[p] # n
       /\ node' = [node EXCEPT ![p] = n]
       /\ WellFormed(node')
  /\ UNCHANGED repo
  /\ Change

\* The files of a checkout change one by one: they are edits.
CheckOut ==
  /\ \E b \in Branches \ {repo.branch} : repo' = [repo EXCEPT !.branch = b]
  /\ UNCHANGED node
  /\ Change

Commit ==
  /\ Head # Tracked(node)
  /\ repo' = [repo EXCEPT !.heads[repo.branch] = Tracked(node)]
  /\ UNCHANGED node
  /\ Change

-----------------------------------------------------------------------------
Step ==
  \/ \E d \in Paths : List(d)
  \/ \E f \in Below : Stat(f)
  \/ Read
  \/ RevParseHead
  \/ RevParseBranch
  \/ StatusPorcelain
  \/ GitFails
  \/ Collected
  \/ Return

Others == Edit \/ CheckOut \/ Commit
Start  == \E kind \in Kinds : Begin(kind)

Next == Start \/ Step \/ Others

Spec     == Init /\ [][Next]_vars
FairSpec == Spec /\ WF_vars(Step)

-----------------------------------------------------------------------------
\* A scan and what it has found have their types; what users do keeps a tree.
TypeOK ==
  /\ node \in Trees /\ repo \in Repos
  /\ scan \in Scans \cup {Idle}
  /\ seen \in [Paths -> SUBSET Nodes] /\ \A p \in Paths : node[p] \in seen[p]
  /\ seenRepo \subseteq Repos /\ repo \in seenRepo
  /\ changes \in 0..MaxChanges

\* The paths that have been as they are from the start of the scan on.
Untouched(p) == seen[p] = {node[p]}
InPlace(p) ==
  \A q \in Ancestors[p] : Untouched(q) /\ q \notin Ignored

\* The inventory is read path by path of a tree that changes, so that it need not
\* be one the tree ever had; but every record is of a content and of a size that
\* its path had in the course of the scan, there is one per path, none of an
\* ignored path, and what stayed in place the whole time is there as it was.
EachPathWasSo ==
  scan # Idle =>
    /\ \A r \in scan.records :
         /\ r.path \notin Ignored
         /\ r.content \in seen[r.path]
         /\ \E n \in seen[r.path] \ {Absent} : r.size = SizeOf[n]
         /\ \A q \in scan.records : q.path = r.path => q = r
    /\ scan.done =>
         \A p \in Below :
           /\ InPlace(p) /\ node[p] \in Contents
           /\ Wanted(p, SizeOf[node[p]])
           => [path |-> p, size |-> SizeOf[node[p]], content |-> node[p]]
                \in scan.records

\* What a path has been in the course of the scan, as a commit would hold it.
Committable(p) == {IF n = Dir THEN Absent ELSE n : n \in seen[p]}

\* Files are read, and git is asked for the head and, last, for the status, while
\* users go on.  If nobody committed or switched branches, a snapshot that holds a
\* file which is not in its status, and so may say clean, is of a file that has at
\* some time of the scan been as in the head that the snapshot names.
DirtIsNoticed ==
  scan # Idle /\ scan.status # Null /\ Cardinality(seenRepo) = 1 =>
    \A r \in scan.records :
      r.path \notin GitIgnored /\ scan.head[r.path] \notin Committable(r.path)
      => r.path \in scan.status

\* runtime/README.md: "payload.snapshot_hash is a deterministic SHA-256 hash over
\* normalized git + inventory snapshot state".  Where nobody has changed anything in
\* the course of a scan, what is hashed, and what a mapping scores, is a function of
\* the tree and the repository.
Inventory(t) ==
  {[path |-> p, size |-> SizeOf[t[p]], content |-> t[p]] :
     p \in {q \in Below : /\ t[q] \in Contents
                          /\ Ancestors[q] \cap Ignored = {}
                          /\ Wanted(q, SizeOf[t[q]])}}
Undisturbed == (\A p \in Paths : Untouched(p)) /\ seenRepo = {repo}
UndisturbedIsExact ==
  scan # Idle /\ scan.done /\ Undisturbed =>
    /\ scan.records = Inventory(node)
    /\ scan.kind = "snapshot" =>
         scan.head = Head /\ scan.branch = repo.branch /\ scan.status = Status

\* A scan ends with an artifact or an error, whatever users do meanwhile: each
\* path is listed once at most.
ScansEnd == scan # Idle ~> scan = Idle
=============================================================================
