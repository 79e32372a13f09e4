------------------------ MODULE WorkspaceScanProofs ------------------------
(* Theorems about WorkspaceScan, for any tree of paths, contents, patterns of *)
(* ignored paths, branches, and any number of changes by users.              *)
EXTENDS WorkspaceScan, TLAPS, FiniteSetTheorems

-----------------------------------------------------------------------------
(* What lies above a path.                                                   *)

\* A path is among its ancestors, and so is what they are in.
LEMMA AncestorsAreUpward ==
  ASSUME NEW p \in Paths
  PROVE  p \in Ancestors[p] /\ Ancestors[p] \in SUBSET Paths /\ Upward(Ancestors[p])
  <1>1. Ancestors[p] =
          {q \in Paths : \A A \in SUBSET Paths : p \in A /\ Upward(A) => q \in A}
    BY DEF Ancestors
  <1>2. p \in Ancestors[p] /\ Ancestors[p] \in SUBSET Paths
    BY <1>1
  <1>3. ASSUME NEW q \in Ancestors[p] \ {Root}
        PROVE  Parent[q] \in Ancestors[p]
    <2>1. Parent[q] \in Paths
      BY <1>2, <1>3, PathAssumption DEF Below
    <2>2. \A A \in SUBSET Paths : p \in A /\ Upward(A) => Parent[q] \in A
      BY <1>1, <1>3 DEF Upward
    <2>3. QED
      BY <1>1, <2>1, <2>2
  <1>4. QED
    BY <1>2, <1>3 DEF Upward

\* Nothing else is.
LEMMA AncestorsAreLeast ==
  ASSUME NEW p \in Paths, NEW A \in SUBSET Paths, p \in A, Upward(A)
  PROVE  Ancestors[p] \subseteq A
  BY DEF Ancestors

\* The ancestors of an ancestor are among them.
LEMMA AncestorsOfAncestors ==
  ASSUME NEW p \in Paths, NEW q \in Ancestors[p]
  PROVE  Ancestors[q] \subseteq Ancestors[p] /\ q \in Paths
  BY AncestorsAreUpward, AncestorsAreLeast

\* A path is below what it is in, and that below its ancestors.
LEMMA AncestorsOfChild ==
  ASSUME NEW p \in Below
  PROVE  /\ p \in Paths /\ Parent[p] \in Paths /\ Parent[p] \in Ancestors[p]
         /\ Ancestors[p] = {p} \cup Ancestors[Parent[p]]
  <1>1. p \in Paths /\ p # Root /\ Parent[p] \in Paths
    BY PathAssumption DEF Below
  <1>2. Parent[p] \in Ancestors[p]
    BY <1>1, AncestorsAreUpward DEF Upward
  <1>3. Ancestors[Parent[p]] \subseteq Ancestors[p]
    BY <1>1, <1>2, AncestorsOfAncestors
  <1>4. Upward({p} \cup Ancestors[Parent[p]])
    BY <1>1, AncestorsAreUpward DEF Upward
  <1>5. Ancestors[p] \subseteq {p} \cup Ancestors[Parent[p]]
    BY <1>1, <1>4, AncestorsAreUpward, AncestorsAreLeast
  <1>6. QED
    BY <1>1, <1>2, <1>3, <1>5, AncestorsAreUpward

\* No path is above the directory it is in: every way up ends at the root.
LEMMA NoWayRound ==
  ASSUME NEW x \in Below
  PROVE  x \notin Ancestors[Parent[x]]
  <1> DEFINE d == Parent[x]
             S == {q \in Ancestors[d] : x \in Ancestors[q]}
  <1>1. d \in Paths /\ x \in Paths /\ x # Root
    BY AncestorsOfChild DEF Below
  <1>2. Ancestors[Root] \subseteq {Root}
    BY ZenonT(60), PathAssumption, AncestorsAreLeast DEF Upward
  <1>3. Root \in Ancestors[d]
    BY <1>1, PathAssumption
  <1> SUFFICES ASSUME x \in Ancestors[d]
               PROVE  FALSE
    OBVIOUS
  <1>4. d \in S
    BY <1>1, AncestorsAreUpward
  <1>5. ASSUME NEW q \in S \ {Root}
        PROVE  Parent[q] \in S
    <2>1. q \in Below /\ Parent[q] \in Ancestors[d]
      BY <1>1, <1>5, AncestorsAreUpward DEF Upward, Below
    <2>2. CASE q = x
      BY <1>4, <2>2
    <2>3. CASE q # x
      <3>1. Ancestors[q] = {q} \cup Ancestors[Parent[q]]
        BY <2>1, AncestorsOfChild
      <3>2. QED
        BY <1>5, <2>1, <2>3, <3>1
    <2>4. QED
      BY <2>2, <2>3
  <1>6. Ancestors[d] \subseteq S
    <2>1. S \in SUBSET Paths /\ Upward(S)
      BY <1>1, <1>5, AncestorsAreUpward DEF Upward
    <2> HIDE DEF S
    <2>2. QED
      BY <1>1, <1>4, <2>1, AncestorsAreLeast
  <1>7. QED
    BY <1>1, <1>2, <1>3, <1>6

\* The way up from a path to one above it comes through a path in the latter.
LEMMA ComesThrough ==
  ASSUME NEW p \in Paths, NEW d \in Ancestors[p], d # p
  PROVE  \E q \in Ancestors[p] \ {Root} : Parent[q] = d
  <1> SUFFICES ASSUME \A q \in Ancestors[p] \ {Root} : Parent[q] # d
               PROVE  FALSE
    OBVIOUS
  <1>1. Upward(Ancestors[p] \ {d}) /\ p \in Ancestors[p] \ {d}
    BY AncestorsAreUpward DEF Upward
  <1>2. Ancestors[p] \ {d} \in SUBSET Paths
    BY AncestorsAreUpward
  <1>3. QED
    BY <1>1, <1>2, AncestorsAreLeast

\* What lies above something that is there is a directory.
LEMMA AboveAreDirectories ==
  ASSUME NEW t \in Trees, NEW p \in Paths, t[p] # Absent, NEW q \in Ancestors[p], q # p
  PROVE  t[q] = Dir
  <1> DEFINE A == {p} \cup {r \in Ancestors[p] : t[r] = Dir}
  <1>1. A \in SUBSET Paths /\ p \in A
    BY AncestorsAreUpward
  <1>2. Upward(A)
    <2> SUFFICES ASSUME NEW r \in A \ {Root}
                 PROVE  Parent[r] \in A
      BY DEF Upward
    <2>1. r \in Below /\ r \in Ancestors[p] /\ Parent[r] \in Ancestors[p]
      BY <1>1, AncestorsAreUpward DEF Upward, Below
    <2>2. t[r] # Absent
      BY NodeAssumption
    <2>3. t[Parent[r]] = Dir
      BY <2>1, <2>2 DEF Trees, WellFormed
    <2>4. QED
      BY <2>1, <2>3
  <1> HIDE DEF A
  <1>3. q \in A
    BY <1>1, <1>2, AncestorsAreLeast
  <1>4. QED
    BY <1>3 DEF A
-----------------------------------------------------------------------------
(* The invariant.                                                            *)

AtPath      == {f \in Below : scan.at # Null /\ scan.at.path = f}
RecordPaths == {r.path : r \in scan.records}
Reached     == scan.todo \cup scan.files \cup AtPath \cup RecordPaths

\* A path is dealt with once: a file is still to be statted, or to be read, or in
\* one record.
OnceEach ==
  /\ scan.files \cap AtPath = {}
  /\ scan.files \cap RecordPaths = {} /\ AtPath \cap RecordPaths = {}
  /\ \A r, q \in scan.records : q.path = r.path => q = r

\* What was reached is not ignored, nor is what it is in, and no directory above it
\* is still to be listed.
ListedAbove ==
  \A x \in Reached :
    /\ Ancestors[x] \cap Ignored = {}
    /\ \A y \in Ancestors[x] \ {x} : y \notin scan.todo

SizeSeen(f, size) == \E n \in seen[f] \ {Absent} : size = SizeOf[n]

\* Sizes and contents are of their time, and wanted.
Timely ==
  /\ \A r \in scan.records :
       r.content \in seen[r.path] /\ SizeSeen(r.path, r.size) /\ Wanted(r.path, r.size)
  /\ scan.at # Null =>
       SizeSeen(scan.at.path, scan.at.size) /\ Wanted(scan.at.path, scan.at.size)

\* A file that stayed in place is in a record, or is to be read or statted, or a
\* directory above it is still to be listed.
FileSize(p) == SizeOf[node[p]]
Covered(p) ==
  \/ \E d \in Ancestors[p] : d # p /\ d \in scan.todo
  \/ p \in scan.files
  \/ scan.at = [path |-> p, size |-> FileSize(p)]
  \/ [path |-> p, size |-> FileSize(p), content |-> node[p]] \in scan.records
NotMissed ==
  \A p \in Below :
    InPlace(p) /\ node[p] \in Contents /\ Wanted(p, FileSize(p)) => Covered(p)

\* What git has told is still so if the repository and the file are.
GitKnown ==
  /\ scan.branch # Null => scan.head # Null
  /\ scan.status # Null => scan.head # Null
  /\ scan.done => scan.todo = {} /\ scan.files = {} /\ scan.at = Null
  /\ scan.done /\ scan.kind = "snapshot" => scan.status \in SUBSET Below
  /\ seenRepo = {repo} =>
       /\ scan.head # Null => scan.head = Head
       /\ scan.branch # Null => scan.branch = repo.branch
       /\ scan.status # Null =>
            /\ \A p \in Below : Untouched(p) => (p \in scan.status <=> p \in Status)
            /\ \A p \in Below \ GitIgnored :
                 Head[p] \notin Committable(p) => p \in scan.status
       /\ scan.done /\ scan.kind = "snapshot" =>
            /\ scan.head = Head /\ scan.branch = repo.branch
            /\ \A p \in Below : Untouched(p) => (p \in scan.status <=> p \in Status)

ScanInv ==
  /\ TypeOK
  /\ IsFiniteSet(seenRepo)
  /\ scan # Idle =>
       OnceEach /\ ListedAbove /\ Timely /\ NotMissed /\ GitKnown

\* What git compares with the head is what a path is now, which has been seen.
LEMMA HereIsCommittable ==
  ASSUME TypeOK, NEW p \in Below \ GitIgnored
  PROVE  Tracked(node)[p] \in Committable(p)
  <1>1. node[p] \in seen[p]
    BY DEF TypeOK, Below
  <1>2. QED
    BY <1>1 DEF Tracked, Committable

\* The fields of a scan under way have their types.
LEMMA ScanParts ==
  ASSUME TypeOK, scan # Idle
  PROVE  /\ scan \in Scans
         /\ scan.todo \in SUBSET Paths /\ scan.files \in SUBSET Below
         /\ scan.records \in SUBSET Records
         /\ scan.at # Null =>
              scan.at \in [path : Below, size : Nat] /\ scan.at.path \in Below
         /\ \A r \in scan.records : r.path \in Below /\ r.content \in Contents
         /\ Reached \in SUBSET Paths
  <1>1. scan \in Scans
    BY DEF TypeOK
  <1>2. /\ scan.todo \in SUBSET Paths /\ scan.files \in SUBSET Below
        /\ scan.records \in SUBSET Records
        /\ scan.at # Null => scan.at \in [path : Below, size : Nat]
    BY <1>1 DEF Scans
  <1>3. \A r \in scan.records : r.path \in Below /\ r.content \in Contents
    BY <1>2 DEF Records
  <1>4. Below \in SUBSET Paths
    BY DEF Below
  <1>5. QED
    BY <1>1, <1>2, <1>3, <1>4 DEF Reached, AtPath, RecordPaths

\* A scan that is over, with or without a result, leaves nothing to show.
LEMMA OverKeepsScan ==
  ASSUME ScanInv, UNCHANGED <<users, seen, seenRepo>>, scan' = Idle
  PROVE  ScanInv'
  BY DEF ScanInv, TypeOK, users

\* Where only the scan changes, types are a matter of the scan.
LEMMA ScanKeepsTypes ==
  ASSUME ScanInv, UNCHANGED <<users, seen, seenRepo>>, scan' \in Scans
  PROVE  TypeOK' /\ IsFiniteSet(seenRepo)'
  BY DEF ScanInv, TypeOK, users

-----------------------------------------------------------------------------
(* The invariant is inductive.                                               *)

\* Nothing is known of a scan before it begins.
LEMMA InitScan == Init => ScanInv
  <1> SUFFICES ASSUME Init
               PROVE  ScanInv
    OBVIOUS
  <1>1. node \in Trees /\ node \in [Paths -> Nodes]
    BY TreeAssumption DEF Init, Trees
  <1>2. Tracked(node) \in Commits
    BY <1>1 DEF Tracked, Commits, Nodes, Below
  <1>3. repo \in Repos
    BY <1>2 DEF Init, Repos
  <1>4. seenRepo = {repo} /\ IsFiniteSet(seenRepo)
    BY FS_Singleton DEF Init
  <1>5. TypeOK
    BY <1>1, <1>3, <1>4, TreeAssumption DEF Init, TypeOK
  <1>6. QED
    BY <1>4, <1>5 DEF Init, ScanInv

\* A scan begins with the root to be listed.
LEMMA BeginKeepsScan ==
  ASSUME ScanInv, NEW kind \in Kinds, Begin(kind)
  PROVE  ScanInv'
  <1> DEFINE new == [kind |-> kind, todo |-> {Root}, files |-> {}, at |-> Null,
                     records |-> {}, head |-> Null, branch |-> Null, status |-> Null,
                     done |-> FALSE]
  <1>1. /\ UNCHANGED users /\ scan' = new
        /\ seen' = [p \in Paths |-> {node[p]}] /\ seenRepo' = {repo}
    BY DEF Begin
  <1>2. new \in Scans
    BY PathAssumption DEF Scans
  <1>3. TypeOK'
    BY <1>1, <1>2 DEF ScanInv, TypeOK, users, Trees
  <1>4. IsFiniteSet(seenRepo)'
    BY <1>1, FS_Singleton
  <1>5. /\ scan'.todo = {Root} /\ scan'.files = {} /\ scan'.at = Null
        /\ scan'.records = {} /\ scan'.head = Null /\ scan'.branch = Null
        /\ scan'.status = Null /\ scan'.done = FALSE
    BY <1>1
  <1>6. Reached' = {Root}
    BY <1>5 DEF Reached, AtPath, RecordPaths
  <1>7. OnceEach' /\ Timely' /\ GitKnown'
    BY <1>5 DEF OnceEach, AtPath, RecordPaths, Timely, GitKnown
  <1>8. ListedAbove'
    <2>1. Ancestors[Root] \subseteq {Root} /\ Root \notin Ignored
      BY PathAssumption, AncestorsAreLeast DEF Upward, Below
    <2>2. QED
      BY <1>6, <2>1 DEF ListedAbove
  <1>9. NotMissed'
    BY <1>5, PathAssumption DEF NotMissed, Covered, Below
  <1>10. QED
    BY <1>3, <1>4, <1>7, <1>8, <1>9 DEF ScanInv

\* A directory that is listed hands its files to stat and its directories to the
\* list: they were not reached before, and what was below it is below one of them.
LEMMA ListKeepsScan ==
  ASSUME ScanInv, NEW d \in Paths, List(d)
  PROVE  ScanInv'
  <1>1. /\ scan # Idle /\ ~scan.done /\ scan.at = Null /\ scan.files = {} /\ d \in scan.todo
        /\ UNCHANGED <<users, seen, seenRepo>> /\ node' = node /\ repo' = repo
        /\ seen' = seen /\ seenRepo' = seenRepo
    BY DEF List, Scanning, users
  <1>2. CASE node[d] # Dir
    BY <1>1, <1>2, OverKeepsScan DEF List
  <1>3. CASE node[d] = Dir
    <2> DEFINE dirs == Entries(d, "dir")
               new == Entries(d, "file")
    <2>1. scan' = [scan EXCEPT !.todo = (scan.todo \ {d}) \cup dirs, !.files = new]
      BY <1>3 DEF List, Remaining, Subdirectories
    <2>2. /\ scan \in Scans /\ scan.todo \in SUBSET Paths
          /\ scan.records \in SUBSET Records /\ Reached \in SUBSET Paths
          /\ \A r \in scan.records : r.path \in Below
      BY <1>1, ScanParts DEF ScanInv
    <2>3. /\ dirs \in SUBSET Below /\ new \in SUBSET Below
          /\ \A x \in dirs \cup new : Parent[x] = d /\ x \notin Ignored
          /\ \A x \in Below \ Ignored : Parent[x] = d =>
               /\ node[x] = Dir => x \in dirs
               /\ node[x] \in Contents => x \in new
      BY DEF Entries
    <2> HIDE DEF dirs, new
    <2>4. /\ scan' \in Scans
          /\ scan'.todo = (scan.todo \ {d}) \cup dirs /\ scan'.files = new
          /\ scan'.at = scan.at /\ scan'.records = scan.records /\ scan'.kind = scan.kind
          /\ scan'.head = scan.head /\ scan'.branch = scan.branch
          /\ scan'.status = scan.status /\ scan'.done = scan.done
      BY <2>1, <2>2, <2>3 DEF Scans, Below
    <2>5. TypeOK' /\ IsFiniteSet(seenRepo)'
      BY <1>1, <2>4, ScanKeepsTypes
    <2>6. AtPath' = {} /\ AtPath = {} /\ RecordPaths' = RecordPaths
      BY <1>1, <2>4 DEF AtPath, RecordPaths
    <2>7. \A x \in Reached : \A y \in Ancestors[x] \ {x} : y \notin scan.todo
      BY <1>1 DEF ScanInv, ListedAbove
    <2>8. \A x \in dirs \cup new :
            /\ Ancestors[x] = {x} \cup Ancestors[d] /\ d # x /\ x \in Paths
            /\ d \in Ancestors[x] /\ x \notin Ancestors[d]
      BY <2>3, AncestorsOfChild, NoWayRound, AncestorsAreUpward
    <2>9. /\ d \in Reached /\ d \in Ancestors[d]
          /\ Ancestors[d] \cap Ignored = {} /\ \A y \in Ancestors[d] \ {d} : y \notin scan.todo
      BY <1>1, AncestorsAreUpward DEF ScanInv, ListedAbove, Reached
    <2>10. new \cap RecordPaths = {}
      <3> SUFFICES ASSUME NEW x \in new, x \in RecordPaths
                   PROVE  FALSE
        OBVIOUS
      <3>1. x \in Reached /\ d \in Ancestors[x] \ {x}
        BY <2>8 DEF Reached
      <3>2. QED
        BY <1>1, <2>7, <3>1
    <2>11. OnceEach'
      BY <1>1, <2>4, <2>6, <2>10 DEF ScanInv, OnceEach
    <2>12. ListedAbove'
      <3> SUFFICES ASSUME NEW x \in Reached'
                   PROVE  /\ Ancestors[x] \cap Ignored = {}
                          /\ \A y \in Ancestors[x] \ {x} : y \notin scan'.todo
        BY DEF ListedAbove
      <3>1. CASE x \in dirs \cup new
        <4>1. Ancestors[x] \cap Ignored = {}
          BY <2>3, <2>8, <2>9, <3>1
        <4>2. ASSUME NEW y \in Ancestors[x] \ {x}
              PROVE  y \notin scan'.todo
          <5>1. y \in Ancestors[d]
            BY <2>8, <3>1, <4>2
          <5>2. y \notin scan.todo \ {d}
            BY <2>9, <5>1
          <5>3. y \notin dirs
            <6> SUFFICES ASSUME y \in dirs
                         PROVE  FALSE
              OBVIOUS
            <6>1. y \notin Ancestors[d]
              BY <2>8
            <6>2. QED
              BY <5>1, <6>1
          <5>4. QED
            BY <2>4, <5>2, <5>3
        <4>3. QED
          BY <4>1, <4>2
      <3>2. CASE x \notin dirs \cup new
        <4>1. x \in Reached /\ x \in Paths
          BY <2>2, <2>4, <2>6, <3>2 DEF Reached
        <4>2. Ancestors[x] \cap Ignored = {}
          BY <1>1, <4>1 DEF ScanInv, ListedAbove
        <4>3. ASSUME NEW y \in Ancestors[x] \ {x}
              PROVE  y \notin scan'.todo
          <5>1. y \notin scan.todo
            BY <2>7, <4>1, <4>3
          <5>2. y \notin dirs
            <6> SUFFICES ASSUME y \in dirs
                         PROVE  FALSE
              OBVIOUS
            <6>1. d \in Ancestors[y]
              BY <2>8
            <6>2. d \in Ancestors[x]
              BY <4>1, <4>3, <6>1, AncestorsOfAncestors
            <6>3. d # x
              BY <2>8, <4>3
            <6>4. QED
              BY <1>1, <2>7, <4>1, <6>2, <6>3
          <5>3. QED
            BY <2>4, <5>1, <5>2
        <4>4. QED
          BY <4>2, <4>3
      <3>3. QED
        BY <3>1, <3>2
    <2>13. Timely'
      BY <1>1, <2>4 DEF ScanInv, Timely, SizeSeen, Wanted
    <2>14. NotMissed'
      <3> SUFFICES ASSUME NEW p \in Below, InPlace(p), node[p] \in Contents,
                          Wanted(p, FileSize(p)), Covered(p)
                   PROVE  Covered(p)'
        BY <1>1, <2>4 DEF ScanInv, NotMissed, InPlace, Untouched, Wanted, FileSize
      <3>1. CASE \E e \in Ancestors[p] : e # p /\ e \in scan.todo /\ e # d
        BY <2>4, <3>1 DEF Covered
      <3>2. CASE d \in Ancestors[p] /\ d # p
        <4>1. p \in Paths /\ node \in Trees /\ node[p] # Absent
          BY NodeAssumption DEF Below, ScanInv, TypeOK
        <4>2. PICK q \in Ancestors[p] \ {Root} : Parent[q] = d
          BY <3>2, <4>1, ComesThrough
        <4>3. q \in Below /\ q \notin Ignored
          BY <4>1, <4>2, AncestorsOfAncestors DEF Below, InPlace
        <4>4. CASE q = p
          BY <2>3, <2>4, <4>2, <4>3, <4>4 DEF Covered
        <4>5. CASE q # p
          <5>1. node[q] = Dir
            BY <4>1, <4>2, <4>5, AboveAreDirectories
          <5>2. q \in scan'.todo
            BY <2>3, <2>4, <4>2, <4>3, <5>1
          <5>3. QED
            BY <4>2, <4>5, <5>2 DEF Covered
        <4>6. QED
          BY <4>4, <4>5
      <3>3. CASE p \in scan.files
        BY <1>1, <3>3
      <3>4. CASE scan.at = [path |-> p, size |-> FileSize(p)]
        BY <1>1, <2>4, <3>4 DEF Covered, FileSize
      <3>5. CASE [path |-> p, size |-> FileSize(p), content |-> node[p]] \in scan.records
        BY <1>1, <2>4, <3>5 DEF Covered, FileSize
      <3>6. QED
        BY <3>1, <3>2, <3>3, <3>4, <3>5 DEF Covered
    <2>15. GitKnown'
      BY <1>1, <2>4 DEF ScanInv, GitKnown, Untouched, Committable, Head, Status
    <2>16. QED
      BY <2>5, <2>11, <2>12, <2>13, <2>14, <2>15 DEF ScanInv
  <1>4. QED
    BY <1>2, <1>3
\* A file that is statted is to be read, if it is wanted.
LEMMA StatKeepsScan ==
  ASSUME ScanInv, NEW f \in Below, Stat(f)
  PROVE  ScanInv'
  <1> DEFINE size == SizeOf[node[f]]
             at == IF Wanted(f, size) THEN [path |-> f, size |-> size] ELSE Null
  <1>1. /\ scan # Idle /\ ~scan.done /\ scan.at = Null /\ f \in scan.files
        /\ UNCHANGED <<users, seen, seenRepo>> /\ node' = node /\ repo' = repo
        /\ seen' = seen /\ seenRepo' = seenRepo
    BY DEF Stat, Scanning, users
  <1>2. CASE node[f] = Absent
    BY <1>1, <1>2, OverKeepsScan DEF Stat
  <1>3. CASE node[f] # Absent
    <2>1. /\ scan \in Scans /\ scan.files \in SUBSET Below
          /\ scan.records \in SUBSET Records
          /\ \A r \in scan.records : r.path \in Below
      BY <1>1, ScanParts DEF ScanInv
    <2>2. scan' = [scan EXCEPT !.files = scan.files \ {f}, !.at = at]
      BY <1>3 DEF Stat
    <2>3. node[f] \in Contents \cup {Dir} /\ node[f] \in seen[f]
      BY <1>3 DEF ScanInv, TypeOK, Trees, Nodes, Below
    <2>4. size \in Nat
      BY <2>3, NodeAssumption
    <2>5. /\ Wanted(f, size) => at = [path |-> f, size |-> size] /\ at # Null
          /\ ~Wanted(f, size) => at = Null
      BY <2>4, NodeAssumption
    <2>6. at \in [path : Below, size : Nat] \cup {Null}
      BY <2>4, <2>5
    <2> HIDE DEF at
    <2>7. /\ scan' \in Scans
          /\ scan'.todo = scan.todo /\ scan'.files = scan.files \ {f}
          /\ scan'.at = at /\ scan'.records = scan.records /\ scan'.kind = scan.kind
          /\ scan'.head = scan.head /\ scan'.branch = scan.branch
          /\ scan'.status = scan.status /\ scan'.done = scan.done
      BY <2>1, <2>2, <2>6 DEF Scans
    <2>8. TypeOK' /\ IsFiniteSet(seenRepo)'
      BY <1>1, <2>7, ScanKeepsTypes
    <2>9. AtPath' \subseteq {f} /\ AtPath = {} /\ RecordPaths' = RecordPaths
      BY <1>1, <2>5, <2>7 DEF AtPath, RecordPaths
    <2>10. OnceEach'
      BY <1>1, <2>7, <2>9 DEF ScanInv, OnceEach
    <2>11. Reached' \subseteq Reached
      BY <1>1, <2>7, <2>9 DEF Reached
    <2>12. ListedAbove'
      BY <1>1, <2>7, <2>11 DEF ScanInv, ListedAbove
    <2>13. Timely'
      <3>1. SizeSeen(f, size)
        BY <1>3, <2>3 DEF SizeSeen
      <3>2. scan'.at # Null => scan'.at = [path |-> f, size |-> size] /\ Wanted(f, size)
        BY <2>5, <2>7
      <3> HIDE DEF size
      <3>3. scan'.at # Null =>
              SizeSeen(scan'.at.path, scan'.at.size) /\ Wanted(scan'.at.path, scan'.at.size)
        BY <3>1, <3>2
      <3>4. \A r \in scan.records :
              r.content \in seen[r.path] /\ SizeSeen(r.path, r.size) /\ Wanted(r.path, r.size)
        BY <1>1 DEF ScanInv, Timely
      <3>5. QED
        BY <1>1, <2>7, <3>3, <3>4 DEF Timely, SizeSeen, Wanted
    <2>14. NotMissed'
      <3> SUFFICES ASSUME NEW p \in Below, InPlace(p), node[p] \in Contents,
                          Wanted(p, FileSize(p)), Covered(p)
                   PROVE  Covered(p)'
        BY <1>1, <2>7 DEF ScanInv, NotMissed, InPlace, Untouched, Wanted, FileSize
      <3>1. CASE p = f
        <4>1. scan'.at = [path |-> p, size |-> FileSize(p)]
          BY <2>5, <2>7, <3>1 DEF FileSize
        <4>2. QED
          BY <1>1, <4>1 DEF Covered, FileSize
      <3>2. CASE p # f
        <4>1. scan.at # [path |-> p, size |-> FileSize(p)]
          <5>1. FileSize(p) \in Nat
            BY NodeAssumption DEF FileSize
          <5>2. QED
            BY <1>1, <5>1, NodeAssumption
        <4>2. QED
          BY <1>1, <2>7, <3>2, <4>1 DEF Covered, FileSize
      <3>3. QED
        BY <3>1, <3>2
    <2>15. GitKnown'
      BY <1>1, <2>7 DEF ScanInv, GitKnown, Untouched, Committable, Head, Status
    <2>16. QED
      BY <2>8, <2>10, <2>12, <2>13, <2>14, <2>15 DEF ScanInv
  <1>4. QED
    BY <1>2, <1>3

\* What is read goes to the records, with the size that stat told.
LEMMA ReadKeepsScan ==
  ASSUME ScanInv, Read
  PROVE  ScanInv'
  <1> DEFINE f == scan.at.path
             rec == [path |-> f, size |-> scan.at.size, content |-> node[f]]
  <1>1. /\ scan # Idle /\ ~scan.done /\ scan.at # Null
        /\ UNCHANGED <<users, seen, seenRepo>> /\ node' = node /\ repo' = repo
        /\ seen' = seen /\ seenRepo' = seenRepo
    BY DEF Read, Scanning, users
  <1>2. CASE ~Readable(f)
    BY <1>1, <1>2, OverKeepsScan DEF Read
  <1>3. CASE Readable(f)
    <2>1. /\ scan \in Scans /\ scan.records \in SUBSET Records
          /\ scan.at \in [path : Below, size : Nat] /\ f \in Below
          /\ \A r \in scan.records : r.path \in Below
      BY <1>1, ScanParts DEF ScanInv
    <2>2. node[f] \in Contents /\ node[f] \in seen[f]
      BY <1>3, <2>1 DEF Readable, ScanInv, TypeOK, Below
    <2>3. rec \in Records /\ rec.path = f /\ rec.content = node[f] /\ rec.size = scan.at.size
      BY <2>1, <2>2 DEF Records
    <2>4. scan' = [scan EXCEPT !.at = Null, !.records = scan.records \cup {rec}]
      BY <1>3 DEF Read
    <2>5. /\ f \in AtPath /\ AtPath = {f}
      BY <1>1, <2>1 DEF AtPath
    <2> HIDE DEF rec, f
    <2>6. /\ scan' \in Scans
          /\ scan'.todo = scan.todo /\ scan'.files = scan.files
          /\ scan'.at = Null /\ scan'.records = scan.records \cup {rec}
          /\ scan'.kind = scan.kind
          /\ scan'.head = scan.head /\ scan'.branch = scan.branch
          /\ scan'.status = scan.status /\ scan'.done = scan.done
      BY <2>1, <2>3, <2>4 DEF Scans
    <2>7. TypeOK' /\ IsFiniteSet(seenRepo)'
      BY <1>1, <2>6, ScanKeepsTypes
    <2>8. AtPath' = {} /\ RecordPaths' = RecordPaths \cup {f}
      BY <2>3, <2>6 DEF AtPath, RecordPaths
    <2>9. /\ scan.files \cap AtPath = {}
          /\ scan.files \cap RecordPaths = {} /\ AtPath \cap RecordPaths = {}
          /\ \A r, q \in scan.records : q.path = r.path => q = r
      BY <1>1 DEF ScanInv, OnceEach
    <2>10. \A r \in scan.records : r.path # rec.path
      BY <2>3, <2>5, <2>9 DEF RecordPaths
    <2>11. OnceEach'
      BY <2>5, <2>6, <2>8, <2>9, <2>10 DEF OnceEach
    <2>12. Reached' = Reached
      BY <2>5, <2>6, <2>8 DEF Reached
    <2>13. ListedAbove'
      BY <1>1, <2>6, <2>12 DEF ScanInv, ListedAbove
    <2>14. Timely'
      <3>1. SizeSeen(f, scan.at.size) /\ Wanted(f, scan.at.size)
        BY <1>1 DEF ScanInv, Timely, f
      <3>2. rec.content \in seen[rec.path] /\ SizeSeen(rec.path, rec.size) /\ Wanted(rec.path, rec.size)
        BY <2>2, <2>3, <3>1
      <3>3. \A r \in scan.records :
              r.content \in seen[r.path] /\ SizeSeen(r.path, r.size) /\ Wanted(r.path, r.size)
        BY <1>1 DEF ScanInv, Timely
      <3>4. \A r \in scan'.records :
              r.content \in seen[r.path] /\ SizeSeen(r.path, r.size) /\ Wanted(r.path, r.size)
        BY <2>6, <3>2, <3>3
      <3>5. QED
        BY <1>1, <2>6, <3>4 DEF Timely, SizeSeen, Wanted
    <2>15. NotMissed'
      <3> SUFFICES ASSUME NEW p \in Below, InPlace(p), node[p] \in Contents,
                          Wanted(p, FileSize(p)), Covered(p)
                   PROVE  Covered(p)'
        BY <1>1, <2>6 DEF ScanInv, NotMissed, InPlace, Untouched, Wanted, FileSize
      <3>1. CASE scan.at = [path |-> p, size |-> FileSize(p)]
        <4>1. rec = [path |-> p, size |-> FileSize(p), content |-> node[p]]
          BY <3>1 DEF rec, f
        <4>2. QED
          BY <1>1, <2>6, <4>1 DEF Covered, FileSize
      <3>2. CASE scan.at # [path |-> p, size |-> FileSize(p)]
        BY <1>1, <2>6, <3>2 DEF Covered, FileSize
      <3>3. QED
        BY <3>1, <3>2
    <2>16. GitKnown'
      BY <1>1, <2>6 DEF ScanInv, GitKnown, Untouched, Committable, Head, Status
    <2>17. QED
      BY <2>7, <2>11, <2>13, <2>14, <2>15, <2>16 DEF ScanInv
  <1>4. QED
    BY <1>2, <1>3 DEF f

\* What the rest of a scan changes is what it knows of git.
LEMMA InventoryKeepsScan ==
  ASSUME ScanInv, scan # Idle, UNCHANGED <<users, seen, seenRepo>>, scan' \in Scans,
         scan'.todo = scan.todo, scan'.files = scan.files, scan'.at = scan.at,
         scan'.records = scan.records, scan'.kind = scan.kind, GitKnown'
  PROVE  ScanInv'
  <1>1. TypeOK' /\ IsFiniteSet(seenRepo)'
    BY ScanKeepsTypes
  <1>2. Reached' = Reached /\ AtPath' = AtPath /\ RecordPaths' = RecordPaths
    BY DEF Reached, AtPath, RecordPaths
  <1>3. node' = node /\ seen' = seen
    BY DEF users
  <1>4. OnceEach' /\ ListedAbove'
    BY <1>2 DEF ScanInv, OnceEach, ListedAbove
  <1>5. Timely'
    BY <1>3 DEF ScanInv, Timely, SizeSeen, Wanted
  <1>6. NotMissed'
    BY <1>3 DEF ScanInv, NotMissed, Covered, InPlace, Untouched, Wanted, FileSize
  <1>7. QED
    BY <1>1, <1>4, <1>5, <1>6 DEF ScanInv

\* What git is asked after the inventory, and the end of a mapping's scan.
LEMMA GitKeepsScan ==
  ASSUME ScanInv, RevParseHead \/ RevParseBranch \/ StatusPorcelain \/ Collected
  PROVE  ScanInv'
  <1>1. /\ scan # Idle /\ ~scan.done /\ scan.at = Null /\ scan.files = {} /\ scan.todo = {}
        /\ UNCHANGED <<users, seen, seenRepo>> /\ node' = node /\ repo' = repo
        /\ seen' = seen /\ seenRepo' = seenRepo
    BY DEF RevParseHead, RevParseBranch, StatusPorcelain, Collected, Inventoried, Scanning, users
  <1>2. scan \in Scans
    BY <1>1, ScanParts DEF ScanInv
  <1>3. Head \in Commits /\ repo.branch \in Branches /\ Status \in SUBSET Below
    BY DEF ScanInv, TypeOK, Repos, Head, Status
  <1>4. GitKnown
    BY <1>1 DEF ScanInv
  <1>5. CASE RevParseHead
    <2>1. scan' = [scan EXCEPT !.head = Head] /\ scan.head = Null
      BY <1>5 DEF RevParseHead
    <2>2. /\ scan' \in Scans /\ scan'.head = Head
          /\ scan'.todo = scan.todo /\ scan'.files = scan.files /\ scan'.at = scan.at
          /\ scan'.records = scan.records /\ scan'.kind = scan.kind
          /\ scan'.branch = scan.branch /\ scan'.status = scan.status /\ scan'.done = scan.done
      BY <1>2, <1>3, <2>1 DEF Scans
    <2>3. GitKnown'
      BY <1>1, <1>4, <2>1, <2>2 DEF GitKnown, Untouched, Committable, Head, Status
    <2>4. QED
      BY <1>1, <2>2, <2>3, InventoryKeepsScan
  <1>6. CASE RevParseBranch
    <2>1. scan' = [scan EXCEPT !.branch = repo.branch] /\ scan.head # Null
      BY <1>6 DEF RevParseBranch
    <2>2. /\ scan' \in Scans /\ scan'.branch = repo.branch
          /\ scan'.todo = scan.todo /\ scan'.files = scan.files /\ scan'.at = scan.at
          /\ scan'.records = scan.records /\ scan'.kind = scan.kind
          /\ scan'.head = scan.head /\ scan'.status = scan.status /\ scan'.done = scan.done
      BY <1>2, <1>3, <2>1 DEF Scans
    <2>3. GitKnown'
      BY <1>1, <1>4, <2>1, <2>2 DEF GitKnown, Untouched, Committable, Head, Status
    <2>4. QED
      BY <1>1, <2>2, <2>3, InventoryKeepsScan
  <1>7. CASE StatusPorcelain
    <2>1. scan' = [scan EXCEPT !.status = Status, !.done = TRUE] /\ scan.branch # Null
      BY <1>7 DEF StatusPorcelain
    <2>2. /\ scan' \in Scans /\ scan'.status = Status /\ scan'.done = TRUE
          /\ scan'.todo = scan.todo /\ scan'.files = scan.files /\ scan'.at = scan.at
          /\ scan'.records = scan.records /\ scan'.kind = scan.kind
          /\ scan'.head = scan.head /\ scan'.branch = scan.branch
      BY <1>2, <1>3, <2>1 DEF Scans
    <2>3. \A p \in Below \ GitIgnored : Head[p] \notin Committable(p) => p \in Status
      BY HereIsCommittable DEF ScanInv, Status
    <2>4. GitKnown'
      BY <1>1, <1>4, <2>1, <2>2, <2>3 DEF GitKnown, Untouched, Committable, Head, Status
    <2>5. QED
      BY <1>1, <2>2, <2>4, InventoryKeepsScan
  <1>8. CASE Collected
    <2>1. scan' = [scan EXCEPT !.done = TRUE] /\ scan.kind = "mapping"
      BY <1>8 DEF Collected
    <2>2. /\ scan' \in Scans /\ scan'.done = TRUE
          /\ scan'.todo = scan.todo /\ scan'.files = scan.files /\ scan'.at = scan.at
          /\ scan'.records = scan.records /\ scan'.kind = scan.kind
          /\ scan'.head = scan.head /\ scan'.branch = scan.branch /\ scan'.status = scan.status
      BY <1>2, <2>1 DEF Scans
    <2>3. GitKnown'
      BY <1>1, <1>4, <2>1, <2>2 DEF GitKnown, Untouched, Committable, Head, Status
    <2>4. QED
      BY <1>1, <2>2, <2>3, InventoryKeepsScan
  <1>9. QED
    BY <1>5, <1>6, <1>7, <1>8
\* What a user changes is seen; what the repository or a path still is, if it has
\* only been one thing since the scan began, it was before.
LEMMA ChangeKeepsScan ==
  ASSUME ScanInv, node' \in Trees, repo' \in Repos, Change
  PROVE  ScanInv'
  <1>1. /\ changes' = changes + 1 /\ changes < MaxChanges /\ scan' = scan
        /\ seen' = [p \in Paths |-> seen[p] \cup {node'[p]}]
        /\ seenRepo' = seenRepo \cup {repo'}
    BY DEF Change
  <1>2. /\ seen \in [Paths -> SUBSET Nodes] /\ \A p \in Paths : node[p] \in seen[p]
        /\ seenRepo \subseteq Repos /\ repo \in seenRepo /\ IsFiniteSet(seenRepo)
        /\ changes \in 0..MaxChanges /\ MaxChanges \in Nat
    BY TreeAssumption DEF ScanInv, TypeOK
  <1>3. \A p \in Paths : node'[p] \in Nodes
    BY DEF Trees
  <1>4. TypeOK'
    <2>1. changes' \in 0..MaxChanges
      BY <1>1, <1>2
    <2>2. /\ seen' \in [Paths -> SUBSET Nodes] /\ \A p \in Paths : node'[p] \in seen'[p]
          /\ seenRepo' \subseteq Repos /\ repo' \in seenRepo'
      BY <1>1, <1>2, <1>3
    <2>3. scan' \in Scans \cup {Idle}
      BY <1>1 DEF ScanInv, TypeOK
    <2>4. QED
      BY <2>1, <2>2, <2>3 DEF TypeOK
  <1>5. IsFiniteSet(seenRepo)'
    BY <1>1, <1>2, FS_AddElement
  <1> SUFFICES ASSUME scan # Idle
               PROVE  (OnceEach /\ ListedAbove /\ Timely /\ NotMissed /\ GitKnown)'
    BY <1>1, <1>4, <1>5 DEF ScanInv
  <1>6. /\ OnceEach /\ ListedAbove /\ Timely /\ NotMissed /\ GitKnown
        /\ \A r \in scan.records : r.path \in Paths
        /\ scan.at # Null => scan.at.path \in Paths
    BY ScanParts DEF ScanInv, Below
  <1>7. OnceEach' /\ ListedAbove'
    BY <1>1, <1>6 DEF OnceEach, ListedAbove, Reached, AtPath, RecordPaths
  <1>8. \A p \in Paths : seen[p] \subseteq seen'[p]
    BY <1>1
  <1>9. Timely'
    <2> DEFINE SizeSeenNow(p, n) == \E m \in seen'[p] \ {Absent} : n = SizeOf[m]
    <2>1. \A p \in Paths : \A n : SizeSeen(p, n) => SizeSeenNow(p, n)
      BY <1>8 DEF SizeSeen
    <2> HIDE DEF SizeSeenNow
    <2>2. \A r \in scan.records :
            r.content \in seen'[r.path] /\ SizeSeenNow(r.path, r.size) /\ Wanted(r.path, r.size)
      BY <1>6, <1>8, <2>1 DEF Timely
    <2>3. scan.at # Null =>
            SizeSeenNow(scan.at.path, scan.at.size) /\ Wanted(scan.at.path, scan.at.size)
      BY <1>6, <2>1 DEF Timely
    <2>4. QED
      BY <1>1, <2>2, <2>3 DEF Timely, Wanted, SizeSeen, SizeSeenNow
  <1>10. \A p \in Paths : Untouched(p)' => Untouched(p) /\ node'[p] = node[p]
    BY <1>1, <1>2 DEF Untouched
  <1>11. NotMissed'
    <2> SUFFICES ASSUME NEW p \in Below, InPlace(p)', node'[p] \in Contents,
                        Wanted(p, FileSize(p))'
                 PROVE  Covered(p)'
      BY DEF NotMissed
    <2>1. p \in Paths /\ p \in Ancestors[p] /\ Ancestors[p] \in SUBSET Paths
      BY AncestorsAreUpward DEF Below
    <2>2. InPlace(p) /\ node'[p] = node[p]
      BY <1>10, <2>1 DEF InPlace
    <2>3. Wanted(p, FileSize(p))
      BY <1>1, <2>2 DEF Wanted, FileSize
    <2>4. Covered(p)
      BY <1>6, <2>2, <2>3 DEF NotMissed
    <2>5. QED
      BY <1>1, <2>2, <2>4 DEF Covered, FileSize
  <1>12. GitKnown'
    <2>1. CASE seenRepo' # {repo'}
      BY <1>1, <1>6, <2>1 DEF GitKnown
    <2>2. CASE seenRepo' = {repo'}
      <3>1. repo' = repo /\ seenRepo = {repo}
        BY <1>1, <1>2, <2>2
      <3>2. Head' = Head
        BY <3>1 DEF Head
      <3>3. \A p \in Below : Untouched(p)' => Untouched(p) /\ (p \in Status <=> p \in Status')
        <4> SUFFICES ASSUME NEW p \in Below, Untouched(p)'
                     PROVE  Untouched(p) /\ (p \in Status <=> p \in Status')
          OBVIOUS
        <4>1. Untouched(p) /\ node'[p] = node[p]
          BY <1>10 DEF Below
        <4>2. Tracked(node')[p] = Tracked(node)[p]
          BY <4>1 DEF Tracked
        <4>3. QED
          BY <3>2, <4>1, <4>2 DEF Status
      <3>4. \A p \in Below : Committable(p) \subseteq Committable(p)'
        BY <1>8 DEF Committable, Below
      <3>5. QED
        BY <1>1, <1>6, <3>1, <3>2, <3>3, <3>4 DEF GitKnown
    <2>3. QED
      BY <2>1, <2>2
  <1>13. QED
    BY <1>7, <1>9, <1>11, <1>12

\* Users keep a tree a tree and a repository a repository.
LEMMA OthersKeepScan == ScanInv /\ Others => ScanInv'
  <1> SUFFICES ASSUME ScanInv, Others
               PROVE  ScanInv'
    OBVIOUS
  <1>1. node \in Trees /\ node \in [Paths -> Nodes] /\ repo \in Repos
    BY DEF ScanInv, TypeOK, Trees
  <1>2. CASE Edit
    <2>1. node' \in Trees
      <3>1. PICK p \in Below, n \in Nodes : node' = [node EXCEPT ![p] = n] /\ WellFormed(node')
        BY <1>2 DEF Edit
      <3>2. node' \in [Paths -> Nodes]
        BY <1>1, <3>1
      <3>3. QED
        BY <3>1, <3>2 DEF Trees
    <2>2. repo' \in Repos /\ Change
      BY <1>1, <1>2 DEF Edit
    <2>3. QED
      BY <2>1, <2>2, ChangeKeepsScan
  <1>3. CASE CheckOut
    <2>1. node' \in Trees /\ repo' \in Repos /\ Change
      BY <1>1, <1>3 DEF CheckOut, Repos
    <2>2. QED
      BY <2>1, ChangeKeepsScan
  <1>4. CASE Commit
    <2>1. Tracked(node) \in Commits
      BY <1>1 DEF Tracked, Commits, Nodes, Below
    <2>2. repo' \in Repos
      BY <1>1, <1>4, <2>1 DEF Commit, Repos
    <2>3. node' \in Trees /\ Change
      BY <1>1, <1>4 DEF Commit
    <2>4. QED
      BY <2>2, <2>3, ChangeKeepsScan
  <1>5. QED
    BY <1>2, <1>3, <1>4 DEF Others

\* Every step of a scan and of users keeps the invariant.
LEMMA NextKeepsScan == ScanInv /\ [Next]_vars => ScanInv'
  <1> SUFFICES ASSUME ScanInv, [Next]_vars
               PROVE  ScanInv'
    OBVIOUS
  <1>1. CASE UNCHANGED vars
    BY <1>1 DEF vars, users, ScanInv, TypeOK, OnceEach, ListedAbove, Reached, AtPath,
                RecordPaths, Timely, SizeSeen, Wanted, NotMissed, Covered, InPlace,
                Untouched, FileSize, GitKnown, Committable, Head, Status
  <1>2. CASE Start
    BY <1>2, BeginKeepsScan DEF Start
  <1>3. CASE Step
    <2>1. CASE GitFails \/ Return
      BY <2>1, OverKeepsScan DEF GitFails, Return
    <2>2. QED
      BY <1>3, <2>1, ListKeepsScan, StatKeepsScan, ReadKeepsScan, GitKeepsScan DEF Step
  <1>4. CASE Others
    BY <1>4, OthersKeepScan
  <1>5. QED
    BY <1>1, <1>2, <1>3, <1>4 DEF Next

\* The invariant holds in every behaviour.
LEMMA ScanInvariant == Spec => []ScanInv
  BY InitScan, NextKeepsScan, PTL DEF Spec

-----------------------------------------------------------------------------
(* Theorems.                                                                 *)

\* A scan and what it has found keep their types, and what users make of the
\* workspace stays a tree.
THEOREM ScanTypeCorrect == Spec => []TypeOK
  <1>1. ScanInv => TypeOK
    BY DEF ScanInv
  <1>2. QED
    BY <1>1, ScanInvariant, PTL

\* Every record is of a content and a size that its path had in the course of the
\* scan, there is one per path, and what stayed in place is there as it was.
THEOREM RecordsAreOfTheirTime == Spec => []EachPathWasSo
  <1>1. ScanInv => EachPathWasSo
    <2> SUFFICES ASSUME ScanInv, scan # Idle
                 PROVE  /\ \A r \in scan.records :
                             /\ r.path \notin Ignored
                             /\ r.content \in seen[r.path]
                             /\ \E n \in seen[r.path] \ {Absent} : r.size = SizeOf[n]
                             /\ \A q \in scan.records : q.path = r.path => q = r
                        /\ scan.done =>
                             \A p \in Below :
                               InPlace(p) /\ node[p] \in Contents /\ Wanted(p, SizeOf[node[p]])
                               => [path |-> p, size |-> SizeOf[node[p]], content |-> node[p]]
                                    \in scan.records
      BY DEF EachPathWasSo
    <2>1. OnceEach /\ ListedAbove /\ Timely /\ NotMissed /\ GitKnown
      BY DEF ScanInv
    <2>2. ASSUME NEW r \in scan.records
          PROVE  r.path \notin Ignored
      <3>1. r.path \in Reached /\ r.path \in Paths
        BY ScanParts DEF ScanInv, Reached, RecordPaths, Below
      <3>2. r.path \in Ancestors[r.path]
        BY <3>1, AncestorsAreUpward
      <3>3. QED
        BY <2>1, <3>1, <3>2 DEF ListedAbove
    <2>3. ASSUME scan.done, NEW p \in Below, InPlace(p), node[p] \in Contents,
                 Wanted(p, SizeOf[node[p]])
          PROVE  [path |-> p, size |-> SizeOf[node[p]], content |-> node[p]] \in scan.records
      <3>1. Covered(p) /\ scan.todo = {} /\ scan.files = {} /\ scan.at = Null
        BY <2>1, <2>3 DEF NotMissed, GitKnown, FileSize
      <3>2. scan.at # [path |-> p, size |-> FileSize(p)]
        <4>1. FileSize(p) \in Nat
          BY <2>3, NodeAssumption DEF FileSize
        <4>2. QED
          BY <3>1, <4>1, NodeAssumption
      <3>3. QED
        BY <3>1, <3>2 DEF Covered, FileSize
    <2>4. QED
      BY <2>1, <2>2, <2>3 DEF OnceEach, Timely, SizeSeen
  <1>2. QED
    BY <1>1, ScanInvariant, PTL

\* Where nobody has committed or switched branches, a file of a snapshot that has never,
\* since the scan began, been as in the head that the snapshot names is in its status.
THEOREM DirtIsInTheStatus == Spec => []DirtIsNoticed
  <1>1. ScanInv => DirtIsNoticed
    <2> SUFFICES ASSUME ScanInv, scan # Idle, scan.status # Null, Cardinality(seenRepo) = 1,
                        NEW r \in scan.records, r.path \notin GitIgnored,
                        scan.head[r.path] \notin Committable(r.path)
                 PROVE  r.path \in scan.status
      BY DEF DirtIsNoticed
    <2>1. seenRepo = {repo}
      <3>1. IsFiniteSet(seenRepo) /\ repo \in seenRepo
        BY DEF ScanInv, TypeOK
      <3>2. PICK x : seenRepo = {x}
        BY <3>1, FS_Singleton
      <3>3. QED
        BY <3>1, <3>2
    <2>2. r.path \in Below
      BY ScanParts DEF ScanInv
    <2>3. scan.head = Head
      BY <2>1 DEF ScanInv, GitKnown
    <2>4. QED
      BY <2>1, <2>2, <2>3 DEF ScanInv, GitKnown
  <1>2. QED
    BY <1>1, ScanInvariant, PTL

\* Where nobody has changed anything since the scan began, the inventory and the git
\* summary are a function of the tree and the repository.
THEOREM UndisturbedScansAreExact == Spec => []UndisturbedIsExact
  <1>1. ScanInv => UndisturbedIsExact
    <2> SUFFICES ASSUME ScanInv, scan # Idle, scan.done, Undisturbed
                 PROVE  /\ scan.records = Inventory(node)
                        /\ scan.kind = "snapshot" =>
                             scan.head = Head /\ scan.branch = repo.branch /\ scan.status = Status
      BY DEF UndisturbedIsExact
    <2>1. OnceEach /\ ListedAbove /\ Timely /\ NotMissed /\ GitKnown
      BY DEF ScanInv
    <2>2. (\A p \in Paths : Untouched(p)) /\ seenRepo = {repo}
      BY DEF Undisturbed
    <2>3. ASSUME NEW r \in scan.records
          PROVE  r \in Inventory(node)
      <3>1. r \in Records /\ r.path \in Below /\ r.content \in Contents /\ r.path \in Reached
        BY ScanParts DEF ScanInv, Reached, RecordPaths
      <3>2. seen[r.path] = {node[r.path]}
        BY <2>2, <3>1 DEF Untouched, Below
      <3>3. r.content = node[r.path] /\ r.size = SizeOf[node[r.path]] /\ Wanted(r.path, r.size)
        BY <2>1, <3>2 DEF Timely, SizeSeen
      <3>4. Ancestors[r.path] \cap Ignored = {}
        BY <2>1, <3>1 DEF ListedAbove
      <3>5. r = [path |-> r.path, size |-> r.size, content |-> r.content]
        BY <3>1 DEF Records
      <3>6. QED
        BY <3>1, <3>3, <3>4, <3>5 DEF Inventory
    <2>4. ASSUME NEW r \in Inventory(node)
          PROVE  r \in scan.records
      <3>1. PICK p \in Below :
              /\ node[p] \in Contents /\ Ancestors[p] \cap Ignored = {}
              /\ Wanted(p, SizeOf[node[p]])
              /\ r = [path |-> p, size |-> SizeOf[node[p]], content |-> node[p]]
        BY <2>4 DEF Inventory
      <3>2. InPlace(p)
        BY <2>2, <3>1, AncestorsAreUpward DEF InPlace, Below
      <3>3. Covered(p) /\ scan.todo = {} /\ scan.files = {} /\ scan.at = Null
        BY <2>1, <3>1, <3>2 DEF NotMissed, GitKnown, FileSize
      <3>4. FileSize(p) \in Nat
        BY <3>1, NodeAssumption DEF FileSize
      <3>5. scan.at # [path |-> p, size |-> FileSize(p)]
        BY <3>3, <3>4, NodeAssumption
      <3>6. QED
        BY <3>1, <3>3, <3>5 DEF Covered, FileSize
    <2>5. ASSUME scan.kind = "snapshot"
          PROVE  scan.head = Head /\ scan.branch = repo.branch /\ scan.status = Status
      <3>1. /\ scan.head = Head /\ scan.branch = repo.branch
            /\ \A p \in Below : p \in scan.status <=> p \in Status
        BY <2>1, <2>2, <2>5 DEF GitKnown, Below
      <3>2. Status \in SUBSET Below /\ scan.status \in SUBSET Below
        BY <2>1, <2>5 DEF Status, GitKnown
      <3>3. QED
        BY <3>1, <3>2
    <2>6. QED
      BY <2>3, <2>4, <2>5
  <1>2. QED
    BY <1>1, ScanInvariant, PTL

\* The directories that a scan has still to list, and whatever else lies below them.
Unlisted == {p \in Paths : \E d \in scan.todo : d \in Ancestors[p]}

\* A step of a scan leaves less to be listed, or as much and fewer files to be
\* statted, or as many and none to be read, or all of the inventory read and less
\* that git is to be asked for.
ScanMovesOn ==
  scan # Idle /\ scan' # Idle /\ scan' # scan =>
    \/ Unlisted' \subseteq Unlisted /\ \E d \in scan.todo : d \notin Unlisted'
    \/ /\ scan'.todo = scan.todo
       /\ scan'.files \subseteq scan.files /\ scan'.files # scan.files
    \/ /\ scan'.todo = scan.todo /\ scan'.files = scan.files
       /\ scan.at # Null /\ scan'.at = Null
    \/ /\ scan.todo = {} /\ scan.files = {} /\ scan.at = Null
       /\ \/ scan.head = Null /\ scan'.head # Null
          \/ scan.branch = Null /\ scan'.branch # Null
          \/ ~scan.done /\ scan'.done

LEMMA ListMovesOn ==
  ASSUME ScanInv, NEW d \in Paths, List(d), scan' # Idle
  PROVE  /\ Unlisted' \subseteq Unlisted
         /\ d \in scan.todo /\ d \notin Unlisted'
  <1>1. /\ scan # Idle /\ d \in scan.todo
        /\ scan'.todo = (scan.todo \ {d}) \cup Subdirectories(d)
    <2>1. scan # Idle /\ d \in scan.todo /\ scan \in Scans
      BY ScanParts DEF List, Scanning, ScanInv
    <2>2. scan' = [scan EXCEPT !.todo = Remaining(d) \cup Subdirectories(d),
                               !.files = Entries(d, "file")]
      BY DEF List
    <2>3. QED
      BY <2>1, <2>2 DEF Scans, Remaining
  <1>2. \A e \in Subdirectories(d) : e \in Below /\ Parent[e] = d
    BY DEF Subdirectories, Entries
  <1>3. Unlisted' \subseteq Unlisted
    <2>1. ASSUME NEW p \in Paths, NEW e \in Subdirectories(d), e \in Ancestors[p]
          PROVE  d \in Ancestors[p]
      <3>1. d \in Ancestors[e]
        BY <1>2, AncestorsOfChild
      <3>2. Ancestors[e] \subseteq Ancestors[p]
        BY <2>1, AncestorsOfAncestors
      <3>3. QED
        BY <3>1, <3>2
    <2>2. QED
      BY <1>1, <2>1 DEF Unlisted
  <1>4. ASSUME NEW x \in scan'.todo  PROVE x \notin Ancestors[d]
    <2>1. CASE x \in scan.todo /\ x # d
      <3>1. d \in Reached
        BY <1>1 DEF Reached
      <3>2. QED
        BY <1>1, <2>1, <3>1 DEF ScanInv, ListedAbove
    <2>2. CASE x \in Subdirectories(d)
      BY <1>2, <2>2, NoWayRound
    <2>3. QED
      BY <1>1, <1>4, <2>1, <2>2
  <1>5. QED
    BY <1>1, <1>3, <1>4 DEF Unlisted

LEMMA NextMovesOn == ScanInv /\ [Next]_vars => [ScanMovesOn]_vars
  <1> SUFFICES ASSUME ScanInv, Next, scan # Idle, scan' # Idle, scan' # scan
               PROVE  ScanMovesOn
    BY DEF ScanMovesOn
  <1>1. scan \in Scans
    BY DEF ScanInv, TypeOK
  <1>2. ASSUME NEW d \in Paths, List(d)
        PROVE  ScanMovesOn
    BY <1>2, ListMovesOn DEF ScanMovesOn
  <1>3. ASSUME NEW f \in Below, Stat(f)
        PROVE  ScanMovesOn
    <2>1. /\ f \in scan.files /\ scan'.todo = scan.todo /\ scan'.files = scan.files \ {f}
      BY <1>1, <1>3 DEF Stat, Scans
    <2>2. QED
      BY <2>1 DEF ScanMovesOn
  <1>4. CASE Read
    BY <1>1, <1>4 DEF Read, Scans, ScanMovesOn
  <1>5. CASE RevParseHead
    <2>1. Head # Null
      <3>1. scan.head = Null /\ scan' = [scan EXCEPT !.head = Head]
        BY <1>5 DEF RevParseHead
      <3>2. Head = Null => scan' = scan
        BY <1>1, <3>1 DEF Scans
      <3>3. QED
        BY <3>2
    <2>2. QED
      BY <1>1, <1>5, <2>1 DEF RevParseHead, Inventoried, Scans, ScanMovesOn
  <1>6. CASE RevParseBranch
    <2>1. repo.branch # Null
      BY NodeAssumption DEF ScanInv, TypeOK, Repos
    <2>2. QED
      BY <1>1, <1>6, <2>1 DEF RevParseBranch, Inventoried, Scans, ScanMovesOn
  <1>7. CASE StatusPorcelain \/ Collected
    BY <1>1, <1>7 DEF StatusPorcelain, Collected, Inventoried, Scanning, Scans, ScanMovesOn
  <1>8. CASE GitFails \/ Return \/ Start \/ Others
    BY <1>8 DEF GitFails, Return, Start, Begin, Others, Edit, CheckOut, Commit, Change
  <1>9. QED
    BY <1>2, <1>3, <1>4, <1>5, <1>6, <1>7, <1>8 DEF Next, Step

\* A scan gets on with every step, whatever users do meanwhile, and lists no directory
\* twice: the recursion of the inventory and the git calls behind it come to an end.
THEOREM ScansMoveOn == Spec => [][ScanMovesOn]_vars
  BY ScanInvariant, NextMovesOn, PTL DEF Spec
=============================================================================
