------------------------------ MODULE Workspace ------------------------------
(***************************************************************************)
(* What the Node file system calls of runtime/src/apply-rollback.ts do to  *)
(* the paths of a workspace: existsSync, statSync, readFileSync, rmSync    *)
(* with {force: true}, mkdirSync with {recursive: true}, writeFileSync.    *)
(* A workspace maps every path to a file content, to Absent or to Dir.     *)
(***************************************************************************)
EXTENDS Integers

CONSTANTS
  Paths,     \* see ApplyGates
  Contents,
  Absent,
  Dir,       \* the node of a path at which there is a directory
  Above      \* Above[p]: the proper ancestors of p among Paths

Node       == Contents \cup {Absent, Dir}
Workspaces == [Paths -> Node]

AboveAssumption ==
  /\ Above \in [Paths -> SUBSET Paths]
  /\ \A p \in Paths : \A q \in Above[p] : q < p /\ Above[q] \subseteq Above[p]

-----------------------------------------------------------------------------
(* Plausible bugs, for the runs to find: reading whatever is at a path,    *)
(* making parent directories over files, and opening with flag "wx".       *)

ReadableWhatever(ws, p)       == TRUE
ParentsForced(ws, p)          == TRUE
WritableExclusively(ws, p)    == ws[p] = Absent /\ \A q \in Above[p] : ws[q] # Absent

-----------------------------------------------------------------------------
\* readWorkspaceFileSnapshotEntry throws on anything but a regular file; a
\* path below a regular file does not exist.
Readable(ws, p) == ws[p] # Dir

\* mkdir -p of the parent directory: fails when an ancestor is a file.
ParentsCreatable(ws, p)  == \A q \in Above[p] : ws[q] \in {Absent, Dir}
WithParents(ws, p) == [q \in Paths |-> IF q \in Above[p] THEN Dir ELSE ws[q]]

\* One path is given the entry e: Absent removes the file if there is one,
\* a content makes the parent directories and writes the file.
Removable(ws, p)  == ws[p] # Dir
Writable(ws, p)   == ws[p] # Dir /\ ParentsCreatable(ws, p)
CanPut(ws, p, e)  == IF e = Absent THEN Removable(ws, p) ELSE Writable(ws, p)
Put(ws, p, e) ==
  IF e = Absent THEN [ws EXCEPT ![p] = Absent]
  ELSE [WithParents(ws, p) EXCEPT ![p] = e]

\* A tree: below a node that is not a directory there is nothing.
WellFormed(ws) == \A p \in Paths : ws[p] # Absent => \A q \in Above[p] : ws[q] = Dir
=============================================================================
