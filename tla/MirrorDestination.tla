-------------------------- MODULE MirrorDestination --------------------------
(***************************************************************************)
(* The destinations of mirrors on the workers (internal/mirror/remote.go): *)
(* a directory each and, outside it, the marker that says whose it is.     *)
(* Every operator is one command run over ssh, or what the tool concludes  *)
(* from its answer; other tools, and whoever works on the worker, act in   *)
(* between.                                                                *)
(***************************************************************************)
EXTENDS ProfileStore

CONSTANTS
    Inodes,  \* device and inode of a directory, as stat shows them
    NoInode  \* no directory, or a marker without a DestinationID

ASSUME InodesAssumption == Inodes # {} /\ NoInode \notin Inodes

VARIABLES
    dir,     \* what is at the destination
    marker,  \* the marker file next to it
    owner    \* history: the last sync that ended well in this very directory

\* inode is the identity that stat shows, gen is history: it numbers the
\* directories that have been at the path.  full says whether there are files
\* in the directory.
Dir == [kind : {"missing", "dir", "other"}, inode : Inodes \cup {NoInode}, gen : Nat,
        full : BOOLEAN]

NoMarker == [id |-> NoId, name |-> "", root |-> "", inode |-> NoInode, gen |-> 0,
             intact |-> FALSE]
NoOwner == [id |-> NoId, name |-> "", root |-> ""]

Owner(p) == [id |-> p.id, name |-> p.name, root |-> p.root]

\* What WriteMarker writes; history: which directory that is (gen), and whether
\* it is the one that its sync has copied into (intact).
Marker(p, inode, gen, intact) ==
    [id |-> p.id, name |-> p.name, root |-> p.root, inode |-> inode, gen |-> gen,
     intact |-> intact]

\* destinationCheckScript.
State(d) ==
    CASE dir[d].kind = "missing" -> "missing"
      [] dir[d].kind = "other" -> "not-directory"
      [] dir[d].kind = "dir" /\ dir[d].full -> "non-empty"
      [] dir[d].kind = "dir" /\ ~dir[d].full ->
            IF marker[d] # NoMarker THEN "marker-only" ELSE "empty"

\* Mutant of MarkerMatches: the name alone.
MarkerMatchesName(m, p) == m.name = p.name

\* MarkerMatches: the id, or both name and local root.
MarkerMatches(m, p) ==
    \/ m.id # NoId /\ m.id = p.id
    \/ m.name = p.name /\ m.root = p.root

\* A new directory: the file system may give it the number of an earlier one.
Fresh(d, full) ==
    {[kind |-> "dir", inode |-> inode, gen |-> dir[d].gen + 1, full |-> full] :
        inode \in Inodes}

\* The directory is made when nothing is there (prepareDestination, and rsync
\* when the directory has gone since).
Made(d) == IF dir[d].kind = "missing" THEN Fresh(d, FALSE) ELSE {dir[d]}

\* prepareDestination: mkdir -p and chmod; it refuses what is no directory.
Prepare(d) ==
    /\ dir[d].kind # "other"
    /\ \E made \in Made(d) : dir' = [dir EXCEPT ![d] = made]
    /\ owner' = [owner EXCEPT ![d] = IF dir[d].kind = "missing" THEN NoOwner ELSE @]
    /\ UNCHANGED marker

\* rsync, whole or in part: afterwards there are files if it got that far.
\* What it copies is the subject of MirrorWatch.
Copy(p, full) ==
    /\ dir[p.dest].kind # "other" /\ p.root \in present
    /\ \E made \in Made(p.dest) :
          dir' = [dir EXCEPT ![p.dest] = [made EXCEPT !.full = @ \/ full]]
    /\ owner' = [owner EXCEPT ![p.dest] = IF dir[p.dest].kind = "missing" THEN NoOwner ELSE @]
    /\ UNCHANGED marker

\* writeMarkerData: a new marker, by a rename.
PutMarker(p, inode, gen, intact) ==
    /\ marker' = [marker EXCEPT ![p.dest] = Marker(p, inode, gen, intact)]
    /\ owner' = [owner EXCEPT ![p.dest] =
                    IF intact /\ dir[p.dest].kind = "dir" /\ dir[p.dest].gen = gen
                    THEN Owner(p) ELSE @]
    /\ UNCHANGED dir

\* Mutant of SameDirectory: no look at the directory's identity.
SameDirectoryAlways(d, inode) == TRUE

\* DeleteRemote's comparison of destinationIdentity with the marker's; a marker
\* that an earlier version wrote has no DestinationID and is not compared.
SameDirectory(d, inode) ==
    inode = NoInode \/ (dir[d].kind # "missing" /\ dir[d].inode = inode)

\* The script of DeleteRemote: the directory, then the marker, unless it is
\* cut off between the two.
RemoveAll(d, cutOff) ==
    /\ marker[d] # NoMarker
    /\ dir' = [dir EXCEPT ![d] = [@ EXCEPT !.kind = "missing", !.inode = NoInode,
                                          !.full = FALSE]]
    /\ owner' = [owner EXCEPT ![d] = NoOwner]
    /\ marker' = [marker EXCEPT ![d] = IF cutOff THEN @ ELSE NoMarker]

\* Somebody on the worker puts another directory, with files, in its place.
Replace(d) ==
    /\ \E new \in Fresh(d, TRUE) : dir' = [dir EXCEPT ![d] = new]
    /\ owner' = [owner EXCEPT ![d] = NoOwner]
    /\ UNCHANGED marker

DestinationType ==
    /\ dir \in [Dests -> Dir]
    /\ marker \in [Dests -> {NoMarker} \cup [id : Ids \cup {NoId}, name : Names, root : Roots,
                                            inode : Inodes \cup {NoInode}, gen : Nat,
                                            intact : BOOLEAN]]
    /\ owner \in [Dests -> {NoOwner} \cup [id : Ids \cup {NoId}, name : Names, root : Roots]]

=============================================================================
