---------------------------- MODULE ProfileStore ----------------------------
(***************************************************************************)
(* The mirror profiles of one machine (internal/mirror/store.go): one YAML *)
(* file that every command line tool loads whole, changes and saves whole  *)
(* by a rename, without a lock.  The operators below are what one command  *)
(* makes of the file it has loaded; which file that was, and what became   *)
(* of the file since, is the business of MirrorCommands.                   *)
(***************************************************************************)
EXTENDS Naturals, FiniteSets

CONSTANTS
    Ids,    \* what randomID may return
    NoId,   \* no id yet
    Names,  \* names of profiles, which need not be unique
    Roots,  \* local directories
    Dests   \* destinations: a worker and a path on it

ASSUME IdsAssumption == NoId \notin Ids

VARIABLES
    file,    \* mirrors.yaml: the set of profiles
    present  \* the local roots that exist

Profiles == [id : Ids \cup {NoId}, name : Names, root : Roots, dest : Dests,
             enabled : BOOLEAN]

\* Normalize: the local root has to be a directory that is there.
Normalized(p) == p.root \in present

\* load: every entry is normalised, so that one local root that is gone makes
\* the whole file unreadable, for every command.
Loads == \A p \in file : Normalized(p)

\* Entries that somebody wrote, or an earlier version, without an id.
Unnamed(profiles) == {p \in profiles : p.id = NoId}

\* load returns the file as it is.
Loaded == Loads /\ Unnamed(file) = {}

\* Resolve: the profile with that id, or the only one with that name; {} when
\* there is none, or more than one of the name.
Resolve(profiles, ref) ==
    LET named == {p \in profiles : p.name = ref}
        byId  == {p \in profiles : p.id = ref}
    IN  IF byId # {} THEN byId
        ELSE IF Cardinality(named) = 1 THEN named ELSE {}

\* newUniqueID: unique in the file as it was loaded.
FreeIds(profiles) == Ids \ {p.id : p \in profiles}

\* Otherwise load gives every entry without an id one that is unique in the file
\* as it was read, and saves the whole file before it returns it.
Minted(profiles) ==
    {(profiles \ Unnamed(profiles)) \cup {[p EXCEPT !.id = ids[p]] : p \in Unnamed(profiles)} :
        ids \in {f \in [Unnamed(profiles) -> FreeIds(profiles)] :
                    \A p, q \in Unnamed(profiles) : f[p] = f[q] => p = q}}

\* Mutant of Put: the earlier entry stays.
PutAppended(profiles, p) == profiles \cup {p}

\* Upsert, SetEnabled and Rename replace the profile with the id, or add it.
Put(profiles, p) == {q \in profiles : q.id # p.id} \cup {p}

\* Mutant of Without: a delete that filters by name.
WithoutName(profiles, p) == {q \in profiles : q.name # p.name}

\* Delete.
Without(profiles, p) == {q \in profiles : q.id # p.id}

Enabled(profiles) == {p \in profiles : p.enabled}

\* Upsert gives a new profile its id and adds it to the file as loaded.
Added(profiles, p) == {Put(profiles, [p EXCEPT !.id = id]) : id \in FreeIds(profiles)}

StoreType == file \subseteq Profiles /\ present \subseteq Roots

=============================================================================
