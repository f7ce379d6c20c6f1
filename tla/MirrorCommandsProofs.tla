------------------------- MODULE MirrorCommandsProofs -------------------------
(***************************************************************************)
(* Theorems about MirrorCommands, for any number of tools, profiles,       *)
(* destinations and mirror processes.  The argument goes by what a step    *)
(* does to the command of the actor that takes it, and by how little it    *)
(* does to the commands of the others: it may only note that their picture *)
(* of the file is stale, or that their destination was touched.            *)
(***************************************************************************)
EXTENDS MirrorCommands, TLAPS

(***************************************************************************)
(* Commands                                                                *)
(***************************************************************************)

CmdType == cmd \in [Actors -> CommandType]

\* A step leaves the command of b alone, but for the two notes of history.
Alike(b) ==
    /\ cmd'[b].kind = cmd[b].kind /\ cmd'[b].pc = cmd[b].pc /\ cmd'[b].p = cmd[b].p
    /\ cmd'[b].copy = cmd[b].copy /\ cmd'[b].force = cmd[b].force
    /\ cmd'[b].inode = cmd[b].inode /\ cmd'[b].gen = cmd[b].gen
    /\ cmd'[b].intact = cmd[b].intact /\ cmd'[b].n = cmd[b].n
    /\ cmd[b].stale => cmd'[b].stale
    /\ cmd[b].touched => cmd'[b].touched

\* A step of a, or one in which a has a share.
Turn(a) ==
    /\ CmdType' /\ Sound(a, cmd'[a])
    /\ \A b \in Actors : b # a => Alike(b)

\* No command at all has a share in the step.
NoTurn == CmdType' /\ \A b \in Actors : Alike(b)

\* An idle actor has the type of a command, and is sound.
LEMMA IdleIsSound == Idle \in CommandType /\ \A a \in Actors : Sound(a, Idle)
  <1>1. Idle \in CommandType
    BY DEF Idle, CommandType, Kinds, Pcs, NoPid
  <1>2. QED
    BY <1>1 DEF Idle, Sound, SyncPcs

\* The updates that the steps make keep a command a command.
LEMMA Updates ==
    ASSUME NEW t \in CommandType, NEW pc \in Pcs, NEW i \in Inodes \cup {NoInode},
           NEW g \in Nat, NEW b \in BOOLEAN, NEW d \in BOOLEAN,
           NEW S \in SUBSET Profiles, NEW n \in Launches
    PROVE  /\ [t EXCEPT !.pc = pc] \in CommandType
           /\ [t EXCEPT !.pc = pc, !.touched = d] \in CommandType
           /\ [t EXCEPT !.pc = pc, !.touched = d, !.inode = i, !.gen = g, !.intact = b]
                 \in CommandType
           /\ [t EXCEPT !.pc = pc, !.inode = i, !.gen = g, !.intact = b] \in CommandType
           /\ [t EXCEPT !.pc = pc, !.gen = g] \in CommandType
           /\ [t EXCEPT !.pc = pc, !.copy = S, !.stale = d] \in CommandType
           /\ [t EXCEPT !.pc = pc, !.n = n] \in CommandType
           /\ [t EXCEPT !.touched = d] \in CommandType
           /\ [t EXCEPT !.stale = d] \in CommandType
  BY DEF CommandType

\* A step that gives a one new command leaves the others alone.
LEMMA OneTurn ==
    ASSUME CmdType, NEW a \in Actors, NEW t \in CommandType, Sound(a, t),
           cmd' = [cmd EXCEPT ![a] = t]
    PROVE  Turn(a) /\ cmd'[a] = t
  BY DEF CmdType, Turn, Alike

\* A step that touches a destination notes it in the others' commands.
LEMMA TouchTurn ==
    ASSUME CmdType, NEW a \in Actors, NEW t \in CommandType, Sound(a, t), Touch(a, t)
    PROVE  /\ Turn(a) /\ cmd'[a] = t
           /\ \A b \in Actors :
                 /\ b # a /\ cmd[b].p.dest = cmd[a].p.dest
                 /\ Looked(cmd[b])
                 => cmd'[b].touched
  <1>1. \A b \in Actors : cmd[b] \in CommandType
    BY DEF CmdType
  <1>2. \A b \in Actors :
           \/ b = a /\ cmd'[b] = t
           \/ b # a /\ cmd'[b] = cmd[b]
           \/ b # a /\ cmd'[b] = [cmd[b] EXCEPT !.touched = TRUE]
    BY DEF Touch, Outdated
  <1>3. \A b \in Actors : [cmd[b] EXCEPT !.touched = TRUE] \in CommandType
    BY <1>1 DEF CommandType
  <1>4. CmdType'
    <2>1. cmd' = [b \in Actors |-> cmd'[b]]
      BY DEF Touch
    <2>2. \A b \in Actors : cmd'[b] \in CommandType
      BY <1>1, <1>2, <1>3
    <2>3. QED
      BY <2>1, <2>2 DEF CmdType
  <1>5. \A b \in Actors : b # a => Alike(b)
    BY <1>1, <1>2 DEF Alike, CommandType
  <1>6. ASSUME NEW b \in Actors, b # a, cmd[b].p.dest = cmd[a].p.dest, Looked(cmd[b])
        PROVE  cmd'[b].touched
    <2>1. cmd'[b] = [cmd[b] EXCEPT !.touched = TRUE]
      BY <1>6 DEF Touch, Outdated
    <2>2. QED
      BY <1>1, <2>1 DEF CommandType
  <1>7. QED
    BY <1>2, <1>4, <1>5, <1>6 DEF Turn

\* What stays true of the others' commands.
LEMMA TurnKeepsKinds ==
    ASSUME KindInv, NEW a \in Actors, Turn(a) PROVE KindInv'
  BY DEF KindInv, Turn, Alike, Sound

\* The same for a step without any command.
LEMMA NoTurnKeepsKinds ==
    ASSUME KindInv, NoTurn PROVE KindInv'
  BY DEF KindInv, NoTurn, Alike, Sound

(***************************************************************************)
(* The command of a step and the rest of the state                         *)
(***************************************************************************)

\* A command that is about to save f has loaded it, and has made nothing of it but
\* that it has given out ids.
Fitting(t, f) ==
    /\ t.pc = "save" => t.copy = f /\ Unnamed(f) = {}
    /\ t.pc = "mint" => t.copy \in Minted(f) /\ Distinct(t.copy) /\ Unnamed(t.copy) = {}

\* After a step of a, its command fits the file, its destination and what it
\* has seen of it.
Fits(a) ==
    /\ Turn(a)
    /\ Fitting(cmd'[a], file')
    /\ cmd'[a].pc \in {"stat", "mark"} => cmd'[a].gen <= dir'[cmd'[a].p.dest].gen
    /\ ~cmd'[a].touched => Seen(cmd[a])'

\* What a command at a place where it has seen nothing claims: nothing.
Unlooking(t) ==
    /\ t.pc \notin {"use", "identity", "remove"}
    /\ ~(t.kind = "setup" /\ t.pc \in {"load", "mint", "save"})

\* A new command of a, with nothing else that it depends on changed.
LEMMA QuietFits ==
    ASSUME CmdType, NEW a \in Actors, NEW t \in CommandType, Sound(a, t),
           cmd' = [cmd EXCEPT ![a] = t], UNCHANGED destVars,
           t.pc \in {"save", "mint"} => Fitting(t, file'),
           t.pc \in {"stat", "mark"} => t.gen <= dir[t.p.dest].gen,
           ~t.touched => Seen(t)
    PROVE  Fits(a) /\ cmd'[a] = t
  <1>1. Turn(a) /\ cmd'[a] = t
    BY OneTurn
  <1>2. ~t.touched => Seen(cmd[a])'
    BY <1>1 DEF Seen, MarkerCurrent, SameDirectory, destVars
  <1>3. QED
    BY <1>1, <1>2 DEF Fits, Fitting, destVars

\* A command that changes destinations and ends where it has seen nothing.
LEMMA UnlookingFits ==
    ASSUME CmdType, NEW a \in Actors, Turn(a), Unlooking(cmd'[a]),
           cmd'[a].pc \notin {"save", "mint"},
           cmd'[a].pc \in {"stat", "mark"} => cmd'[a].gen <= dir'[cmd'[a].p.dest].gen
    PROVE  Fits(a)
  BY DEF Fits, Fitting, Unlooking, Seen

\* The fields of a command that goes on to another place.
LEMMA PcFields ==
    ASSUME NEW t \in CommandType, NEW pc
    PROVE  LET u == [t EXCEPT !.pc = pc]
           IN  /\ u.kind = t.kind /\ u.pc = pc /\ u.p = t.p /\ u.copy = t.copy
               /\ u.force = t.force /\ u.inode = t.inode /\ u.gen = t.gen /\ u.intact = t.intact
               /\ u.n = t.n /\ u.stale = t.stale /\ u.touched = t.touched
  BY DEF CommandType

\* The fields of one that goes on with a new picture of its destination.
LEMMA LooksFields ==
    ASSUME NEW t \in CommandType, NEW pc
    PROVE  LET u == [t EXCEPT !.pc = pc, !.touched = FALSE]
           IN  /\ u.kind = t.kind /\ u.pc = pc /\ u.p = t.p /\ u.copy = t.copy
               /\ u.force = t.force /\ u.inode = t.inode /\ u.gen = t.gen /\ u.intact = t.intact
               /\ u.n = t.n /\ u.stale = t.stale /\ u.touched = FALSE
  BY DEF CommandType

\* A command that goes on to pc.
LEMMA GotoFits ==
    ASSUME CmdType, NEW a \in Actors, NEW pc \in Pcs \ {"save", "mint", "stat", "mark"},
           Goto(a, pc), UNCHANGED destVars,
           Sound(a, [cmd[a] EXCEPT !.pc = pc]),
           ~cmd[a].touched => Seen([cmd[a] EXCEPT !.pc = pc])
    PROVE  Fits(a) /\ cmd'[a] = [cmd[a] EXCEPT !.pc = pc]
  <1> DEFINE t == [cmd[a] EXCEPT !.pc = pc]
  <1>1. cmd[a] \in CommandType
    BY DEF CmdType
  <1>2. t \in CommandType
    BY <1>1, pc \in Pcs DEF CommandType
  <1>3. t.pc = pc /\ t.touched = cmd[a].touched
    BY <1>1, PcFields
  <1>4. cmd' = [cmd EXCEPT ![a] = t]
    BY DEF Goto
  <1>5. Sound(a, t) /\ (~t.touched => Seen(t))
    BY <1>3
  <1> HIDE DEF t
  <1>6. QED
    <2>1. t.pc \notin {"save", "mint", "stat", "mark"}
      BY <1>3
    <2>2. Fits(a) /\ cmd'[a] = t
      BY <1>2, <1>4, <1>5, <2>1, QuietFits
    <2>3. QED
      BY <2>2 DEF t

\* A command that has looked at its destination and goes on to pc.
LEMMA LooksFits ==
    ASSUME CmdType, NEW a \in Actors, NEW pc \in Pcs \ {"save", "mint", "stat", "mark"},
           Looks(a, pc), UNCHANGED destVars,
           Sound(a, [cmd[a] EXCEPT !.pc = pc, !.touched = FALSE]),
           Seen([cmd[a] EXCEPT !.pc = pc, !.touched = FALSE])
    PROVE  Fits(a) /\ cmd'[a] = [cmd[a] EXCEPT !.pc = pc, !.touched = FALSE]
  <1> DEFINE t == [cmd[a] EXCEPT !.pc = pc, !.touched = FALSE]
  <1>1. cmd[a] \in CommandType
    BY DEF CmdType
  <1>2. t \in CommandType
    BY <1>1, pc \in Pcs DEF CommandType
  <1>3. t.pc = pc
    BY <1>1, LooksFields
  <1>4. cmd' = [cmd EXCEPT ![a] = t]
    <2>1. cmd' = [cmd EXCEPT ![a] = [@ EXCEPT !.pc = pc, !.touched = FALSE]]
      BY <1>1 DEF Looks, CommandType, CmdType
    <2>2. QED
      BY <2>1
  <1>5. Sound(a, t) /\ Seen(t)
    OBVIOUS
  <1> HIDE DEF t
  <1>6. QED
    <2>1. t.pc \notin {"save", "mint", "stat", "mark"}
      BY <1>3
    <2>2. Fits(a) /\ cmd'[a] = t
      BY <1>2, <1>4, <1>5, <2>1, QuietFits
    <2>3. QED
      BY <2>2 DEF t

\* A command that ends.
LEMMA EndFits ==
    ASSUME CmdType, NEW a \in Actors, Ended(a), UNCHANGED destVars
    PROVE  Fits(a) /\ cmd'[a] = Idle
  <1>1. Seen(Idle) /\ Idle.pc = "idle"
    BY DEF Seen, Idle
  <1>2. Idle \in CommandType /\ Sound(a, Idle)
    BY IdleIsSound
  <1>3. cmd' = [cmd EXCEPT ![a] = Idle]
    BY DEF Ended
  <1>4. QED
    BY <1>1, <1>2, <1>3, QuietFits

(***************************************************************************)
(* The commands that begin                                                 *)
(***************************************************************************)

\* What the invariant says of one actor's command.
LEMMA Here ==
    ASSUME CInv, NEW a \in Actors
    PROVE  /\ CmdType /\ cmd[a] \in CommandType /\ Sound(a, cmd[a])
           /\ ~cmd[a].touched => Seen(cmd[a])
  BY DEF CInv, TypeOK, CmdType, KindInv, LookInv

\* Tools are no mirror processes, and both are actors.
LEMMA ClientsAct ==
    ASSUME NEW c \in Clients PROVE c \in Actors /\ c \notin Launches
  BY ActorsAssumption DEF Actors, Launches

\* A command that begins where it has seen nothing yet.
LEMMA BeginFits ==
    ASSUME CInv, NEW a \in Actors, NEW t \in CommandType, Sound(a, t), Begin(a, t),
           UNCHANGED destVars, Unlooking(t), t.pc \notin {"stat", "mark"},
           t.pc \in {"save", "mint"} => Fitting(t, file')
    PROVE  Fits(a) /\ cmd'[a] = t /\ cmd[a].kind = "none"
  <1>1. CmdType /\ Sound(a, cmd[a])
    BY Here
  <1>2. Seen(t)
    BY DEF Seen, Unlooking
  <1>3. cmd[a].kind = "none"
    BY <1>1 DEF Begin, At, Sound
  <1>4. cmd' = [cmd EXCEPT ![a] = t]
    BY DEF Begin
  <1>5. Fits(a) /\ cmd'[a] = t
    BY <1>1, <1>2, <1>4, QuietFits
  <1>6. QED
    BY <1>3, <1>5

\* A command that has just begun: its fields, as far as they are not given.
New(t, kind, pc, p) ==
    /\ t \in CommandType
    /\ t.kind = kind /\ t.pc = pc /\ t.p = p /\ ~t.touched

\* A command about a profile.
LEMMA AboutFields ==
    ASSUME NEW kind \in Kinds, NEW pc \in Pcs, NEW p \in Profiles \cup {NoProfile}
    PROVE  New(About(kind, pc, p), kind, pc, p)
  <1>1. Idle \in CommandType /\ Idle.touched = FALSE
    BY IdleIsSound DEF Idle
  <1>2. About(kind, pc, p) = [Idle EXCEPT !.kind = kind, !.pc = pc, !.p = p]
    BY DEF About
  <1> HIDE DEF Idle
  <1>3. QED
    BY <1>1, <1>2 DEF CommandType, New

\* The profiles that a load returns, and those that a mirror process serves, have
\* ids.
LEMMA HaveIds ==
    ASSUME CInv
    PROVE  /\ file \subseteq Profiles /\ Distinct(file)
           /\ Loaded => \A p \in file : p \in Profiles /\ p.id # NoId
           /\ \A n \in Launches : \A p \in served[n] : p \in Profiles /\ p.id # NoId
  BY DEF CInv, TypeOK, StoreType, Distinct, ServedInv, Loaded, Unnamed

\* A tool's command and none about the pid file, before and after the step.
Apart(c) == cmd[c].kind \notin PidKinds /\ cmd'[c].kind \notin PidKinds

\* setup begins.
LEMMA SetupBeginFits ==
    ASSUME CInv, NEW c \in Clients, SetupBegin(c) PROVE Fits(c) /\ Apart(c)
  <1>1. PICK name \in Names, root \in present, d \in Dests, force \in BOOLEAN :
           Begin(c, [Idle EXCEPT !.kind = "setup", !.pc = "look", !.force = force,
                        !.p = [id |-> NoId, name |-> name, root |-> root, dest |-> d,
                               enabled |-> TRUE]])
    BY DEF SetupBegin
  <1> DEFINE p == [id |-> NoId, name |-> name, root |-> root, dest |-> d, enabled |-> TRUE]
             t == [Idle EXCEPT !.kind = "setup", !.pc = "look", !.force = force, !.p = p]
  <1>2. p \in Profiles
    BY DEF CInv, TypeOK, StoreType, Profiles
  <1>3. New(t, "setup", "look", p)
    <2>1. Idle \in CommandType /\ Idle.touched = FALSE
      BY IdleIsSound DEF Idle
    <2>2. "setup" \in Kinds /\ "look" \in Pcs
      BY DEF Kinds, Pcs
    <2> HIDE DEF p, Idle
    <2>3. QED
      BY <1>2, <2>1, <2>2 DEF CommandType, New
  <1>4. Begin(c, t) /\ UNCHANGED destVars
    BY <1>1 DEF SetupBegin
  <1> HIDE DEF t, p
  <1>5. Sound(c, t) /\ Unlooking(t)
    BY <1>2, <1>3, ClientsAct DEF Sound, Unlooking, New
  <1>6. Fits(c) /\ cmd'[c] = t /\ cmd[c].kind = "none"
    BY <1>3, <1>4, <1>5, ClientsAct, BeginFits DEF New
  <1>7. QED
    BY <1>3, <1>6 DEF Apart, PidKinds, New

\* A command about a profile of the file, or of those served, begins.
LEMMA AboutBegins ==
    ASSUME CInv, NEW a \in Actors, NEW p \in Profiles, p.id # NoId,
           NEW kind \in Kinds, NEW pc \in Pcs,
           Begin(a, About(kind, pc, p)), UNCHANGED destVars,
           \/ a \in Clients /\ kind = "sync" /\ pc = "prepare"
           \/ a \in Clients /\ kind = "use" /\ pc \in {"readyLook", "autoLook", "prepare"}
           \/ a \in Clients /\ kind = "delete" /\ pc \in {"readMarker", "load"}
           \/ a \in Clients /\ kind = "fix" /\ pc = "fixPid"
           \/ kind = "watch" /\ pc = "prepare"
    PROVE  Fits(a) /\ cmd[a].kind = "none" /\ cmd'[a].kind = kind /\ cmd'[a].pc = pc
  <1> DEFINE t == About(kind, pc, p)
  <1>1. New(t, kind, pc, p)
    BY AboutFields
  <1>2. Begin(a, t)
    OBVIOUS
  <1> HIDE DEF t
  <1>3. a \in Clients => a \notin Launches
    BY ClientsAct
  <1>4. Sound(a, t) /\ Unlooking(t)
    BY <1>1, <1>3 DEF Sound, Unlooking, SyncPcs, New
  <1>5. t.pc \notin {"stat", "mark", "save"}
    BY <1>1 DEF New
  <1>6. Fits(a) /\ cmd'[a] = t /\ cmd[a].kind = "none"
    BY <1>1, <1>2, <1>4, <1>5, BeginFits DEF New
  <1>7. QED
    BY <1>1, <1>6 DEF New

\* sync begins.
LEMMA SyncBeginFits ==
    ASSUME CInv, NEW c \in Clients, SyncBegin(c) PROVE Fits(c) /\ Apart(c)
  <1>1. PICK p \in file : Got(p) /\ Begin(c, About("sync", "prepare", p))
    BY DEF SyncBegin
  <1>2. p \in Profiles /\ p.id # NoId
    BY <1>1, HaveIds DEF Got
  <1>3. "sync" \in Kinds /\ "prepare" \in Pcs
    BY DEF Kinds, Pcs
  <1>4. Fits(c) /\ cmd[c].kind = "none" /\ cmd'[c].kind = "sync"
    BY <1>1, <1>2, <1>3, ClientsAct, AboutBegins DEF SyncBegin
  <1>5. QED
    BY <1>4 DEF Apart, PidKinds

\* shell, exec or services begins.
LEMMA UseBeginFits ==
    ASSUME CInv, NEW c \in Clients, UseBegin(c) PROVE Fits(c) /\ Apart(c)
  <1>1. PICK p \in file, pc \in {"readyLook", "autoLook", "prepare"} :
           Got(p) /\ Begin(c, About("use", pc, p))
    BY DEF UseBegin
  <1>2. p \in Profiles /\ p.id # NoId
    BY <1>1, HaveIds DEF Got
  <1>3. "use" \in Kinds /\ pc \in Pcs
    BY DEF Kinds, Pcs
  <1>4. Fits(c) /\ cmd[c].kind = "none" /\ cmd'[c].kind = "use"
    BY <1>1, <1>2, <1>3, ClientsAct, AboutBegins DEF UseBegin
  <1>5. QED
    BY <1>4 DEF Apart, PidKinds

\* delete begins.
LEMMA DeleteBeginFits ==
    ASSUME CInv, NEW c \in Clients, DeleteBegin(c) PROVE Fits(c) /\ Apart(c)
  <1>1. PICK p \in file, pc \in {"readMarker", "load"} :
           Got(p) /\ Begin(c, About("delete", pc, p))
    BY DEF DeleteBegin
  <1>2. p \in Profiles /\ p.id # NoId
    BY <1>1, HaveIds DEF Got
  <1>3. "delete" \in Kinds /\ pc \in Pcs
    BY DEF Kinds, Pcs
  <1>4. Fits(c) /\ cmd[c].kind = "none" /\ cmd'[c].kind = "delete"
    BY <1>1, <1>2, <1>3, ClientsAct, AboutBegins DEF DeleteBegin
  <1>5. QED
    BY <1>4 DEF Apart, PidKinds

\* doctor --fix begins.
LEMMA FixBeginFits ==
    ASSUME CInv, NEW c \in Clients, FixBegin(c)
    PROVE  Fits(c) /\ cmd[c].kind = "none" /\ cmd'[c].kind = "fix" /\ cmd'[c].pc = "fixPid"
  <1>1. PICK p \in file : Got(p) /\ Begin(c, About("fix", "fixPid", p))
    BY DEF FixBegin
  <1>2. p \in Profiles /\ p.id # NoId
    BY <1>1, HaveIds DEF Got
  <1>3. "fix" \in Kinds /\ "fixPid" \in Pcs
    BY DEF Kinds, Pcs, PidKinds
  <1>4. QED
    BY <1>1, <1>2, <1>3, ClientsAct, AboutBegins DEF FixBegin

\* A sync of the mirror process begins.
LEMMA WatchBeginFits ==
    ASSUME CInv, NEW n \in Launches, WatchBegin(n) PROVE Fits(n)
  <1>1. PICK p \in served[n] : Begin(n, About("watch", "prepare", p))
    BY DEF WatchBegin
  <1>2. p \in Profiles /\ p.id # NoId
    BY HaveIds
  <1>3. "watch" \in Kinds /\ "prepare" \in Pcs /\ n \in Actors
    BY DEF Kinds, Pcs, Actors
  <1>4. QED
    BY <1>1, <1>2, <1>3, AboutBegins DEF WatchBegin

\* pause, resume or rename begins: what it has loaded is the file.
LEMMA EditBeginFits ==
    ASSUME CInv, NEW c \in Clients, EditBegin(c) PROVE Fits(c) /\ Apart(c)
  <1>1. PICK p \in file, enabled \in BOOLEAN, name \in Names :
           Begin(c, [About("edit", "save", [p EXCEPT !.enabled = enabled, !.name = name])
                        EXCEPT !.copy = file])
    BY DEF EditBegin
  <1> DEFINE q == [p EXCEPT !.enabled = enabled, !.name = name]
             t == [About("edit", "save", q) EXCEPT !.copy = file]
  <1>2. p \in Profiles /\ p.id # NoId
    BY HaveIds DEF EditBegin
  <1>3. q \in Profiles /\ q.id # NoId
    BY <1>2 DEF Profiles
  <1>4. Begin(c, t) /\ UNCHANGED <<file, destVars>>
    BY <1>1 DEF EditBegin, storeVars
  <1> HIDE DEF q
  <1>5. New(t, "edit", "save", q) /\ t.copy = file
    <2>1. "edit" \in Kinds /\ "save" \in Pcs
      BY DEF Kinds, Pcs
    <2>2. New(About("edit", "save", q), "edit", "save", q)
      BY <1>3, <2>1, AboutFields
    <2>3. QED
      BY <2>2, HaveIds DEF CommandType, New
  <1> HIDE DEF t
  <1>6. Sound(c, t) /\ Unlooking(t)
    BY <1>3, <1>5, ClientsAct DEF Sound, Unlooking, New
  <1>7. Fitting(t, file')
    BY <1>4, <1>5 DEF Fitting, New, EditBegin, Loaded
  <1>8. Fits(c) /\ cmd'[c] = t /\ cmd[c].kind = "none"
    BY <1>4, <1>5, <1>6, <1>7, ClientsAct, BeginFits DEF New
  <1>9. QED
    BY <1>5, <1>8 DEF Apart, PidKinds, New

(***************************************************************************)
(* setup and delete                                                        *)
(***************************************************************************)

\* The fields of a marker, and of a directory.
LEMMA MarkerFields ==
    ASSUME CInv, NEW d \in Dests
    PROVE  /\ marker[d].inode \in Inodes \cup {NoInode} /\ marker[d].gen \in Nat
           /\ marker[d].intact \in BOOLEAN /\ dir[d] \in Dir
  <1>1. /\ marker[d] \in {NoMarker} \cup
              [id : Ids \cup {NoId}, name : Names, root : Roots,
               inode : Inodes \cup {NoInode}, gen : Nat, intact : BOOLEAN]
        /\ dir[d] \in Dir
    BY DEF CInv, TypeOK, DestinationType
  <1>2. NoMarker.inode = NoInode /\ NoMarker.gen \in Nat /\ NoMarker.intact \in BOOLEAN
    BY DEF NoMarker
  <1>3. CASE marker[d] = NoMarker
    BY <1>1, <1>2, <1>3
  <1>4. CASE marker[d] # NoMarker
    BY <1>1, <1>4
  <1>5. QED
    BY <1>3, <1>4

\* What CheckDestination finds: nothing is there, or nothing is in it and
\* there is no marker; either way nobody's sync is current.
LEMMA NothingThere ==
    ASSUME CInv, NEW d \in Dests, State(d) \in {"missing", "empty"}
    PROVE  owner[d] = NoOwner \/ ~MarkerCurrent(d)
  <1>1. dir[d].kind \in {"missing", "dir", "other"} /\ dir[d].full \in BOOLEAN
    BY DEF CInv, TypeOK, DestinationType, Dir
  <1>2. CASE dir[d].kind # "dir"
    BY <1>2 DEF CInv, DestInv
  <1>3. CASE dir[d].kind = "dir"
    <2>1. marker[d] = NoMarker
      BY <1>1, <1>3 DEF State
    <2>2. ~NoMarker.intact
      BY DEF NoMarker
    <2>3. QED
      BY <2>1, <2>2 DEF MarkerCurrent
  <1>4. QED
    BY <1>2, <1>3

\* setup's first look.
LEMMA SetupLookFits ==
    ASSUME CInv, NEW c \in Clients, SetupLook(c)
    PROVE  Fits(c) /\ Apart(c)
  <1>1. /\ c \in Actors /\ CmdType /\ cmd[c] \in CommandType /\ Sound(c, cmd[c])
        /\ UNCHANGED destVars /\ At(c, "look")
    BY Here, ClientsAct DEF SetupLook
  <1>2. cmd[c].kind = "setup" /\ cmd[c].p \in Profiles /\ cmd[c].p.dest \in Dests
    BY <1>1 DEF At, Sound, SyncPcs, Profiles, CommandType, Kinds, PidKinds
  <1> DEFINE d == cmd[c].p.dest
  <1>3. \/ State(d) \in {"missing", "empty"} /\ Looks(c, "load")
        \/ Looks(c, "readOwner")
        \/ Ended(c)
    BY DEF SetupLook
  <1>4. ASSUME NEW pc \in {"load", "readOwner"}, Looks(c, pc),
               pc = "load" => State(d) \in {"missing", "empty"}
        PROVE  Fits(c) /\ cmd'[c].kind = "setup"
    <2> DEFINE t == [cmd[c] EXCEPT !.pc = pc, !.touched = FALSE]
    <2>1. /\ t.kind = "setup" /\ t.pc = pc /\ t.p = cmd[c].p /\ t.force = cmd[c].force
          /\ t.n = cmd[c].n
      BY <1>1, <1>2, LooksFields
    <2> HIDE DEF t
    <2>2. Sound(c, t)
      BY <1>1, <1>2, <2>1, ClientsAct DEF Sound, SyncPcs
    <2>3. pc = "load" => owner[d] = NoOwner \/ ~MarkerCurrent(d)
      BY <1>2, <1>4, NothingThere
    <2>4. Seen(t)
      BY <1>4, <2>1, <2>3 DEF Seen
    <2>5. pc \in Pcs \ {"save", "mint", "stat", "mark"}
      BY DEF Pcs
    <2>6. Fits(c) /\ cmd'[c] = t
      BY <1>1, <1>4, <2>2, <2>4, <2>5, LooksFits DEF t
    <2>7. QED
      BY <2>1, <2>6
  <1>5. CASE Ended(c)
    <2>1. Fits(c) /\ cmd'[c] = Idle
      BY <1>1, <1>5, EndFits
    <2>2. QED
      BY <1>2, <2>1 DEF Apart, PidKinds, Idle
  <1>6. QED
    BY <1>2, <1>3, <1>4, <1>5 DEF Apart, PidKinds

\* setup reads the marker.
LEMMA SetupReadFits ==
    ASSUME CInv, NEW c \in Clients, SetupRead(c)
    PROVE  Fits(c) /\ Apart(c)
  <1>1. /\ c \in Actors /\ CmdType /\ cmd[c] \in CommandType /\ Sound(c, cmd[c])
        /\ UNCHANGED destVars /\ At(c, "readOwner")
    BY Here, ClientsAct DEF SetupRead
  <1>2. cmd[c].kind = "setup"
    BY <1>1 DEF At, Sound, SyncPcs, CommandType, Kinds, PidKinds
  <1> DEFINE d == cmd[c].p.dest
  <1>3. \/ (MarkerMatches(marker[d], cmd[c].p) \/ cmd[c].force) /\ Goto(c, "load")
        \/ Ended(c)
    BY DEF SetupRead
  <1>4. ASSUME MarkerMatches(marker[d], cmd[c].p) \/ cmd[c].force, Goto(c, "load")
        PROVE  Fits(c) /\ cmd'[c].kind = "setup"
    <2> DEFINE t == [cmd[c] EXCEPT !.pc = "load"]
    <2>1. /\ t.kind = "setup" /\ t.pc = "load" /\ t.p = cmd[c].p /\ t.force = cmd[c].force
          /\ t.n = cmd[c].n
      BY <1>1, <1>2, PcFields
    <2> HIDE DEF t
    <2>2. Sound(c, t)
      BY <1>1, <1>2, <2>1, ClientsAct DEF Sound, SyncPcs
    <2>3. Seen(t)
      BY <1>4, <2>1 DEF Seen
    <2>4. "load" \in Pcs \ {"save", "mint", "stat", "mark"}
      BY DEF Pcs
    <2>5. Fits(c) /\ cmd'[c] = t
      BY <1>1, <1>4, <2>2, <2>3, <2>4, GotoFits DEF t
    <2>6. QED
      BY <2>1, <2>5
  <1>5. CASE Ended(c)
    <2>1. Fits(c) /\ cmd'[c] = Idle
      BY <1>1, <1>5, EndFits
    <2>2. QED
      BY <1>2, <2>1 DEF Apart, PidKinds, Idle
  <1>6. QED
    BY <1>2, <1>3, <1>4, <1>5 DEF Apart, PidKinds

\* delete reads the marker, and keeps what it says of the directory.
LEMMA DeleteReadFits ==
    ASSUME CInv, NEW c \in Clients, DeleteRead(c)
    PROVE  Fits(c) /\ Apart(c)
  <1>1. /\ c \in Actors /\ CmdType /\ cmd[c] \in CommandType /\ Sound(c, cmd[c])
        /\ UNCHANGED destVars /\ At(c, "readMarker")
    BY Here, ClientsAct DEF DeleteRead
  <1>2. cmd[c].kind = "delete" /\ cmd[c].p.dest \in Dests
    BY <1>1 DEF At, Sound, SyncPcs, CommandType, Kinds, PidKinds, Profiles
  <1> DEFINE d == cmd[c].p.dest
             m == marker[d]
             t == [cmd[c] EXCEPT !.pc = "identity", !.touched = FALSE, !.inode = m.inode,
                                 !.gen = m.gen, !.intact = m.intact]
  <1>3. \/ MarkerMatches(m, cmd[c].p)
           /\ cmd' = [cmd EXCEPT ![c].pc = "identity", ![c].touched = FALSE,
                                 ![c].inode = m.inode, ![c].gen = m.gen, ![c].intact = m.intact]
        \/ Ended(c)
    BY DEF DeleteRead
  <1>4. CASE /\ MarkerMatches(m, cmd[c].p)
             /\ cmd' = [cmd EXCEPT ![c].pc = "identity", ![c].touched = FALSE,
                                   ![c].inode = m.inode, ![c].gen = m.gen, ![c].intact = m.intact]
    <2>1. m.inode \in Inodes \cup {NoInode} /\ m.gen \in Nat /\ m.intact \in BOOLEAN
      BY <1>2, MarkerFields
    <2>2. "identity" \in Pcs
      BY DEF Pcs
    <2>3. /\ t \in CommandType
          /\ t.kind = "delete" /\ t.pc = "identity" /\ t.p = cmd[c].p /\ t.n = cmd[c].n
          /\ t.inode = m.inode /\ t.gen = m.gen /\ t.intact = m.intact
      BY <1>1, <1>2, <2>1, <2>2 DEF CommandType
    <2>4. cmd' = [cmd EXCEPT ![c] = t]
      BY <1>4
    <2> HIDE DEF t
    <2>5. Sound(c, t)
      BY <1>1, <1>2, <2>3, ClientsAct DEF Sound, SyncPcs
    <2>6. Seen(t)
      BY <1>4, <2>3 DEF Seen
    <2>7. Fits(c) /\ cmd'[c] = t
      BY <1>1, <2>3, <2>4, <2>5, <2>6, QuietFits
    <2>8. QED
      BY <1>2, <2>3, <2>7 DEF Apart, PidKinds
  <1>5. CASE Ended(c)
    <2>1. Fits(c) /\ cmd'[c] = Idle
      BY <1>1, <1>5, EndFits
    <2>2. QED
      BY <1>2, <2>1 DEF Apart, PidKinds, Idle
  <1>6. QED
    BY <1>3, <1>4, <1>5

\* delete compares the directory's identity with the marker's.
LEMMA DeleteCompareFits ==
    ASSUME CInv, NEW c \in Clients, DeleteCompare(c)
    PROVE  Fits(c) /\ Apart(c)
  <1>1. /\ c \in Actors /\ CmdType /\ cmd[c] \in CommandType /\ Sound(c, cmd[c])
        /\ ~cmd[c].touched => Seen(cmd[c])
        /\ UNCHANGED destVars /\ At(c, "identity")
    BY Here, ClientsAct DEF DeleteCompare
  <1>2. cmd[c].kind = "delete"
    BY <1>1 DEF At, Sound, SyncPcs, CommandType, Kinds, PidKinds
  <1>3. \/ SameDirectory(cmd[c].p.dest, cmd[c].inode) /\ Goto(c, "remove")
        \/ Ended(c)
    BY DEF DeleteCompare
  <1>4. ASSUME SameDirectory(cmd[c].p.dest, cmd[c].inode), Goto(c, "remove")
        PROVE  Fits(c) /\ cmd'[c].kind = "delete"
    <2> DEFINE t == [cmd[c] EXCEPT !.pc = "remove"]
    <2>1. /\ t.kind = "delete" /\ t.pc = "remove" /\ t.p = cmd[c].p /\ t.n = cmd[c].n
          /\ t.inode = cmd[c].inode /\ t.gen = cmd[c].gen /\ t.intact = cmd[c].intact
      BY <1>1, <1>2, PcFields
    <2> HIDE DEF t
    <2>2. Sound(c, t)
      BY <1>1, <1>2, <2>1, ClientsAct DEF Sound, SyncPcs
    <2>3. ~cmd[c].touched => Seen(t)
      BY <1>1, <1>4, <2>1 DEF Seen, At
    <2>4. "remove" \in Pcs \ {"save", "mint", "stat", "mark"}
      BY DEF Pcs
    <2>5. Fits(c) /\ cmd'[c] = t
      BY <1>1, <1>4, <2>2, <2>3, <2>4, GotoFits DEF t
    <2>6. QED
      BY <2>1, <2>5
  <1>5. CASE Ended(c)
    <2>1. Fits(c) /\ cmd'[c] = Idle
      BY <1>1, <1>5, EndFits
    <2>2. QED
      BY <1>2, <2>1 DEF Apart, PidKinds, Idle
  <1>6. QED
    BY <1>2, <1>3, <1>4, <1>5 DEF Apart, PidKinds

\* setup or delete loads the file.
LEMMA LoadFits ==
    ASSUME CInv, NEW c \in Clients, Load(c)
    PROVE  Fits(c) /\ Apart(c)
  <1>1. /\ c \in Actors /\ CmdType /\ cmd[c] \in CommandType /\ Sound(c, cmd[c])
        /\ ~cmd[c].touched => Seen(cmd[c])
        /\ UNCHANGED <<file, destVars>> /\ At(c, "load")
        /\ Loaded
    BY Here, ClientsAct DEF Load, storeVars
  <1>2. cmd[c].kind \in {"setup", "delete"}
    BY <1>1 DEF At, Sound, SyncPcs, CommandType, Kinds, PidKinds
  <1>3. \/ cmd' = [cmd EXCEPT ![c].pc = "save", ![c].copy = file, ![c].stale = FALSE]
        \/ Ended(c)
    BY DEF Load
  <1>4. CASE cmd' = [cmd EXCEPT ![c].pc = "save", ![c].copy = file, ![c].stale = FALSE]
    <2> DEFINE t == [cmd[c] EXCEPT !.pc = "save", !.copy = file, !.stale = FALSE]
    <2>1. "save" \in Pcs
      BY DEF Pcs
    <2>2. file \in SUBSET Profiles
      BY HaveIds
    <2>3. /\ t \in CommandType
          /\ t.kind = cmd[c].kind /\ t.pc = "save" /\ t.p = cmd[c].p /\ t.n = cmd[c].n
          /\ t.copy = file /\ t.force = cmd[c].force /\ t.touched = cmd[c].touched
      BY <1>1, <2>1, <2>2 DEF CommandType
    <2>4. cmd' = [cmd EXCEPT ![c] = t]
      BY <1>4
    <2> HIDE DEF t
    <2>5. Sound(c, t)
      BY <1>1, <1>2, <2>3, ClientsAct DEF Sound, SyncPcs
    <2>6. ~t.touched => Seen(t)
      BY <1>1, <1>2, <2>3 DEF Seen, At
    <2>7. Fitting(t, file')
      BY <1>1, <2>3 DEF Fitting, Loaded
    <2>8. Fits(c) /\ cmd'[c] = t
      BY <1>1, <2>3, <2>4, <2>5, <2>6, <2>7, QuietFits
    <2>9. QED
      BY <1>2, <2>3, <2>8 DEF Apart, PidKinds
  <1>5. CASE Ended(c)
    <2>1. Fits(c) /\ cmd'[c] = Idle
      BY <1>1, <1>5, EndFits
    <2>2. QED
      BY <1>2, <2>1 DEF Apart, PidKinds, Idle
  <1>6. QED
    BY <1>3, <1>4, <1>5

(***************************************************************************)
(* The destinations                                                        *)
(***************************************************************************)

\* The part of DestInv that speaks of one destination.
Numbered(d) ==
    /\ marker[d].gen <= dir[d].gen
    /\ dir[d].kind # "dir" => owner[d] = NoOwner
    /\ dir[d].kind = "dir" /\ MarkerCurrent(d) => owner[d] = Owner(marker[d])

\* A step changes at most the destination d, and never to an older directory.
Changes(d) ==
    /\ DestinationType'
    /\ \A e \in Dests : e # d =>
          dir'[e] = dir[e] /\ marker'[e] = marker[e] /\ owner'[e] = owner[e]
    /\ dir[d].gen <= dir'[d].gen
    /\ Numbered(d)'

\* What is recorded of a destination is of the types that are written there.
MarkerType == {NoMarker} \cup
    [id : Ids \cup {NoId}, name : Names, root : Roots, inode : Inodes \cup {NoInode},
     gen : Nat, intact : BOOLEAN]
OwnerType == {NoOwner} \cup [id : Ids \cup {NoId}, name : Names, root : Roots]

\* A step that writes one destination, field by field.
LEMMA OneChanges ==
    ASSUME CInv, NEW d \in Dests, NEW x \in Dir, NEW m \in MarkerType, NEW o \in OwnerType,
           dir' = [dir EXCEPT ![d] = x], marker' = [marker EXCEPT ![d] = m],
           owner' = [owner EXCEPT ![d] = o],
           dir[d].gen <= x.gen, m.gen <= x.gen,
           x.kind # "dir" => o = NoOwner,
           x.kind = "dir" /\ m.intact /\ m.gen = x.gen => o = Owner(m)
    PROVE  Changes(d) /\ dir'[d] = x /\ marker'[d] = m /\ owner'[d] = o
  <1>1. DestinationType
    BY DEF CInv, TypeOK
  <1>2. DestinationType'
    BY <1>1 DEF DestinationType, MarkerType, OwnerType
  <1>3. dir'[d] = x /\ marker'[d] = m /\ owner'[d] = o
    BY <1>1 DEF DestinationType
  <1>4. Numbered(d)'
    BY <1>3 DEF Numbered, MarkerCurrent
  <1>5. \A e \in Dests : e # d =>
           dir'[e] = dir[e] /\ marker'[e] = marker[e] /\ owner'[e] = owner[e]
    BY <1>1 DEF DestinationType
  <1>6. QED
    BY <1>2, <1>3, <1>4, <1>5 DEF Changes

\* What the invariant says of one destination.
LEMMA There ==
    ASSUME CInv, NEW d \in Dests
    PROVE  /\ dir[d] \in Dir /\ marker[d] \in MarkerType /\ owner[d] \in OwnerType
           /\ dir[d].gen \in Nat /\ dir[d].inode \in Inodes \cup {NoInode}
           /\ marker[d].gen \in Nat /\ marker[d].intact \in BOOLEAN
           /\ Numbered(d)
           /\ DestinationType
  <1>1. DestinationType
    BY DEF CInv, TypeOK
  <1>2. marker[d].gen \in Nat /\ marker[d].intact \in BOOLEAN /\ dir[d] \in Dir
    BY MarkerFields
  <1>3. Numbered(d)
    BY DEF CInv, DestInv, Numbered
  <1>4. QED
    BY <1>1, <1>2, <1>3 DEF DestinationType, MarkerType, OwnerType, Dir

\* A new directory, whatever number the file system gives it.
LEMMA FreshThere ==
    ASSUME CInv, NEW d \in Dests, NEW full \in BOOLEAN, NEW x \in Fresh(d, full)
    PROVE  x \in Dir /\ x.kind = "dir" /\ x.gen = dir[d].gen + 1
  BY There DEF Fresh, Dir

\* What is there when the directory is made, if need be.
LEMMA MadeThere ==
    ASSUME CInv, NEW d \in Dests, dir[d].kind # "other", NEW x \in Made(d)
    PROVE  /\ x \in Dir /\ x.kind = "dir"
           /\ dir[d].kind = "missing" => x.gen = dir[d].gen + 1
           /\ dir[d].kind # "missing" => x = dir[d]
  <1>1. CASE dir[d].kind = "missing"
    <2>1. x \in Fresh(d, FALSE)
      BY <1>1 DEF Made
    <2>2. QED
      BY <1>1, <2>1, FreshThere
  <1>2. CASE dir[d].kind # "missing"
    BY <1>2, There DEF Made, Dir
  <1>3. QED
    BY <1>1, <1>2

\* What the history says of the directory that is there then.
LEMMA MadeOwner ==
    ASSUME CInv, NEW d \in Dests, dir[d].kind # "other", NEW y \in Made(d), NEW x \in Dir,
           x.kind = "dir", x.gen = y.gen
    PROVE  LET o == IF dir[d].kind = "missing" THEN NoOwner ELSE owner[d]
           IN  /\ o \in OwnerType /\ dir[d].gen <= x.gen /\ marker[d].gen <= x.gen
               /\ marker[d].intact /\ marker[d].gen = x.gen => o = Owner(marker[d])
  <1>1. /\ owner[d] \in OwnerType /\ dir[d].gen \in Nat /\ marker[d].gen \in Nat
        /\ Numbered(d) /\ dir[d] \in Dir
    BY There
  <1>2. /\ dir[d].kind = "missing" => x.gen = dir[d].gen + 1
        /\ dir[d].kind # "missing" => x.gen = dir[d].gen /\ dir[d].kind = "dir"
    BY <1>1, MadeThere DEF Dir
  <1>3. CASE dir[d].kind = "missing"
    BY <1>1, <1>2, <1>3 DEF Numbered, OwnerType
  <1>4. CASE dir[d].kind # "missing"
    BY <1>1, <1>2, <1>4 DEF Numbered, MarkerCurrent
  <1>5. QED
    BY <1>3, <1>4

\* prepareDestination.
LEMMA PrepareChanges ==
    ASSUME CInv, NEW d \in Dests, Prepare(d)
    PROVE  Changes(d) /\ dir'[d].kind # "missing"
  <1> DEFINE o == IF dir[d].kind = "missing" THEN NoOwner ELSE owner[d]
  <1>1. PICK x \in Made(d) : dir' = [dir EXCEPT ![d] = x]
    BY DEF Prepare
  <1>2. /\ dir[d].kind # "other"
        /\ owner' = [owner EXCEPT ![d] = o] /\ marker' = [marker EXCEPT ![d] = marker[d]]
    BY There DEF Prepare, DestinationType
  <1>3. x \in Dir /\ x.kind = "dir" /\ marker[d] \in MarkerType
    BY <1>2, MadeThere, There
  <1>4. /\ o \in OwnerType /\ dir[d].gen <= x.gen /\ marker[d].gen <= x.gen
        /\ marker[d].intact /\ marker[d].gen = x.gen => o = Owner(marker[d])
    BY <1>2, <1>3, MadeOwner
  <1> HIDE DEF o
  <1>5. Changes(d) /\ dir'[d] = x
    BY <1>1, <1>2, <1>3, <1>4, OneChanges
  <1>6. QED
    BY <1>3, <1>5

\* rsync.
LEMMA CopyChanges ==
    ASSUME CInv, NEW p \in Profiles, NEW full \in BOOLEAN, Copy(p, full)
    PROVE  /\ Changes(p.dest) /\ dir'[p.dest].gen \in Nat
           /\ dir'[p.dest].kind # "missing"
  <1> DEFINE d == p.dest
             o == IF dir[d].kind = "missing" THEN NoOwner ELSE owner[d]
  <1>1. d \in Dests
    BY DEF Profiles
  <1>2. PICK made \in Made(d) : dir' = [dir EXCEPT ![d] = [made EXCEPT !.full = @ \/ full]]
    BY DEF Copy
  <1> DEFINE x == [made EXCEPT !.full = @ \/ full]
  <1>3. /\ dir[d].kind # "other" /\ dir' = [dir EXCEPT ![d] = x]
        /\ owner' = [owner EXCEPT ![d] = o] /\ marker' = [marker EXCEPT ![d] = marker[d]]
    BY <1>1, <1>2, There DEF Copy, DestinationType
  <1>4. made \in Dir /\ made.kind = "dir" /\ marker[d] \in MarkerType
    BY <1>1, <1>3, MadeThere, There
  <1>5. x \in Dir /\ x.kind = "dir" /\ x.gen = made.gen /\ x.gen \in Nat
    BY <1>4 DEF Dir
  <1> HIDE DEF x
  <1>6. /\ o \in OwnerType /\ dir[d].gen <= x.gen /\ marker[d].gen <= x.gen
        /\ marker[d].intact /\ marker[d].gen = x.gen => o = Owner(marker[d])
    BY <1>1, <1>3, <1>5, MadeOwner
  <1> HIDE DEF o
  <1>7. Changes(d) /\ dir'[d] = x
    BY <1>1, <1>3, <1>4, <1>5, <1>6, OneChanges
  <1>8. QED
    BY <1>5, <1>7

\* writeMarkerData, for a directory that has been at the destination.
LEMMA PutMarkerChanges ==
    ASSUME CInv, NEW p \in Profiles, NEW i \in Inodes \cup {NoInode}, NEW g \in Nat,
           NEW intact \in BOOLEAN, g <= dir[p.dest].gen, PutMarker(p, i, g, intact)
    PROVE  Changes(p.dest)
  <1> DEFINE d == p.dest
             m == Marker(p, i, g, intact)
             o == IF intact /\ dir[d].kind = "dir" /\ dir[d].gen = g
                  THEN Owner(p) ELSE owner[d]
  <1>1. d \in Dests /\ p.id \in Ids \cup {NoId} /\ p.name \in Names /\ p.root \in Roots
    BY DEF Profiles
  <1>2. /\ dir' = [dir EXCEPT ![d] = dir[d]] /\ marker' = [marker EXCEPT ![d] = m]
        /\ owner' = [owner EXCEPT ![d] = o]
    BY <1>1, There DEF PutMarker, DestinationType
  <1>3. /\ dir[d] \in Dir /\ dir[d].gen \in Nat /\ owner[d] \in OwnerType
        /\ Numbered(d)
    BY <1>1, There
  <1>4. m \in MarkerType /\ m.gen = g /\ m.intact = intact /\ Owner(m) = Owner(p)
    BY <1>1 DEF Marker, MarkerType, Owner
  <1>5. o \in OwnerType
    BY <1>1, <1>3 DEF OwnerType, Owner
  <1>6. dir[d].kind # "dir" => o = NoOwner
    BY <1>3 DEF Numbered
  <1>7. dir[d].kind = "dir" /\ m.intact /\ m.gen = dir[d].gen => o = Owner(m)
    BY <1>4
  <1> HIDE DEF m, o
  <1>8. dir[d].gen <= dir[d].gen /\ m.gen <= dir[d].gen
    BY <1>3, <1>4
  <1>9. QED
    BY <1>1, <1>2, <1>3, <1>4, <1>5, <1>6, <1>7, <1>8, OneChanges

\* The removal.
LEMMA RemoveAllChanges ==
    ASSUME CInv, NEW d \in Dests, NEW cutOff \in BOOLEAN, RemoveAll(d, cutOff)
    PROVE  Changes(d)
  <1> DEFINE x == [dir[d] EXCEPT !.kind = "missing", !.inode = NoInode, !.full = FALSE]
             m == IF cutOff THEN marker[d] ELSE NoMarker
  <1>1. dir[d] \in Dir /\ marker[d] \in MarkerType /\ Numbered(d) /\ dir[d].gen \in Nat
    BY There
  <1>2. /\ dir' = [dir EXCEPT ![d] = x] /\ marker' = [marker EXCEPT ![d] = m]
        /\ owner' = [owner EXCEPT ![d] = NoOwner]
    BY There DEF RemoveAll, DestinationType, Dir
  <1>3. x \in Dir /\ x.kind = "missing" /\ x.gen = dir[d].gen
    BY <1>1 DEF Dir
  <1>4. m \in MarkerType /\ m.gen <= dir[d].gen
    <2>1. NoMarker.gen = 0
      BY DEF NoMarker
    <2>2. QED
      BY <1>1, <2>1 DEF MarkerType, Numbered
  <1>5. NoOwner \in OwnerType
    BY DEF OwnerType
  <1> HIDE DEF x, m
  <1>6. dir[d].gen <= x.gen
    BY <1>1, <1>3
  <1>7. QED
    BY <1>2, <1>3, <1>4, <1>5, <1>6, OneChanges

\* Somebody puts another directory there.
LEMMA ReplaceChanges ==
    ASSUME CInv, NEW d \in Dests, Replace(d)
    PROVE  Changes(d) /\ dir'[d].kind = "dir"
  <1>1. PICK x \in Fresh(d, TRUE) : dir' = [dir EXCEPT ![d] = x]
    BY DEF Replace
  <1>2. /\ dir[d] \in Dir /\ marker[d] \in MarkerType /\ Numbered(d)
        /\ dir[d].gen \in Nat /\ marker[d].gen \in Nat
    BY There
  <1>3. marker' = [marker EXCEPT ![d] = marker[d]] /\ owner' = [owner EXCEPT ![d] = NoOwner]
    BY There DEF Replace, DestinationType
  <1>4. x \in Dir /\ x.kind = "dir" /\ x.gen = dir[d].gen + 1
    BY FreshThere
  <1>5. NoOwner \in OwnerType
    BY DEF OwnerType
  <1>6. dir[d].gen <= x.gen /\ marker[d].gen <= x.gen /\ marker[d].gen # x.gen
    BY <1>2, <1>4 DEF Numbered
  <1>7. Changes(d) /\ dir'[d] = x
    BY <1>1, <1>2, <1>3, <1>4, <1>5, <1>6, OneChanges
  <1>8. QED
    BY <1>4, <1>7

(***************************************************************************)
(* The steps that change destinations                                      *)
(***************************************************************************)

\* A step of a leaves the destinations alone, or changes its own and lets
\* those know who have looked at it.
Shares(a) ==
    \/ UNCHANGED destVars
    \/ /\ cmd[a].p.dest \in Dests
       /\ Changes(cmd[a].p.dest)
       /\ \A b \in Actors :
             /\ b # a /\ cmd[b].p.dest = cmd[a].p.dest
             /\ Looked(cmd[b])
             => cmd'[b].touched

\* A directory that is there is not made again.
LEMMA PreparedStays ==
    ASSUME CInv, NEW d \in Dests, Prepare(d), dir'[d] = dir[d]
    PROVE  UNCHANGED destVars
  <1>1. PICK x \in Made(d) : dir' = [dir EXCEPT ![d] = x]
    BY DEF Prepare
  <1>2. /\ dir[d].kind # "other" /\ marker' = marker
        /\ owner' = [owner EXCEPT ![d] = IF dir[d].kind = "missing" THEN NoOwner ELSE owner[d]]
    BY DEF Prepare
  <1>3. dir \in [Dests -> Dir] /\ owner \in [Dests -> OwnerType]
    BY There DEF DestinationType, OwnerType
  <1>4. dir'[d] = x /\ x.kind = "dir"
    BY <1>1, <1>2, <1>3, MadeThere
  <1>5. dir[d].kind # "missing"
    BY <1>4
  <1>6. x = dir[d]
    BY <1>2, <1>5, MadeThere
  <1>7. QED
    BY <1>1, <1>2, <1>3, <1>5, <1>6 DEF destVars

\* Whose syncs there are.
LEMMA Syncing ==
    ASSUME CInv, NEW a \in Actors, cmd[a].pc \in SyncPcs
    PROVE  /\ CmdType /\ cmd[a] \in CommandType /\ Sound(a, cmd[a])
           /\ cmd[a].kind \in {"sync", "watch", "use"} /\ cmd[a].kind \notin PidKinds
           /\ cmd[a].p \in Profiles /\ cmd[a].p.dest \in Dests /\ cmd[a].p.id # NoId
           /\ cmd[a].pc \in {"stat", "mark"} => cmd[a].gen <= dir[cmd[a].p.dest].gen
  <1>1. CmdType /\ cmd[a] \in CommandType /\ Sound(a, cmd[a])
    BY Here
  <1>2. cmd[a].kind \in {"sync", "watch", "use"}
    BY <1>1 DEF Sound, SyncPcs, CommandType, Kinds, PidKinds
  <1>3. cmd[a].kind \notin PidKinds
    BY <1>2 DEF PidKinds
  <1>4. cmd[a].p \in Profiles /\ cmd[a].p.id # NoId
    BY <1>1, <1>2 DEF Sound
  <1>5. cmd[a].p.dest \in Dests
    BY <1>4 DEF Profiles
  <1>6. cmd[a].pc \in {"stat", "mark"} => cmd[a].gen <= dir[cmd[a].p.dest].gen
    BY DEF CInv, DestInv
  <1>7. QED
    BY <1>1, <1>2, <1>3, <1>4, <1>5, <1>6

\* A sync goes on to another of its places.
LEMMA SyncSound ==
    ASSUME NEW a \in Actors, NEW t \in CommandType, Sound(a, t), t.kind \in {"sync", "watch", "use"},
           NEW pc \in SyncPcs, NEW u \in CommandType, u.kind = t.kind, u.pc = pc, u.p = t.p
    PROVE  Sound(a, u) /\ Unlooking(u)
  BY DEF Sound, SyncPcs, Unlooking

\* The sync prepares the destination.
LEMMA SyncPrepareFits ==
    ASSUME CInv, NEW a \in Actors, SyncPrepare(a)
    PROVE  Fits(a) /\ Apart(a) /\ Shares(a)
  <1> DEFINE d == cmd[a].p.dest
             t == [cmd[a] EXCEPT !.pc = "rsync"]
  <1>1. cmd[a].pc \in SyncPcs
    BY DEF SyncPrepare, At, SyncPcs
  <1>2. /\ CmdType /\ cmd[a] \in CommandType /\ Sound(a, cmd[a])
        /\ cmd[a].kind \in {"sync", "watch", "use"} /\ cmd[a].kind \notin PidKinds
        /\ d \in Dests
    BY <1>1, Syncing
  <1>3. t.kind = cmd[a].kind /\ t.pc = "rsync" /\ t.p = cmd[a].p
    BY <1>2, PcFields
  <1>4. t \in CommandType
    BY <1>2 DEF CommandType, Pcs
  <1>5. Prepare(d)
    BY DEF SyncPrepare
  <1>6. (cmd' = [cmd EXCEPT ![a] = t] /\ dir'[d] = dir[d]) \/ Touch(a, t)
    BY DEF SyncPrepare, Goto
  <1> HIDE DEF t
  <1>7. Sound(a, t) /\ Unlooking(t)
    BY <1>2, <1>3, <1>4, SyncSound DEF SyncPcs
  <1>8. Turn(a) /\ cmd'[a] = t
    BY <1>2, <1>4, <1>6, <1>7, OneTurn, TouchTurn
  <1>9. Fits(a)
    BY <1>2, <1>3, <1>7, <1>8, UnlookingFits
  <1>10. Shares(a)
    <2>1. CASE dir'[d] = dir[d]
      BY <1>2, <1>5, <2>1, PreparedStays DEF Shares
    <2>2. CASE Touch(a, t)
      BY <1>2, <1>4, <1>5, <1>7, <2>2, PrepareChanges, TouchTurn DEF Shares
    <2>3. QED
      BY <1>6, <2>1, <2>2
  <1>11. QED
    BY <1>2, <1>3, <1>8, <1>9, <1>10 DEF Apart

\* rsync, whole or cut off.
LEMMA SyncCopyFits ==
    ASSUME CInv, NEW a \in Actors, SyncCopy(a)
    PROVE  Fits(a) /\ Apart(a) /\ Shares(a)
  <1> DEFINE d == cmd[a].p.dest
             t == [cmd[a] EXCEPT !.pc = "stat", !.gen = dir'[d].gen]
  <1>1. cmd[a].pc \in SyncPcs
    BY DEF SyncCopy, At, SyncPcs
  <1>2. /\ CmdType /\ cmd[a] \in CommandType /\ Sound(a, cmd[a])
        /\ cmd[a].kind \in {"sync", "watch", "use"} /\ cmd[a].kind \notin PidKinds
        /\ cmd[a].p \in Profiles /\ d \in Dests
    BY <1>1, Syncing
  <1>3. \E full \in BOOLEAN : Copy(cmd[a].p, full)
    BY DEF SyncCopy
  <1>4. Changes(d) /\ dir'[d].gen \in Nat
    BY <1>2, <1>3, CopyChanges
  <1>5. Touch(a, t) \/ Touch(a, Idle)
    BY DEF SyncCopy
  <1>6. CASE Touch(a, t)
    <2>1. /\ t \in CommandType
          /\ t.kind = cmd[a].kind /\ t.pc = "stat" /\ t.p = cmd[a].p
          /\ t.gen = dir'[d].gen
      BY <1>2, <1>4 DEF CommandType, Pcs
    <2> HIDE DEF t
    <2>2. Sound(a, t) /\ Unlooking(t)
      BY <1>2, <2>1, SyncSound DEF SyncPcs
    <2>3. Turn(a) /\ cmd'[a] = t /\ Shares(a)
      BY <1>2, <1>4, <1>6, <2>1, <2>2, TouchTurn DEF Shares
    <2>4. t.gen <= dir'[t.p.dest].gen
      BY <1>4, <2>1
    <2>5. Fits(a)
      BY <1>2, <2>1, <2>2, <2>3, <2>4, UnlookingFits
    <2>6. QED
      BY <1>2, <2>1, <2>3, <2>5 DEF Apart
  <1>7. CASE Touch(a, Idle)
    <2>1. Turn(a) /\ cmd'[a] = Idle /\ Shares(a)
      BY <1>2, <1>4, <1>7, IdleIsSound, TouchTurn DEF Shares
    <2>2. Unlooking(Idle) /\ Idle.pc = "idle" /\ Idle.kind = "none"
      BY DEF Unlooking, Idle
    <2>3. Fits(a)
      BY <1>2, <2>1, <2>2, UnlookingFits
    <2>4. QED
      BY <1>2, <2>1, <2>2, <2>3 DEF Apart, PidKinds
  <1>8. QED
    BY <1>5, <1>6, <1>7

\* The identity of the directory is taken.
LEMMA SyncStatFits ==
    ASSUME CInv, NEW a \in Actors, SyncStat(a)
    PROVE  Fits(a) /\ Apart(a) /\ Shares(a)
  <1> DEFINE now == dir[cmd[a].p.dest]
             intact == now.gen = cmd[a].gen
             t == [cmd[a] EXCEPT !.pc = "mark", !.inode = now.inode, !.gen = now.gen,
                                 !.intact = intact]
  <1>1. cmd[a].pc \in SyncPcs
    BY DEF SyncStat, At, SyncPcs
  <1>2. /\ CmdType /\ cmd[a] \in CommandType /\ Sound(a, cmd[a])
        /\ cmd[a].kind \in {"sync", "watch", "use"} /\ cmd[a].kind \notin PidKinds
        /\ cmd[a].p \in Profiles /\ cmd[a].p.dest \in Dests
    BY <1>1, Syncing
  <1>3. UNCHANGED destVars /\ Shares(a)
    BY DEF SyncStat, Shares
  <1>4. now.inode \in Inodes \cup {NoInode} /\ now.gen \in Nat /\ intact \in BOOLEAN
    BY <1>2, There
  <1>5. \/ cmd' = [cmd EXCEPT ![a].pc = "mark", ![a].inode = now.inode, ![a].gen = now.gen,
                             ![a].intact = intact]
        \/ Ended(a)
    BY DEF SyncStat
  <1> HIDE DEF intact
  <1>6. CASE cmd' = [cmd EXCEPT ![a].pc = "mark", ![a].inode = now.inode,
                                ![a].gen = now.gen, ![a].intact = intact]
    <2>1. /\ t \in CommandType
          /\ t.kind = cmd[a].kind /\ t.pc = "mark" /\ t.p = cmd[a].p
          /\ t.gen = now.gen
      BY <1>2, <1>4 DEF CommandType, Pcs
    <2>2. cmd' = [cmd EXCEPT ![a] = t]
      BY <1>6
    <2> HIDE DEF t
    <2>3. Sound(a, t) /\ Unlooking(t)
      BY <1>2, <2>1, SyncSound DEF SyncPcs
    <2>4. Turn(a) /\ cmd'[a] = t
      BY <1>2, <2>1, <2>2, <2>3, OneTurn
    <2>5. t.gen <= dir'[t.p.dest].gen
      BY <1>3, <1>4, <2>1 DEF destVars
    <2>6. Fits(a)
      BY <1>2, <2>1, <2>3, <2>4, <2>5, UnlookingFits
    <2>7. QED
      BY <1>2, <1>3, <2>1, <2>4, <2>6 DEF Apart
  <1>7. CASE Ended(a)
    <2>1. Fits(a) /\ cmd'[a] = Idle
      BY <1>2, <1>3, <1>7, EndFits
    <2>2. QED
      BY <1>2, <1>3, <2>1 DEF Apart, PidKinds, Idle
  <1>8. QED
    BY <1>5, <1>6, <1>7

\* The marker is written.
LEMMA SyncMarkFits ==
    ASSUME CInv, NEW a \in Actors, SyncMark(a)
    PROVE  Fits(a) /\ Apart(a) /\ Shares(a)
  <1> DEFINE d == cmd[a].p.dest
             t == [cmd[a] EXCEPT !.pc = "readyLook", !.inode = NoInode, !.gen = 0,
                                 !.intact = FALSE]
  <1>1. cmd[a].pc \in SyncPcs /\ cmd[a].pc = "mark"
    BY DEF SyncMark, At, SyncPcs
  <1>2. /\ CmdType /\ cmd[a] \in CommandType /\ Sound(a, cmd[a])
        /\ cmd[a].kind \in {"sync", "watch", "use"} /\ cmd[a].kind \notin PidKinds
        /\ cmd[a].p \in Profiles /\ d \in Dests /\ cmd[a].p.id # NoId
        /\ cmd[a].gen <= dir[d].gen
    BY <1>1, Syncing
  <1>3. /\ cmd[a].inode \in Inodes \cup {NoInode} /\ cmd[a].gen \in Nat
        /\ cmd[a].intact \in BOOLEAN
    BY <1>2 DEF CommandType
  <1>4. Changes(d)
    BY <1>2, <1>3, PutMarkerChanges DEF SyncMark
  <1>5. (cmd[a].kind = "use" /\ Touch(a, t)) \/ Touch(a, Idle)
    BY DEF SyncMark
  <1>6. CASE cmd[a].kind = "use" /\ Touch(a, t)
    <2>1. t \in CommandType /\ t.kind = "use" /\ t.pc = "readyLook" /\ t.p = cmd[a].p
      BY <1>2, <1>6 DEF CommandType, Pcs
    <2> HIDE DEF t
    <2>2. Sound(a, t) /\ Unlooking(t)
      BY <1>2, <1>6, <2>1 DEF Sound, Unlooking
    <2>3. Turn(a) /\ cmd'[a] = t /\ Shares(a)
      BY <1>2, <1>4, <1>6, <2>1, <2>2, TouchTurn DEF Shares
    <2>4. Fits(a)
      BY <1>2, <2>1, <2>2, <2>3, UnlookingFits
    <2>5. QED
      BY <1>2, <2>1, <2>3, <2>4 DEF Apart, PidKinds
  <1>7. CASE Touch(a, Idle)
    <2>1. Turn(a) /\ cmd'[a] = Idle /\ Shares(a)
      BY <1>2, <1>4, <1>7, IdleIsSound, TouchTurn DEF Shares
    <2>2. Unlooking(Idle) /\ Idle.pc = "idle" /\ Idle.kind = "none"
      BY DEF Unlooking, Idle
    <2>3. Fits(a)
      BY <1>2, <2>1, <2>2, UnlookingFits
    <2>4. QED
      BY <1>2, <2>1, <2>2, <2>3 DEF Apart, PidKinds
  <1>8. QED
    BY <1>5, <1>6, <1>7

\* Any step of a sync.
LEMMA SyncStepFits ==
    ASSUME CInv, NEW a \in Actors, SyncStep(a)
    PROVE  Fits(a) /\ Apart(a) /\ Shares(a)
  BY SyncPrepareFits, SyncCopyFits, SyncStatFits, SyncMarkFits DEF SyncStep

\* delete removes the destination, or is cut off while it does.
LEMMA DeleteRemoveFits ==
    ASSUME CInv, NEW c \in Clients, DeleteRemove(c)
    PROVE  Fits(c) /\ Apart(c) /\ Shares(c)
  <1> DEFINE d == cmd[c].p.dest
             t == About("delete", "load", cmd[c].p)
  <1>1. c \in Actors /\ CmdType /\ cmd[c] \in CommandType /\ Sound(c, cmd[c])
    BY Here, ClientsAct
  <1>2. cmd[c].kind = "delete" /\ cmd[c].p \in Profiles /\ d \in Dests
    BY <1>1 DEF DeleteRemove, At, Sound, SyncPcs, CommandType, Kinds, PidKinds, Profiles
  <1>3. \E cutOff \in BOOLEAN : RemoveAll(d, cutOff)
    BY DEF DeleteRemove
  <1>4. Changes(d)
    BY <1>2, <1>3, RemoveAllChanges
  <1>5. \E new \in {Idle, t} : Touch(c, new)
    BY DEF DeleteRemove
  <1>6. t \in CommandType /\ t.kind = "delete" /\ t.pc = "load" /\ t.p = cmd[c].p
    BY <1>2, AboutFields DEF New, Kinds, Pcs
  <1>6a. cmd[c].p.id # NoId
    BY <1>1, <1>2 DEF Sound
  <1> HIDE DEF t
  <1>7. Sound(c, t) /\ Unlooking(t)
    BY <1>1, <1>2, <1>6, <1>6a, ClientsAct DEF Sound, Unlooking, SyncPcs
  <1>8. /\ Idle \in CommandType /\ Sound(c, Idle)
        /\ Unlooking(Idle) /\ Idle.pc = "idle" /\ Idle.kind = "none"
    BY <1>1, IdleIsSound DEF Unlooking, Idle
  <1>9. PICK new \in {Idle, t} : Touch(c, new)
    BY <1>5
  <1>10. /\ new \in CommandType /\ Sound(c, new) /\ Unlooking(new)
         /\ new.pc \in {"idle", "load"} /\ new.kind \notin PidKinds
    BY <1>6, <1>7, <1>8 DEF PidKinds
  <1>11. Turn(c) /\ cmd'[c] = new /\ Shares(c)
    BY <1>1, <1>2, <1>4, <1>9, <1>10, TouchTurn DEF Shares
  <1>12. Fits(c)
    BY <1>1, <1>10, <1>11, UnlookingFits
  <1>13. QED
    BY <1>2, <1>10, <1>11, <1>12 DEF Apart, PidKinds

\* doctor --fix makes the destination.
LEMMA FixEnsureFits ==
    ASSUME CInv, NEW c \in Clients, FixEnsure(c)
    PROVE  Fits(c) /\ Shares(c) /\ cmd'[c] = Idle
  <1> DEFINE d == cmd[c].p.dest
  <1>1. c \in Actors /\ CmdType /\ cmd[c] \in CommandType /\ Sound(c, cmd[c])
    BY Here, ClientsAct
  <1>2. d \in Dests
    BY <1>1 DEF FixEnsure, At, Sound, SyncPcs, CommandType, Kinds, PidKinds, Profiles
  <1>3. Prepare(d)
    BY DEF FixEnsure
  <1>4. (dir' = dir /\ Ended(c)) \/ Touch(c, Idle)
    BY DEF FixEnsure
  <1>5. CASE dir' = dir /\ Ended(c)
    BY <1>1, <1>2, <1>3, <1>5, PreparedStays, EndFits DEF Shares
  <1>6. CASE Touch(c, Idle)
    <2>1. Turn(c) /\ cmd'[c] = Idle /\ Shares(c)
      BY <1>1, <1>2, <1>3, <1>6, PrepareChanges, IdleIsSound, TouchTurn DEF Shares
    <2>2. Unlooking(Idle) /\ Idle.pc = "idle"
      BY DEF Unlooking, Idle
    <2>3. QED
      BY <1>1, <2>1, <2>2, UnlookingFits
  <1>7. QED
    BY <1>4, <1>5, <1>6

(***************************************************************************)
(* shell, exec and services                                                *)
(***************************************************************************)

\* Whose places these are.
LEMMA Using ==
    ASSUME CInv, NEW c \in Clients,
           cmd[c].pc \in {"readyLook", "autoLook", "readyRead", "autoRead", "use"}
    PROVE  /\ c \in Actors /\ c \notin Launches
           /\ CmdType /\ cmd[c] \in CommandType /\ Sound(c, cmd[c])
           /\ cmd[c].kind = "use" /\ cmd[c].kind \notin PidKinds
  <1>1. c \in Actors /\ c \notin Launches /\ CmdType /\ cmd[c] \in CommandType /\ Sound(c, cmd[c])
    BY Here, ClientsAct
  <1>2. cmd[c].kind = "use"
    BY <1>1 DEF Sound, SyncPcs, CommandType, Kinds, PidKinds
  <1>3. QED
    BY <1>1, <1>2 DEF PidKinds

\* What a step of theirs comes to.
LEMMA UseFits ==
    ASSUME CInv, NEW c \in Clients,
           cmd[c].pc \in {"readyLook", "autoLook", "readyRead", "autoRead", "use"},
           UNCHANGED destVars,
           \/ \E pc \in {"readyRead", "autoRead"} : Looks(c, pc)
           \/ \E pc \in {"prepare", "readyLook"} : Goto(c, pc)
           \/ Goto(c, "use") /\ MarkerMatches(marker[cmd[c].p.dest], cmd[c].p)
           \/ Ended(c)
    PROVE  Fits(c) /\ Apart(c)
  <1>1. /\ c \in Actors /\ c \notin Launches
        /\ CmdType /\ cmd[c] \in CommandType /\ Sound(c, cmd[c])
        /\ cmd[c].kind = "use" /\ cmd[c].kind \notin PidKinds
    BY Using
  <1>2. ASSUME NEW pc \in {"readyRead", "autoRead"}, Looks(c, pc)
        PROVE  Fits(c) /\ Apart(c)
    <2> DEFINE t == [cmd[c] EXCEPT !.pc = pc, !.touched = FALSE]
    <2>1. t.kind = "use" /\ t.pc = pc /\ t.p = cmd[c].p
      BY <1>1, LooksFields
    <2> HIDE DEF t
    <2>2. Sound(c, t) /\ Seen(t)
      BY <1>1, <2>1 DEF Sound, Seen
    <2>3. pc \in Pcs \ {"save", "mint", "stat", "mark"}
      BY DEF Pcs
    <2>4. Fits(c) /\ cmd'[c] = t
      BY <1>1, <1>2, <2>2, <2>3, LooksFits DEF t
    <2>5. QED
      BY <1>1, <2>1, <2>4 DEF Apart
  <1>3. ASSUME NEW pc \in {"prepare", "readyLook", "use"}, Goto(c, pc),
               pc = "use" => MarkerMatches(marker[cmd[c].p.dest], cmd[c].p)
        PROVE  Fits(c) /\ Apart(c)
    <2> DEFINE t == [cmd[c] EXCEPT !.pc = pc]
    <2>1. t.kind = "use" /\ t.pc = pc /\ t.p = cmd[c].p
      BY <1>1, PcFields
    <2> HIDE DEF t
    <2>2. Sound(c, t)
      BY <1>1, <2>1 DEF Sound, SyncPcs
    <2>3. Seen(t)
      BY <1>3, <2>1 DEF Seen
    <2>4. pc \in Pcs \ {"save", "mint", "stat", "mark"}
      BY DEF Pcs
    <2>5. Fits(c) /\ cmd'[c] = t
      BY <1>1, <1>3, <2>2, <2>3, <2>4, GotoFits DEF t
    <2>6. QED
      BY <1>1, <2>1, <2>5 DEF Apart
  <1>4. CASE Ended(c)
    <2>1. Fits(c) /\ cmd'[c] = Idle
      BY <1>1, <1>4, EndFits
    <2>2. QED
      BY <1>1, <2>1 DEF Apart, PidKinds, Idle
  <1>5. QED
    BY <1>2, <1>3, <1>4

\* Any of their steps.
LEMMA UseStepFits ==
    ASSUME CInv, NEW c \in Clients, UseStep(c)
    PROVE  Fits(c) /\ Apart(c) /\ UNCHANGED destVars
  <1>1. CASE ReadyLook(c)
    BY <1>1, UseFits DEF ReadyLook, At
  <1>2. CASE AutoLook(c)
    <2>1. \/ Goto(c, "prepare") \/ Looks(c, "autoRead") \/ Looks(c, "readyRead")
          \/ Ended(c)
      BY <1>2 DEF AutoLook
    <2>2. QED
      BY <1>2, <2>1, UseFits DEF AutoLook, At
  <1>3. CASE UseRead(c)
    <2>1. \/ Goto(c, "use") /\ MarkerMatches(marker[cmd[c].p.dest], cmd[c].p)
          \/ Goto(c, "readyLook")
          \/ Ended(c)
      BY <1>3 DEF UseRead
    <2>2. QED
      BY <1>3, <2>1, UseFits DEF UseRead
  <1>4. CASE Use(c)
    BY <1>4, UseFits DEF Use, At
  <1>5. QED
    BY <1>1, <1>2, <1>3, <1>4 DEF UseStep

(***************************************************************************)
(* The commands about the pid file                                         *)
(***************************************************************************)

\* Whose places these are; a command there has looked at no destination yet.
PidPcs == {"list", "launch", "writePid", "check", "kill", "wait", "unlink", "fixPid",
           "fixLook", "fixRead", "ensure"}

LEMMA PidPlaces ==
    ASSUME CInv, NEW c \in Clients, cmd[c].pc \in PidPcs
    PROVE  /\ c \in Actors /\ c \notin Launches
           /\ CmdType /\ cmd[c] \in CommandType /\ Sound(c, cmd[c])
           /\ cmd[c].kind \in PidKinds
  <1>1. c \in Actors /\ c \notin Launches /\ CmdType /\ cmd[c] \in CommandType /\ Sound(c, cmd[c])
    BY Here, ClientsAct
  <1>2. cmd[c].kind \in PidKinds
    BY <1>1 DEF Sound, SyncPcs, CommandType, Kinds, PidKinds, PidPcs
  <1>3. QED
    BY <1>1, <1>2

\* A step that goes on to another of them.
LEMMA PidGotoFits ==
    ASSUME CInv, NEW c \in Clients, cmd[c].pc \in PidPcs, NEW pc \in PidPcs, Goto(c, pc),
           UNCHANGED destVars,
           \/ cmd[c].kind = "start" /\ pc \in {"launch", "check"}
           \/ cmd[c].kind = "stop" /\ pc \in {"wait", "unlink"}
           \/ cmd[c].kind = "fix" /\ pc \in {"unlink", "fixLook", "fixRead", "ensure"},
           pc \in {"check", "wait"} => cmd[c].n \in Launches
    PROVE  /\ Fits(c) /\ cmd'[c].kind = cmd[c].kind /\ cmd'[c].pc = pc
           /\ cmd'[c].n = cmd[c].n
  <1>1. /\ c \in Actors /\ c \notin Launches
        /\ CmdType /\ cmd[c] \in CommandType /\ Sound(c, cmd[c])
    BY PidPlaces
  <1> DEFINE t == [cmd[c] EXCEPT !.pc = pc]
  <1>2. t.kind = cmd[c].kind /\ t.pc = pc /\ t.p = cmd[c].p /\ t.n = cmd[c].n
    BY <1>1, PcFields
  <1> HIDE DEF t
  <1>3. Sound(c, t)
    BY <1>1, <1>2 DEF Sound, PidPcs
  <1>4. Seen(t)
    BY <1>2 DEF Seen, PidPcs
  <1>5. pc \in Pcs \ {"save", "mint", "stat", "mark"}
    BY DEF Pcs, PidPcs
  <1>6. Fits(c) /\ cmd'[c] = t
    BY <1>1, <1>3, <1>4, <1>5, GotoFits DEF t
  <1>7. QED
    BY <1>2, <1>6

\* The mirror processes that run, and what the pid file says, of one step
\* that changes neither.
LEMMA LiveSame ==
    ASSUME UNCHANGED process PROVE Live' = Live /\ \A n : PidRunning(n)' = PidRunning(n)
  BY DEF Live, PidRunning

\* Every process that runs has a number that is in use.
LEMMA LiveRuns ==
    /\ \A n \in Live : n \in Launches /\ n # NoPid /\ PidRunning(n)
    /\ Live \subseteq {NoPid} => Live = {}
  BY BoundsAssumption DEF Live, PidRunning, Launches, NoPid

\* A step that has nothing to do with the pid file, and after which no more
\* processes run than before.
LEMMA PidApart ==
    ASSUME CInv, NEW a \in Actors, Turn(a), a \in Clients => Apart(a),
           Live' \subseteq Live, pidFile' = pidFile, raced' = raced
    PROVE  PidInv'
  <1>1. PidInv
    BY DEF CInv
  <1>2. \A b \in Clients :
           /\ (cmd'[b].kind \in PidKinds) <=> (cmd[b].kind \in PidKinds)
           /\ cmd[b].kind \in PidKinds => cmd'[b].pc = cmd[b].pc /\ cmd'[b].n = cmd[b].n
    BY ClientsAct DEF Turn, Alike, Apart
  <1>3. ASSUME NEW b \in Clients, cmd[b].kind \in PidKinds, KnowsPid(b)
        PROVE  KnowsPid(b)'
    BY <1>2, <1>3 DEF KnowsPid, At
  <1> HIDE DEF PidKinds, Live
  <1>4. QED
    BY <1>1, <1>2, <1>3 DEF PidInv

\* The only command about the pid file, when none have overlapped.
LEMMA PidAlone ==
    ASSUME CInv, NEW c \in Clients, Turn(c), cmd[c].kind \in PidKinds, ~raced
    PROVE  /\ KnowsPid(c)
           /\ \A b \in Clients : b # c => cmd'[b].kind \notin PidKinds
  BY ClientsAct DEF CInv, PidInv, Turn, Alike

\* What it has to know after its step.
LEMMA PidAfter ==
    ASSUME NEW c \in Clients,
           ~raced' => /\ \A b \in Clients : b # c => cmd'[b].kind \notin PidKinds
                      /\ cmd'[c].kind \in PidKinds => KnowsPid(c)'
                      /\ cmd'[c].kind \notin PidKinds => Live' \subseteq {pidFile'}
    PROVE  PidInv'
  BY DEF PidInv

\* A command about the pid file begins, and finds no other.
LEMMA PidBegins ==
    ASSUME CInv, NEW c \in Clients, Turn(c), cmd[c].kind = "none", Overlap(c), ~raced'
    PROVE  /\ \A b \in Clients : b # c => cmd'[b].kind \notin PidKinds
           /\ Live \subseteq {pidFile}
  <1>1. ~raced /\ \A b \in Clients \ {c} : cmd[b].kind \notin PidKinds
    BY DEF Overlap
  <1>2. \A b \in Clients : cmd[b].kind \notin PidKinds
    BY <1>1 DEF PidKinds
  <1>3. Live \subseteq {pidFile}
    BY <1>1, <1>2 DEF CInv, PidInv
  <1>4. QED
    BY <1>1, <1>3, ClientsAct DEF Turn, Alike

\* doctor --fix begins.
LEMMA FixBeginPid ==
    ASSUME CInv, NEW c \in Clients, FixBegin(c) PROVE Fits(c) /\ PidInv'
  <1>1. /\ Fits(c) /\ Turn(c) /\ cmd[c].kind = "none"
        /\ cmd'[c].kind = "fix" /\ cmd'[c].pc = "fixPid"
    BY FixBeginFits DEF Fits
  <1>2. Overlap(c) /\ UNCHANGED <<process, pidFile>>
    BY DEF FixBegin
  <1>3. ASSUME ~raced'
        PROVE  /\ \A b \in Clients : b # c => cmd'[b].kind \notin PidKinds
               /\ KnowsPid(c)'
    BY <1>1, <1>2, <1>3, PidBegins, LiveSame DEF KnowsPid, At
  <1>4. QED
    BY <1>1, <1>3, PidAfter DEF PidKinds

\* start begins.
LEMMA StartBeginPid ==
    ASSUME CInv, NEW c \in Clients, StartBegin(c) PROVE Fits(c) /\ PidInv'
  <1>1. Overlap(c) /\ UNCHANGED <<process, pidFile, destVars>>
    BY DEF StartBegin
  <1>2. c \in Actors /\ c \notin Launches
    BY ClientsAct
  <1>3. (ReadRunningPid /\ Begin(c, Idle))
        \/ (~ReadRunningPid /\ Begin(c, About("start", "list", NoProfile)))
    BY DEF StartBegin
  <1>4. CASE ReadRunningPid /\ Begin(c, Idle)
    <2>1. /\ Idle \in CommandType /\ Sound(c, Idle) /\ Unlooking(Idle)
          /\ Idle.pc = "idle" /\ Idle.kind = "none"
      BY <1>2, IdleIsSound DEF Unlooking, Idle
    <2>2. Fits(c) /\ cmd'[c] = Idle /\ cmd[c].kind = "none"
      BY <1>1, <1>2, <1>4, <2>1, BeginFits
    <2>3. ~raced' => /\ \A b \in Clients : b # c => cmd'[b].kind \notin PidKinds
                     /\ Live' \subseteq {pidFile'}
      BY <1>1, <2>2, PidBegins, LiveSame DEF Fits
    <2>4. cmd'[c].kind \notin PidKinds
      BY <2>1, <2>2 DEF PidKinds
    <2>5. QED
      BY <2>2, <2>3, <2>4, PidAfter
  <1>5. CASE ~ReadRunningPid /\ Begin(c, About("start", "list", NoProfile))
    <2> DEFINE t == About("start", "list", NoProfile)
    <2>1. "start" \in Kinds /\ "list" \in Pcs
      BY DEF Kinds, Pcs, PidKinds
    <2>2. New(t, "start", "list", NoProfile)
      BY <2>1, AboutFields
    <2> HIDE DEF t
    <2>3. Sound(c, t) /\ Unlooking(t)
      BY <1>2, <2>2 DEF New, Sound, Unlooking
    <2>4. Fits(c) /\ cmd'[c] = t /\ cmd[c].kind = "none"
      BY <1>1, <1>2, <1>5, <2>2, <2>3, BeginFits DEF New, t
    <2>5. cmd'[c].kind = "start" /\ cmd'[c].pc = "list"
      BY <2>2, <2>4 DEF New
    <2>6. ASSUME ~raced'
          PROVE  /\ \A b \in Clients : b # c => cmd'[b].kind \notin PidKinds
                 /\ KnowsPid(c)'
      <3>1. /\ \A b \in Clients : b # c => cmd'[b].kind \notin PidKinds
            /\ Live \subseteq {pidFile}
        BY <1>1, <2>4, <2>6, PidBegins DEF Fits
      <3>2. Live = {}
        BY <1>5, <3>1, LiveRuns DEF ReadRunningPid
      <3>3. Live' = {}
        BY <1>1, <3>2, LiveSame
      <3>4. QED
        BY <2>5, <3>1, <3>3 DEF KnowsPid, At
    <2>7. QED
      BY <2>4, <2>5, <2>6, PidAfter DEF PidKinds
  <1>6. QED
    BY <1>3, <1>4, <1>5

\* stop begins.
LEMMA StopBeginPid ==
    ASSUME CInv, NEW c \in Clients, StopBegin(c) PROVE Fits(c) /\ PidInv'
  <1> DEFINE pc == IF ReadRunningPid THEN "kill" ELSE "unlink"
             t == [About("stop", pc, NoProfile) EXCEPT !.n = pidFile]
  <1>1. Overlap(c) /\ UNCHANGED <<process, pidFile, destVars>> /\ Begin(c, t)
    BY DEF StopBegin
  <1>2. c \in Actors /\ c \notin Launches
    BY ClientsAct
  <1>3. pidFile \in Launches \cup {NoPid}
    BY DEF CInv, TypeOK
  <1>4. pc = "kill" => ReadRunningPid /\ pidFile \in Launches
    BY <1>3 DEF ReadRunningPid, PidRunning
  <1>5. pc = "unlink" => ~ReadRunningPid
    OBVIOUS
  <1>6. pc \in {"kill", "unlink"}
    OBVIOUS
  <1> HIDE DEF pc
  <1>7. New(t, "stop", pc, NoProfile) /\ t.n = pidFile
    <2>1. "stop" \in Kinds /\ pc \in Pcs
      BY <1>6 DEF Kinds, Pcs, PidKinds
    <2>2. New(About("stop", pc, NoProfile), "stop", pc, NoProfile)
      BY <2>1, AboutFields
    <2>3. QED
      BY <1>3, <2>2 DEF CommandType, New
  <1> HIDE DEF t
  <1>8. Sound(c, t) /\ Unlooking(t)
    BY <1>2, <1>4, <1>6, <1>7 DEF New, Sound, Unlooking
  <1>9. Fits(c) /\ cmd'[c] = t /\ cmd[c].kind = "none"
    BY <1>1, <1>2, <1>6, <1>7, <1>8, BeginFits DEF New
  <1>10. cmd'[c].kind = "stop" /\ cmd'[c].pc = pc /\ cmd'[c].n = pidFile
    BY <1>7, <1>9 DEF New
  <1>11. ASSUME ~raced'
         PROVE  /\ \A b \in Clients : b # c => cmd'[b].kind \notin PidKinds
                /\ KnowsPid(c)'
    <2>1. /\ \A b \in Clients : b # c => cmd'[b].kind \notin PidKinds
          /\ Live \subseteq {pidFile}
      BY <1>1, <1>9, <1>11, PidBegins DEF Fits
    <2>2. pc = "unlink" => Live = {}
      BY <1>5, <2>1, LiveRuns DEF ReadRunningPid
    <2>3. Live' = Live /\ pidFile' = pidFile
      BY <1>1, LiveSame
    <2>4. QED
      BY <1>6, <1>10, <2>1, <2>2, <2>3 DEF KnowsPid, At
  <1>12. QED
    BY <1>9, <1>10, <1>11, PidAfter DEF PidKinds

\* A step to another of their places, in terms of what the command knows.
LEMMA PidGoes ==
    ASSUME CInv, NEW c \in Clients, cmd[c].pc \in PidPcs, Fits(c),
           cmd'[c].kind = cmd[c].kind, ~raced' => ~raced,
           ~raced' /\ KnowsPid(c) => KnowsPid(c)'
    PROVE  PidInv'
  <1>1. cmd[c].kind \in PidKinds /\ Turn(c)
    BY PidPlaces DEF Fits
  <1> HIDE DEF PidKinds
  <1>2. QED
    BY <1>1, PidAlone, PidAfter

\* A step that ends the command.
LEMMA PidEnds ==
    ASSUME CInv, NEW c \in Clients, cmd[c].pc \in PidPcs, Ended(c), UNCHANGED destVars,
           ~raced' => ~raced,
           ~raced' /\ KnowsPid(c) => Live' \subseteq {pidFile'}
    PROVE  Fits(c) /\ PidInv'
  <1>1. CmdType /\ c \in Actors /\ cmd[c].kind \in PidKinds
    BY PidPlaces
  <1>2. Fits(c) /\ cmd'[c] = Idle
    BY <1>1, EndFits
  <1>3. cmd'[c].kind \notin PidKinds /\ Turn(c)
    BY <1>2 DEF Idle, PidKinds, Fits
  <1> HIDE DEF PidKinds
  <1>4. QED
    BY <1>1, <1>2, <1>3, PidAlone, PidAfter

\* start reads the profiles.
LEMMA StartListPid ==
    ASSUME CInv, NEW c \in Clients, StartList(c) PROVE Fits(c) /\ PidInv'
  <1>1. /\ At(c, "list") /\ cmd[c].pc \in PidPcs
        /\ UNCHANGED <<destVars, process, pidFile, raced>>
    BY DEF StartList, procVars, At, PidPcs
  <1>2. Goto(c, "launch") \/ Ended(c)
    BY DEF StartList
  <1>3. Live' = Live
    BY <1>1, LiveSame
  <1>4. CASE Goto(c, "launch")
    <2>1. cmd[c].kind = "start"
      BY <1>1, PidPlaces DEF At, Sound, SyncPcs, PidKinds
    <2>2. "launch" \in PidPcs
      BY DEF PidPcs
    <2>3. Fits(c) /\ cmd'[c].kind = cmd[c].kind /\ cmd'[c].pc = "launch"
      BY <1>1, <1>4, <2>1, <2>2, PidGotoFits
    <2>4. KnowsPid(c) => KnowsPid(c)'
      BY <1>1, <1>3, <2>3 DEF KnowsPid, At
    <2>5. QED
      BY <1>1, <2>3, <2>4, PidGoes
  <1>5. CASE Ended(c)
    <2>1. KnowsPid(c) => Live' \subseteq {pidFile'}
      BY <1>1, <1>3 DEF KnowsPid, At
    <2>2. QED
      BY <1>1, <1>5, <2>1, PidEnds
  <1>6. QED
    BY <1>2, <1>4, <1>5

\* start launches a mirror process.
LEMMA StartLaunchPid ==
    ASSUME CInv, NEW c \in Clients, StartLaunch(c) PROVE Fits(c) /\ PidInv'
  <1> DEFINE n == launched + 1
             t == [cmd[c] EXCEPT !.pc = "writePid", !.n = n]
  <1>1. At(c, "launch") /\ cmd[c].pc \in PidPcs /\ UNCHANGED <<destVars, pidFile, raced>>
    BY DEF StartLaunch, At, PidPcs
  <1>2. n \in Launches
    BY BoundsAssumption DEF CInv, TypeOK, StartLaunch, Launches
  <1>3. /\ c \in Actors /\ c \notin Launches
        /\ CmdType /\ cmd[c] \in CommandType /\ Sound(c, cmd[c])
    BY <1>1, PidPlaces
  <1>4. cmd[c].kind = "start"
    BY <1>1, <1>3 DEF At, Sound, SyncPcs, CommandType, Kinds, PidKinds
  <1>5. /\ process' = [process EXCEPT ![n] = "booting"]
        /\ cmd' = [cmd EXCEPT ![c] = t]
    BY DEF StartLaunch
  <1> HIDE DEF n
  <1>6. /\ t \in CommandType /\ t.kind = "start" /\ t.pc = "writePid" /\ t.n = n
        /\ t.touched = cmd[c].touched
    BY <1>2, <1>3, <1>4 DEF CommandType, Pcs
  <1> HIDE DEF t
  <1>7. Sound(c, t) /\ Seen(t)
    BY <1>2, <1>3, <1>6 DEF Sound, Seen
  <1>8. Fits(c) /\ cmd'[c] = t
    BY <1>1, <1>3, <1>5, <1>6, <1>7, QuietFits
  <1>9. Live' \subseteq Live \cup {n}
    BY <1>2, <1>5 DEF Live, CInv, TypeOK
  <1>10. KnowsPid(c) => KnowsPid(c)'
    BY <1>1, <1>6, <1>8, <1>9 DEF KnowsPid, At
  <1>11. QED
    BY <1>1, <1>4, <1>6, <1>8, <1>10, PidGoes

\* start writes the pid file.
LEMMA StartWritePid ==
    ASSUME CInv, NEW c \in Clients, StartWrite(c) PROVE Fits(c) /\ PidInv'
  <1>1. /\ At(c, "writePid") /\ cmd[c].pc \in PidPcs /\ Goto(c, "check")
        /\ pidFile' = cmd[c].n /\ UNCHANGED <<destVars, process, raced>>
    BY DEF StartWrite, At, PidPcs
  <1>2. cmd[c].kind = "start" /\ cmd[c].n \in Launches
    BY <1>1, PidPlaces DEF At, Sound, SyncPcs, PidKinds
  <1>3. "check" \in PidPcs
    BY DEF PidPcs
  <1>4. /\ Fits(c) /\ cmd'[c].kind = cmd[c].kind /\ cmd'[c].pc = "check"
        /\ cmd'[c].n = cmd[c].n
    BY <1>1, <1>2, <1>3, PidGotoFits
  <1>5. Live' = Live
    BY <1>1, LiveSame
  <1>6. KnowsPid(c) => KnowsPid(c)'
    BY <1>1, <1>4, <1>5 DEF KnowsPid, At
  <1>7. QED
    BY <1>1, <1>4, <1>6, PidGoes

\* The children that init takes over had ended already.
LEMMA OrphansDead ==
    ASSUME CInv, NEW c \in Actors, process' = Orphaned(c)
    PROVE  Live' = Live /\ process' \in [Launches -> {"unborn", "booting", "watching", "told",
                                                     "zombie", "gone", "foreign"}]
  BY DEF CInv, TypeOK, Live, Orphaned

\* start looks at its child.
LEMMA StartCheckPid ==
    ASSUME CInv, NEW c \in Clients, StartCheck(c) PROVE Fits(c) /\ PidInv'
  <1>1. /\ At(c, "check") /\ cmd[c].pc \in PidPcs /\ Ended(c)
        /\ pidFile' = IF PidRunning(cmd[c].n) THEN pidFile ELSE NoPid
        /\ process' = Orphaned(c) /\ UNCHANGED <<destVars, raced>>
    BY DEF StartCheck, At, PidPcs
  <1>2. Live' = Live
    BY <1>1, OrphansDead, ClientsAct
  <1>3. KnowsPid(c) => Live' \subseteq {pidFile'}
    BY <1>1, <1>2, LiveRuns DEF KnowsPid, At
  <1>4. QED
    BY <1>1, <1>3, PidEnds

\* stop signals the process.
LEMMA StopKillPid ==
    ASSUME CInv, NEW c \in Clients, StopKill(c) PROVE Fits(c) /\ PidInv'
  <1>1. /\ At(c, "kill") /\ cmd[c].pc \in PidPcs /\ Goto(c, "wait")
        /\ UNCHANGED <<destVars, pidFile, raced>>
    BY DEF StopKill, At, PidPcs
  <1>2. cmd[c].kind = "stop" /\ cmd[c].n \in Launches
    BY <1>1, PidPlaces DEF At, Sound, SyncPcs, PidKinds
  <1>3. "wait" \in PidPcs
    BY DEF PidPcs
  <1>4. /\ Fits(c) /\ cmd'[c].kind = cmd[c].kind /\ cmd'[c].pc = "wait"
        /\ cmd'[c].n = cmd[c].n
    BY <1>1, <1>2, <1>3, PidGotoFits
  <1>5. Live' \subseteq Live
    BY <1>2 DEF StopKill, Live, CInv, TypeOK
  <1>6. KnowsPid(c) => KnowsPid(c)'
    BY <1>1, <1>4, <1>5 DEF KnowsPid, At
  <1>7. QED
    BY <1>1, <1>4, <1>6, PidGoes

\* The wait of stop is over.
LEMMA StopWaitPid ==
    ASSUME CInv, NEW c \in Clients, StopWait(c) PROVE Fits(c) /\ PidInv'
  <1>1. /\ At(c, "wait") /\ cmd[c].pc \in PidPcs /\ Goto(c, "unlink")
        /\ raced' = (raced \/ PidRunning(cmd[c].n))
        /\ UNCHANGED <<destVars, process, pidFile>>
    BY DEF StopWait, At, PidPcs
  <1>2. cmd[c].kind = "stop"
    BY <1>1, PidPlaces DEF At, Sound, SyncPcs, PidKinds
  <1>3. "unlink" \in PidPcs
    BY DEF PidPcs
  <1>4. Fits(c) /\ cmd'[c].kind = cmd[c].kind /\ cmd'[c].pc = "unlink"
    BY <1>1, <1>2, <1>3, PidGotoFits
  <1>5. Live' = Live
    BY <1>1, LiveSame
  <1>6. ~raced' /\ KnowsPid(c) => KnowsPid(c)'
    BY <1>1, <1>4, <1>5, LiveRuns DEF KnowsPid, At
  <1>7. QED
    BY <1>1, <1>4, <1>6, PidGoes

\* The pid file is removed.
LEMMA UnlinkPid ==
    ASSUME CInv, NEW c \in Clients, Unlink(c) PROVE Fits(c) /\ PidInv'
  <1>1. /\ At(c, "unlink") /\ cmd[c].pc \in PidPcs /\ pidFile' = NoPid
        /\ UNCHANGED <<destVars, process, raced>>
    BY DEF Unlink, At, PidPcs
  <1>2. (cmd[c].kind = "fix" /\ Goto(c, "fixLook")) \/ Ended(c)
    BY DEF Unlink
  <1>3. Live' = Live
    BY <1>1, LiveSame
  <1>4. CASE cmd[c].kind = "fix" /\ Goto(c, "fixLook")
    <2>1. "fixLook" \in PidPcs
      BY DEF PidPcs
    <2>2. Fits(c) /\ cmd'[c].kind = cmd[c].kind /\ cmd'[c].pc = "fixLook"
      BY <1>1, <1>4, <2>1, PidGotoFits
    <2>3. KnowsPid(c) => KnowsPid(c)'
      BY <1>1, <1>3, <2>2 DEF KnowsPid, At
    <2>4. QED
      BY <1>1, <2>2, <2>3, PidGoes
  <1>5. CASE Ended(c)
    <2>1. KnowsPid(c) => Live' \subseteq {pidFile'}
      BY <1>1, <1>3 DEF KnowsPid, At
    <2>2. QED
      BY <1>1, <1>5, <2>1, PidEnds
  <1>6. QED
    BY <1>2, <1>4, <1>5

\* doctor --fix on its way to its profile's destination.
LEMMA FixPids ==
    ASSUME CInv, NEW c \in Clients, FixPid(c) \/ FixLook(c) \/ FixRead(c)
    PROVE  Fits(c) /\ PidInv'
  <1>1. /\ cmd[c].pc \in {"fixPid", "fixLook", "fixRead"} /\ cmd[c].pc \in PidPcs
        /\ UNCHANGED <<destVars, process, pidFile, raced>>
    BY DEF FixPid, FixLook, FixRead, At, PidPcs, procVars
  <1>2. cmd[c].kind = "fix"
    BY <1>1, PidPlaces DEF Sound, SyncPcs, PidKinds
  <1>3. Live' = Live
    BY <1>1, LiveSame
  <1>4. \/ \E pc \in {"fixLook", "fixRead", "ensure"} : Goto(c, pc)
        \/ Goto(c, "unlink") /\ ~ReadRunningPid
        \/ Ended(c)
    <2>1. CASE FixPid(c)
      BY <2>1 DEF FixPid
    <2>2. CASE FixLook(c)
      BY <2>2 DEF FixLook
    <2>3. CASE FixRead(c)
      BY <2>3 DEF FixRead
    <2>4. QED
      BY <2>1, <2>2, <2>3
  <1>5. ASSUME NEW pc \in {"fixLook", "fixRead", "ensure", "unlink"}, Goto(c, pc),
               pc = "unlink" => ~ReadRunningPid
        PROVE  Fits(c) /\ PidInv'
    <2>1. pc \in PidPcs
      BY DEF PidPcs
    <2>2. Fits(c) /\ cmd'[c].kind = cmd[c].kind /\ cmd'[c].pc = pc
      BY <1>1, <1>2, <1>5, <2>1, PidGotoFits
    <2>3. ~ReadRunningPid /\ Live \subseteq {pidFile} => Live = {}
      BY LiveRuns DEF ReadRunningPid
    <2>4. KnowsPid(c) => KnowsPid(c)'
      BY <1>1, <1>3, <1>5, <2>2, <2>3 DEF KnowsPid, At
    <2>5. QED
      BY <1>1, <2>2, <2>4, PidGoes
  <1>6. CASE Ended(c)
    <2>1. KnowsPid(c) => Live' \subseteq {pidFile'}
      BY <1>1, <1>3 DEF KnowsPid, At
    <2>2. QED
      BY <1>1, <1>6, <2>1, PidEnds
  <1>7. QED
    BY <1>4, <1>5, <1>6

\* doctor --fix at the destination.
LEMMA FixEnsurePid ==
    ASSUME CInv, NEW c \in Clients, FixEnsure(c) PROVE Fits(c) /\ Shares(c) /\ PidInv'
  <1>1. /\ At(c, "ensure") /\ cmd[c].pc \in PidPcs
        /\ UNCHANGED <<process, pidFile, raced>>
    BY DEF FixEnsure, At, PidPcs, procVars
  <1>2. Fits(c) /\ Shares(c) /\ cmd'[c] = Idle
    BY FixEnsureFits
  <1>3. cmd[c].kind \in PidKinds
    BY <1>1, PidPlaces
  <1>4. cmd'[c].kind \notin PidKinds /\ Turn(c)
    BY <1>2 DEF Idle, PidKinds, Fits
  <1>5. Live' = Live
    BY <1>1, LiveSame
  <1>6. KnowsPid(c) => Live' \subseteq {pidFile'}
    BY <1>1, <1>5 DEF KnowsPid, At
  <1> HIDE DEF PidKinds
  <1>7. PidInv'
    BY <1>1, <1>3, <1>4, <1>6, PidAlone, PidAfter
  <1>8. QED
    BY <1>2, <1>7

\* Any of their steps.
LEMMA PidStepPid ==
    ASSUME CInv, NEW c \in Clients, PidStep(c)
    PROVE  Fits(c) /\ Shares(c) /\ PidInv'
  <1>1. CASE FixEnsure(c)
    BY <1>1, FixEnsurePid
  <1>2. CASE FixPid(c) \/ FixLook(c) \/ FixRead(c)
    <2>1. UNCHANGED destVars
      BY <1>2 DEF FixPid, FixLook, FixRead
    <2>2. QED
      BY <1>2, <2>1, FixPids DEF Shares
  <1>3. CASE \/ StartList(c) \/ StartLaunch(c) \/ StartWrite(c) \/ StartCheck(c)
             \/ StopKill(c) \/ StopWait(c) \/ Unlink(c)
    <2>1. UNCHANGED destVars
      BY <1>3 DEF StartList, StartLaunch, StartWrite, StartCheck, StopKill, StopWait, Unlink
    <2>2. QED
      BY <1>3, <2>1, StartListPid, StartLaunchPid, StartWritePid, StartCheckPid,
         StopKillPid, StopWaitPid, UnlinkPid DEF Shares
  <1>4. QED
    BY <1>1, <1>2, <1>3 DEF PidStep

(***************************************************************************)
(* The parts of the invariant, for the steps of commands                   *)
(***************************************************************************)

\* A destination that no step has changed looks as before.
LEMMA SameLook ==
    ASSUME NEW t, NEW u, t.pc = u.pc, t.kind = u.kind, t.p = u.p, t.force = u.force,
           t.inode = u.inode, t.gen = u.gen, t.intact = u.intact,
           dir'[t.p.dest] = dir[t.p.dest], marker'[t.p.dest] = marker[t.p.dest],
           owner'[t.p.dest] = owner[t.p.dest], Seen(t)
    PROVE  LET d == u.p.dest
           IN  /\ u.pc = "use" => MarkerMatches(marker'[d], u.p)
               /\ u.kind = "setup" /\ u.pc \in {"load", "mint", "save"} /\ ~u.force =>
                     \/ MarkerMatches(marker'[d], u.p) \/ owner'[d] = NoOwner
                     \/ ~(marker'[d].intact /\ marker'[d].gen = dir'[d].gen)
               /\ u.pc \in {"identity", "remove"} =>
                     /\ MarkerMatches(marker'[d], u.p)
                     /\ u.inode = marker'[d].inode /\ u.gen = marker'[d].gen
                     /\ u.intact = marker'[d].intact
               /\ u.pc = "remove" =>
                     \/ u.inode = NoInode
                     \/ dir'[d].kind # "missing" /\ dir'[d].inode = u.inode
  <1>1. u.p.dest = t.p.dest
    OBVIOUS
  <1>2. QED
    BY <1>1 DEF Seen, MarkerCurrent, SameDirectory

\* A command that a step leaves alone still sees what it saw, unless its
\* destination was touched.
LEMMA OthersLook ==
    ASSUME CInv, NEW b \in Actors, Alike(b), CmdType',
           \/ UNCHANGED destVars
           \/ \E d \in Dests :
                 /\ Changes(d)
                 /\ cmd[b].p.dest = d /\ Looked(cmd[b])
                       => cmd'[b].touched,
           ~cmd'[b].touched
    PROVE  Seen(cmd[b])'
  <1>1. /\ cmd[b] \in CommandType /\ Sound(b, cmd[b])
        /\ ~cmd[b].touched => Seen(cmd[b])
    BY Here
  <1>2. cmd[b].touched \in BOOLEAN /\ (cmd[b].touched => cmd'[b].touched)
    BY <1>1 DEF Alike, CommandType
  <1>3. Seen(cmd[b])
    BY <1>1, <1>2
  <1>4. CASE ~Looked(cmd[b])
    <2>1. Unlooking(cmd[b])
      BY <1>4 DEF Looked, Unlooking
    <2>2. Unlooking(cmd'[b])
      BY <2>1 DEF Alike, Unlooking
    <2>3. QED
      BY <2>2 DEF Seen, Unlooking
  <1>5. CASE Looked(cmd[b])
    <2>1. cmd[b].p.dest \in Dests
      <3>1. cmd[b].kind \notin {"none", "read", "start", "stop"}
        BY <1>1, <1>5 DEF Looked, Sound, SyncPcs
      <3>2. QED
        BY <1>1, <3>1 DEF Sound, Profiles
    <2>2. /\ dir'[cmd[b].p.dest] = dir[cmd[b].p.dest]
          /\ marker'[cmd[b].p.dest] = marker[cmd[b].p.dest]
          /\ owner'[cmd[b].p.dest] = owner[cmd[b].p.dest]
      BY <1>5, <2>1 DEF Changes, destVars
    <2>3. QED
      BY <1>3, <2>2, SameLook DEF Alike, Seen, MarkerCurrent, SameDirectory
  <1>6. QED
    BY <1>4, <1>5

\* What a step of a does to the destinations, to another command.
LEMMA SharesLook ==
    ASSUME NEW a \in Actors, Shares(a), NEW b \in Actors, b # a
    PROVE  \/ UNCHANGED destVars
           \/ \E d \in Dests :
                 /\ Changes(d)
                 /\ cmd[b].p.dest = d /\ Looked(cmd[b])
                       => cmd'[b].touched
  BY DEF Shares

\* No command has seen what is no longer there.
LEMMA StepLooks ==
    ASSUME CInv, NEW a \in Actors, Fits(a), Shares(a) PROVE LookInv'
  <1>1. ASSUME NEW b \in Actors, ~cmd'[b].touched PROVE Seen(cmd[b])'
    <2>1. CASE b = a
      BY <1>1, <2>1 DEF Fits
    <2>2. CASE b # a
      <3>1. Alike(b) /\ CmdType'
        BY <2>2 DEF Fits, Turn
      <3>2. \/ UNCHANGED destVars
            \/ \E d \in Dests :
                  /\ Changes(d)
                  /\ cmd[b].p.dest = d /\ Looked(cmd[b])
                        => cmd'[b].touched
        BY <2>2, SharesLook
      <3>3. QED
        BY <1>1, <3>1, <3>2, OthersLook
    <2>3. QED
      BY <2>1, <2>2
  <1>2. QED
    BY <1>1 DEF LookInv

\* Destinations, after a step that changes one of them at most.
LEMMA DestsStay ==
    ASSUME CInv, UNCHANGED destVars \/ \E d \in Dests : Changes(d)
    PROVE  /\ DestinationType'
           /\ \A d \in Dests : Numbered(d)'
           /\ \A d \in Dests : dir[d].gen <= dir'[d].gen
           /\ \A d \in Dests : dir[d].gen \in Nat /\ dir'[d].gen \in Nat
  <1>1. \A d \in Dests : Numbered(d) /\ dir[d].gen \in Nat
    BY There
  <1>2. DestinationType
    BY DEF CInv, TypeOK
  <1>3. CASE UNCHANGED destVars
    BY <1>1, <1>2, <1>3 DEF destVars, DestinationType, Numbered, MarkerCurrent
  <1>4. ASSUME NEW d \in Dests, Changes(d)
        PROVE  /\ DestinationType'
               /\ \A e \in Dests : Numbered(e)'
               /\ \A e \in Dests : dir[e].gen <= dir'[e].gen
               /\ \A e \in Dests : dir[e].gen \in Nat /\ dir'[e].gen \in Nat
    <2>1. ASSUME NEW e \in Dests, e # d
          PROVE  Numbered(e)' /\ dir'[e].gen = dir[e].gen
      BY <1>1, <1>4, <2>1 DEF Changes, Numbered, MarkerCurrent
    <2>2. DestinationType' /\ Numbered(d)' /\ dir[d].gen <= dir'[d].gen
      BY <1>4 DEF Changes
    <2>3. dir'[d].gen \in Nat
      BY <2>2 DEF DestinationType, Dir
    <2>4. QED
      BY <1>1, <2>1, <2>2, <2>3
  <1>5. QED
    BY <1>3, <1>4

\* Directories stay numbered, and the markers that are about to be written
\* keep naming one that has been there.
LEMMA StepDests ==
    ASSUME CInv, NEW a \in Actors, Fits(a), Shares(a)
    PROVE  DestInv' /\ DestinationType'
  <1>1. /\ DestinationType'
        /\ \A d \in Dests : Numbered(d)'
        /\ \A d \in Dests : dir[d].gen <= dir'[d].gen
        /\ \A d \in Dests : dir[d].gen \in Nat /\ dir'[d].gen \in Nat
    BY DestsStay DEF Shares
  <1>2. ASSUME NEW b \in Actors, cmd'[b].pc \in {"stat", "mark"}
        PROVE  cmd'[b].gen <= dir'[cmd'[b].p.dest].gen
    <2>1. CASE b = a
      BY <1>2, <2>1 DEF Fits
    <2>2. CASE b # a
      <3>1. Alike(b)
        BY <2>2 DEF Fits, Turn
      <3>2. cmd[b].pc \in {"stat", "mark"} /\ cmd[b].pc \in SyncPcs
        BY <1>2, <3>1 DEF Alike, SyncPcs
      <3>3. /\ cmd[b].gen <= dir[cmd[b].p.dest].gen /\ cmd[b].p.dest \in Dests
            /\ cmd[b] \in CommandType
        BY <3>2, Syncing
      <3>4. cmd[b].gen \in Nat
        BY <3>3 DEF CommandType
      <3>5. QED
        BY <1>1, <3>1, <3>3, <3>4 DEF Alike
    <2>3. QED
      BY <2>1, <2>2
  <1>3. QED
    BY <1>1, <1>2 DEF DestInv, Numbered

\* What b knows of the file that it is about to save.
Copied(b) ==
    /\ Distinct(cmd[b].copy) /\ Unnamed(cmd[b].copy) = {}
    /\ cmd[b].pc = "save" /\ ~cmd[b].stale => cmd[b].copy = file
    /\ cmd[b].pc = "mint" /\ ~cmd[b].stale => cmd[b].copy \in Minted(file)

\* Who is about to save.
LEMMA StepCopies ==
    ASSUME CInv, NEW a \in Actors, Fits(a), file' = file PROVE CopyInv'
  <1>1. CopyInv /\ Distinct(file)
    BY HaveIds DEF CInv
  <1>2. ASSUME NEW b \in Actors, cmd'[b].pc \in {"save", "mint"} PROVE Copied(b)'
    <2>1. CASE b = a
      BY <1>1, <1>2, <2>1 DEF Fits, Fitting, Copied, Distinct
    <2>2. CASE b # a
      <3>1. Alike(b)
        BY <2>2 DEF Fits, Turn
      <3>2. Copied(b)
        BY <1>1, <1>2, <3>1 DEF Alike, CopyInv, Copied, At
      <3>3. QED
        BY <1>2, <3>1, <3>2 DEF Alike, Copied
    <2>3. QED
      BY <2>1, <2>2
  <1>3. QED
    BY <1>2 DEF CopyInv, Copied, At, Distinct

\* The parts of the invariant that are about commands and destinations, after
\* a step of a command that leaves the file alone.
CommandParts == CmdType /\ DestinationType /\ KindInv /\ CopyInv /\ DestInv /\ LookInv

LEMMA StepParts ==
    ASSUME CInv, NEW a \in Actors, Fits(a), Shares(a), file' = file
    PROVE  CommandParts'
  <1>1. KindInv' /\ CmdType'
    BY TurnKeepsKinds DEF CInv, Fits, Turn
  <1>2. QED
    BY <1>1, StepLooks, StepDests, StepCopies DEF CommandParts

(***************************************************************************)
(* Saving                                                                  *)
(***************************************************************************)

\* Putting a profile with an id keeps the ids of a file apart.
LEMMA PutDistinct ==
    ASSUME NEW S \in SUBSET Profiles, Distinct(S), NEW p \in Profiles, p.id # NoId
    PROVE  Put(S, p) \in SUBSET Profiles /\ Distinct(Put(S, p))
  BY DEF Put, Distinct

\* So does adding one.
LEMMA AddedDistinct ==
    ASSUME NEW S \in SUBSET Profiles, Distinct(S), NEW p \in Profiles, NEW T \in Added(S, p)
    PROVE  T \in SUBSET Profiles /\ Distinct(T)
  <1>1. PICK id \in FreeIds(S) : T = Put(S, [p EXCEPT !.id = id])
    BY DEF Added
  <1> DEFINE q == [p EXCEPT !.id = id]
  <1>2. id \in Ids /\ id # NoId
    BY IdsAssumption DEF FreeIds
  <1>3. q \in Profiles /\ q.id = id
    BY <1>2 DEF Profiles
  <1> HIDE DEF q
  <1>4. QED
    BY <1>1, <1>2, <1>3, PutDistinct DEF q

\* And taking one away.
LEMMA WithoutDistinct ==
    ASSUME NEW S \in SUBSET Profiles, Distinct(S), NEW p
    PROVE  Without(S, p) \in SUBSET Profiles /\ Distinct(Without(S, p))
  BY DEF Without, Distinct

\* And giving out ids, which changes nothing else.
LEMMA MintedDistinct ==
    ASSUME NEW S \in SUBSET Profiles, Distinct(S), NEW T \in Minted(S)
    PROVE  /\ T \in SUBSET Profiles /\ Distinct(T) /\ Unnamed(T) = {}
           /\ \A p \in S \ T : p.id = NoId /\ \E id \in Ids : [p EXCEPT !.id = id] \in T
  <1> DEFINE U == Unnamed(S)
  <1>1. PICK ids \in [U -> FreeIds(S)] :
           /\ \A p, q \in U : ids[p] = ids[q] => p = q
           /\ T = (S \ U) \cup {[p EXCEPT !.id = ids[p]] : p \in U}
    BY DEF Minted
  <1> DEFINE New1(p) == [p EXCEPT !.id = ids[p]]
  <1>2. \A p \in U : p \in S /\ p.id = NoId
    BY DEF Unnamed
  <1>3. \A p \in S \ U : p.id # NoId
    BY DEF Unnamed
  <1>4. ASSUME NEW p \in U
        PROVE  /\ ids[p] \in FreeIds(S) /\ ids[p] \in Ids /\ ids[p] # NoId
               /\ New1(p) \in Profiles /\ New1(p).id = ids[p] /\ New1(p) \in T
    <2>1. ids[p] \in FreeIds(S)
      BY <1>1
    <2>2. ids[p] \in Ids /\ ids[p] # NoId
      BY <2>1, IdsAssumption DEF FreeIds
    <2>3. p \in Profiles
      BY <1>2
    <2>4. New1(p) \in Profiles /\ New1(p).id = ids[p]
      BY <2>2, <2>3 DEF Profiles
    <2>5. QED
      BY <1>1, <2>1, <2>2, <2>4
  <1>5. \A x \in T : (x \in S \ U) \/ (\E p \in U : x = New1(p))
    BY <1>1
  <1> HIDE DEF New1, U
  <1>6. \A q \in S, p \in U : q.id # ids[p]
    BY <1>4 DEF FreeIds
  <1>7. ASSUME NEW x \in T, NEW y \in T, x.id = y.id PROVE x = y
    <2>1. CASE x \in S \ U /\ y \in S \ U
      BY <1>7, <2>1 DEF Distinct
    <2>2. CASE x \in S \ U /\ \E p \in U : y = New1(p)
      BY <1>4, <1>6, <1>7, <2>2
    <2>3. CASE y \in S \ U /\ \E p \in U : x = New1(p)
      BY <1>4, <1>6, <1>7, <2>3
    <2>4. CASE (\E p \in U : x = New1(p)) /\ (\E p \in U : y = New1(p))
      BY <1>1, <1>4, <1>7, <2>4
    <2>5. QED
      BY <1>5, <2>1, <2>2, <2>3, <2>4
  <1>8. T \in SUBSET Profiles /\ Unnamed(T) = {}
    BY <1>3, <1>4, <1>5 DEF Unnamed
  <1>9. ASSUME NEW p \in S, p \notin T
        PROVE  p.id = NoId /\ \E id \in Ids : [p EXCEPT !.id = id] \in T
    <2>1. p \in U
      BY <1>1, <1>9
    <2>2. QED
      BY <1>2, <1>4, <2>1 DEF New1
  <1>10. QED
    BY <1>7, <1>8, <1>9 DEF Distinct

\* Whoever saves is setup, delete or one of the edits.
LEMMA Saving ==
    ASSUME CInv, NEW c \in Clients, At(c, "save")
    PROVE  /\ c \in Actors /\ CmdType /\ cmd[c] \in CommandType
           /\ cmd[c].kind \in {"setup", "edit", "delete"} /\ cmd[c].kind \notin PidKinds
           /\ cmd[c].p \in Profiles /\ (cmd[c].kind # "setup" => cmd[c].p.id # NoId)
           /\ cmd[c].copy \in SUBSET Profiles /\ Distinct(cmd[c].copy)
           /\ ~cmd[c].stale => cmd[c].copy = file
  <1>1. c \in Actors /\ CmdType /\ cmd[c] \in CommandType /\ Sound(c, cmd[c])
    BY Here, ClientsAct
  <1>2. cmd[c].kind \in {"setup", "edit", "delete"}
    BY <1>1 DEF At, Sound, SyncPcs, CommandType, Kinds, PidKinds
  <1>3. cmd[c].kind \notin PidKinds
    BY <1>2 DEF PidKinds
  <1>4. cmd[c].p \in Profiles /\ (cmd[c].kind # "setup" => cmd[c].p.id # NoId)
    BY <1>1, <1>2 DEF Sound
  <1>5. cmd[c].copy \in SUBSET Profiles
    BY <1>1 DEF CommandType
  <1>6. Distinct(cmd[c].copy) /\ (~cmd[c].stale => cmd[c].copy = file)
    BY <1>1 DEF CInv, CopyInv, At
  <1>7. QED
    BY <1>1, <1>2, <1>3, <1>4, <1>5, <1>6

\* What a save makes of the file that was loaded.
LEMMA SavedFile ==
    ASSUME CInv, NEW c \in Clients, Save(c)
    PROVE  /\ file' \in SUBSET Profiles /\ Distinct(file')
           /\ \A p \in cmd[c].copy : ~IsAbout(cmd[c], p) => p \in file'
  <1>1. At(c, "save") /\ file' \in Changed(c)
    BY DEF Save
  <1> DEFINE S == cmd[c].copy
             p == cmd[c].p
  <1>2. /\ cmd[c].kind \in {"setup", "edit", "delete"}
        /\ p \in Profiles /\ (cmd[c].kind # "setup" => p.id # NoId)
        /\ S \in SUBSET Profiles /\ Distinct(S)
    BY <1>1, Saving
  <1>3. /\ cmd[c].kind = "setup" => file' \in Added(S, p)
        /\ cmd[c].kind = "edit" => file' = Put(S, p)
        /\ cmd[c].kind = "delete" => \E t \in Resolve(S, p.id) : file' = Without(S, t)
    BY <1>1, <1>2 DEF Changed, Targets
  <1> HIDE DEF S, p
  <1>4. CASE cmd[c].kind = "setup"
    <2>1. file' \in SUBSET Profiles /\ Distinct(file')
      BY <1>2, <1>3, <1>4, AddedDistinct
    <2>2. PICK id \in FreeIds(S) : file' = Put(S, [p EXCEPT !.id = id])
      BY <1>3, <1>4 DEF Added
    <2>3. [p EXCEPT !.id = id].id = id
      BY <1>2 DEF Profiles
    <2>4. \A q \in S : q.id # id
      BY DEF FreeIds
    <2>5. \A q \in S : q \in file'
      BY <2>2, <2>3, <2>4 DEF Put
    <2>6. QED
      BY <2>1, <2>5 DEF S
  <1>5. CASE cmd[c].kind = "edit"
    <2>1. file' \in SUBSET Profiles /\ Distinct(file')
      BY <1>2, <1>3, <1>5, PutDistinct
    <2>2. \A q \in S : q.id # p.id => q \in file'
      BY <1>3, <1>5 DEF Put
    <2>3. QED
      BY <2>1, <2>2 DEF S, p, IsAbout
  <1>6. CASE cmd[c].kind = "delete"
    <2>1. PICK t \in Resolve(S, p.id) : file' = Without(S, t)
      BY <1>3, <1>6
    <2>2. file' \in SUBSET Profiles /\ Distinct(file')
      BY <1>2, <2>1, WithoutDistinct
    <2>3. t \in S /\ (t.id = p.id \/ t.name = p.id)
      BY <2>1 DEF Resolve
    <2>4. \A q \in S : q.id = t.id => q = t
      BY <1>2, <2>3 DEF Distinct
    <2>5. \A q \in S : q # t => q \in file'
      BY <2>1, <2>4 DEF Without
    <2>6. \A q \in S : ~IsAbout(cmd[c], q) => q # t
      BY <1>6, <2>3 DEF IsAbout, p
    <2>7. QED
      BY <2>2, <2>5, <2>6 DEF S
  <1>7. QED
    BY <1>2, <1>4, <1>5, <1>6

\* The others that are about to save learn that their file is an old one.
LEMMA SavedByFits ==
    ASSUME CInv, NEW a \in Actors, NEW t \in CommandType, Sound(a, t), SavedBy(a, t),
           UNCHANGED destVars, t.pc \notin {"save", "mint", "stat", "mark"},
           ~t.touched => Seen(t)
    PROVE  Fits(a) /\ cmd'[a] = t /\ Shares(a) /\ CopyInv'
  <1>1. cmd' = [b \in Actors |-> IF b = a THEN t
                                 ELSE IF cmd[b].pc \in {"save", "mint"}
                                 THEN [cmd[b] EXCEPT !.stale = TRUE]
                                 ELSE cmd[b]]
    BY DEF SavedBy
  <1>2. \A b \in Actors : cmd[b] \in CommandType
    BY Here
  <1>3. \A b \in Actors :
           /\ [cmd[b] EXCEPT !.stale = TRUE] \in CommandType
           /\ [cmd[b] EXCEPT !.stale = TRUE].stale
           /\ [cmd[b] EXCEPT !.stale = TRUE].pc = cmd[b].pc
           /\ [cmd[b] EXCEPT !.stale = TRUE].copy = cmd[b].copy
    BY <1>2 DEF CommandType
  <1>4. \A b \in Actors :
           \/ b = a /\ cmd'[b] = t
           \/ b # a /\ cmd[b].pc \notin {"save", "mint"} /\ cmd'[b] = cmd[b]
           \/ b # a /\ cmd'[b] = [cmd[b] EXCEPT !.stale = TRUE]
    BY <1>1
  <1>5. CmdType'
    <2>1. cmd' = [b \in Actors |-> cmd'[b]]
      BY <1>1
    <2>2. \A b \in Actors : cmd'[b] \in CommandType
      BY <1>2, <1>3, <1>4
    <2>3. QED
      BY <2>1, <2>2 DEF CmdType
  <1>6. \A b \in Actors : b # a => Alike(b)
    <2>1. SUFFICES ASSUME NEW b \in Actors, b # a PROVE Alike(b)
      OBVIOUS
    <2>2. CASE cmd'[b] = cmd[b]
      BY <2>2 DEF Alike
    <2>3. CASE cmd'[b] = [cmd[b] EXCEPT !.stale = TRUE]
      <3>1. cmd[b] \in CommandType
        BY <1>2
      <3>2. QED
        BY <2>3, <3>1 DEF Alike, CommandType
    <2>4. QED
      BY <1>4, <2>1, <2>2, <2>3
  <1>7. cmd'[a] = t
    BY <1>4
  <1>8. Turn(a)
    BY <1>5, <1>6, <1>7 DEF Turn
  <1>9. ~t.touched => Seen(cmd[a])'
    BY <1>7 DEF Seen, MarkerCurrent, SameDirectory, destVars
  <1>10. Fits(a)
    BY <1>7, <1>8, <1>9 DEF Fits, Fitting
  <1>11. CopyInv'
    <2>1. ASSUME NEW b \in Actors, cmd'[b].pc \in {"save", "mint"}
          PROVE  /\ Distinct(cmd'[b].copy) /\ Unnamed(cmd'[b].copy) = {} /\ cmd'[b].stale
      <3>1. /\ cmd'[b].stale /\ cmd'[b].copy = cmd[b].copy
            /\ cmd[b].pc \in {"save", "mint"}
        BY <1>3, <1>4, <2>1
      <3>2. Distinct(cmd[b].copy) /\ Unnamed(cmd[b].copy) = {}
        BY <3>1 DEF CInv, CopyInv
      <3>3. QED
        BY <3>1, <3>2
    <2>2. QED
      BY <2>1 DEF CopyInv, At, Distinct, Unnamed
  <1>12. QED
    BY <1>7, <1>10, <1>11 DEF Shares

\* A save.
LEMMA SaveFits ==
    ASSUME CInv, NEW c \in Clients, Save(c)
    PROVE  /\ Fits(c) /\ Apart(c) /\ Shares(c) /\ CopyInv'
           /\ file' \in SUBSET Profiles /\ Distinct(file')
  <1>1. At(c, "save") /\ UNCHANGED destVars /\ SavedBy(c, Idle)
    BY DEF Save
  <1>2. c \in Actors /\ cmd[c].kind \notin PidKinds
    BY <1>1, Saving
  <1>3. /\ Idle \in CommandType /\ Sound(c, Idle) /\ Seen(Idle)
        /\ Idle.pc = "idle" /\ Idle.kind = "none"
    BY <1>2, IdleIsSound DEF Seen, Idle
  <1>4. Fits(c) /\ cmd'[c] = Idle /\ Shares(c) /\ CopyInv'
    BY <1>1, <1>2, <1>3, SavedByFits
  <1>5. QED
    BY <1>2, <1>3, <1>4, SavedFile DEF Apart, PidKinds

(***************************************************************************)
(* Loads that give out ids                                                 *)
(***************************************************************************)

\* Whose loads these are.
LEMMA Minting ==
    ASSUME CInv, NEW a \in Actors, At(a, "mint")
    PROVE  /\ CmdType /\ cmd[a] \in CommandType /\ Sound(a, cmd[a])
           /\ cmd[a].kind \in {"read", "setup", "delete", "start"}
           /\ cmd[a].copy \in SUBSET Profiles /\ Distinct(cmd[a].copy)
           /\ ~cmd[a].touched => Seen(cmd[a])
           /\ ~cmd[a].stale => cmd[a].copy \in Minted(file)
  <1>1. /\ CmdType /\ cmd[a] \in CommandType /\ Sound(a, cmd[a])
        /\ ~cmd[a].touched => Seen(cmd[a])
    BY Here
  <1>2. cmd[a].kind \in {"read", "setup", "delete", "start"}
    BY <1>1 DEF At, Sound, SyncPcs, CommandType, Kinds, PidKinds
  <1>3. cmd[a].copy \in SUBSET Profiles
    BY <1>1 DEF CommandType
  <1>4. Distinct(cmd[a].copy) /\ (~cmd[a].stale => cmd[a].copy \in Minted(file))
    BY DEF CInv, CopyInv, At
  <1>5. QED
    BY <1>1, <1>2, <1>3, <1>4

\* A load meets an entry without an id.
LEMMA MintLoadFits ==
    ASSUME CInv, NEW a \in Actors, MintLoad(a)
    PROVE  /\ Fits(a) /\ Shares(a) /\ cmd'[a].pc = "mint"
           /\ \/ cmd[a].kind \in PidKinds /\ cmd[a].pc = "list" /\ cmd'[a].kind = cmd[a].kind
              \/ Apart(a)
  <1>1. /\ CmdType /\ cmd[a] \in CommandType /\ Sound(a, cmd[a])
        /\ ~cmd[a].touched => Seen(cmd[a])
    BY Here
  <1>2. PICK copy \in Minted(file) :
           cmd' = [cmd EXCEPT ![a].kind = IF @ = "none" THEN "read" ELSE @,
                              ![a].pc = "mint", ![a].copy = copy, ![a].stale = FALSE]
    BY DEF MintLoad
  <1>3. cmd[a].pc \in {"idle", "load", "list"} /\ UNCHANGED <<file, destVars>>
    BY DEF MintLoad, At, storeVars
  <1> DEFINE kind == IF cmd[a].kind = "none" THEN "read" ELSE cmd[a].kind
             t == [cmd[a] EXCEPT !.kind = kind, !.pc = "mint", !.copy = copy, !.stale = FALSE]
  <1>4. copy \in SUBSET Profiles /\ Distinct(copy) /\ Unnamed(copy) = {}
    BY HaveIds, MintedDistinct
  <1>5. /\ cmd[a].pc = "idle" => kind = "read"
        /\ cmd[a].pc = "load" => kind \in {"setup", "delete"} /\ kind = cmd[a].kind
        /\ cmd[a].pc = "list" => kind = "start" /\ kind = cmd[a].kind
    BY <1>1 DEF Sound, SyncPcs, CommandType, Kinds, PidKinds
  <1>6. kind \in Kinds /\ "mint" \in Pcs
    BY <1>3, <1>5 DEF Kinds, PidKinds, Pcs
  <1>7. cmd' = [cmd EXCEPT ![a] = t]
    BY <1>2
  <1> HIDE DEF kind
  <1>8. /\ t \in CommandType /\ t.kind = kind /\ t.pc = "mint" /\ t.copy = copy
        /\ t.p = cmd[a].p /\ t.force = cmd[a].force /\ t.touched = cmd[a].touched
        /\ t.n = cmd[a].n
    BY <1>1, <1>4, <1>6 DEF CommandType
  <1> HIDE DEF t
  <1>9. Sound(a, t)
    BY <1>1, <1>3, <1>5, <1>8 DEF Sound, SyncPcs
  <1>10. ~t.touched => Seen(t)
    BY <1>1, <1>3, <1>5, <1>8 DEF Seen
  <1>11. Fitting(t, file')
    BY <1>3, <1>4, <1>8 DEF Fitting
  <1>12. Fits(a) /\ cmd'[a] = t
    BY <1>1, <1>3, <1>7, <1>8, <1>9, <1>10, <1>11, QuietFits
  <1>13. \/ cmd[a].kind \in PidKinds /\ cmd[a].pc = "list" /\ cmd'[a].kind = cmd[a].kind
         \/ Apart(a)
    <2>1. CASE cmd[a].pc = "list"
      BY <1>5, <1>8, <1>12, <2>1 DEF PidKinds
    <2>2. CASE cmd[a].pc = "load"
      BY <1>5, <1>8, <1>12, <2>2 DEF Apart, PidKinds
    <2>3. CASE cmd[a].pc = "idle"
      <3>1. cmd[a].kind = "none"
        BY <1>1, <2>3 DEF Sound
      <3>2. QED
        BY <1>5, <1>8, <1>12, <2>3, <3>1 DEF Apart, PidKinds
    <2>4. QED
      BY <1>3, <2>1, <2>2, <2>3
  <1>14. QED
    BY <1>3, <1>8, <1>12, <1>13 DEF Shares

\* It saves the file, and its command goes on.
LEMMA MintSaveFits ==
    ASSUME CInv, NEW a \in Actors, MintSave(a)
    PROVE  /\ Fits(a) /\ Shares(a) /\ CopyInv'
           /\ \/ /\ cmd[a].kind \in PidKinds /\ cmd[a].pc = "mint"
                 /\ cmd'[a].kind = cmd[a].kind /\ cmd'[a].pc = "list"
              \/ Apart(a)
  <1> DEFINE t == [cmd[a] EXCEPT !.pc = "list", !.copy = {}]
             u == [cmd[a] EXCEPT !.pc = "load", !.copy = {}]
  <1>1. At(a, "mint") /\ UNCHANGED destVars
    BY DEF MintSave
  <1>2. /\ CmdType /\ cmd[a] \in CommandType /\ Sound(a, cmd[a])
        /\ cmd[a].kind \in {"read", "setup", "delete", "start"}
        /\ ~cmd[a].touched => Seen(cmd[a])
    BY <1>1, Minting
  <1>3. /\ cmd[a].kind = "read" => SavedBy(a, Idle)
        /\ cmd[a].kind = "start" => SavedBy(a, t)
        /\ cmd[a].kind \in {"setup", "delete"} => SavedBy(a, u)
    BY DEF MintSave
  <1>4. CASE cmd[a].kind = "read"
    <2>1. /\ Idle \in CommandType /\ Sound(a, Idle) /\ Seen(Idle)
          /\ Idle.pc = "idle" /\ Idle.kind = "none"
      BY IdleIsSound DEF Seen, Idle
    <2>2. Fits(a) /\ cmd'[a] = Idle /\ Shares(a) /\ CopyInv'
      BY <1>1, <1>3, <1>4, <2>1, SavedByFits
    <2>3. QED
      BY <1>4, <2>1, <2>2 DEF Apart, PidKinds
  <1>5. CASE cmd[a].kind = "start"
    <2>1. t \in CommandType /\ t.kind = "start" /\ t.pc = "list" /\ t.n = cmd[a].n
      BY <1>2, <1>5 DEF CommandType, Pcs
    <2>2. SavedBy(a, t)
      BY <1>3, <1>5
    <2> HIDE DEF t
    <2>3. Sound(a, t) /\ Seen(t)
      BY <1>2, <1>5, <2>1 DEF Sound, SyncPcs, Seen
    <2>4. Fits(a) /\ cmd'[a] = t /\ Shares(a) /\ CopyInv'
      BY <1>1, <2>1, <2>2, <2>3, SavedByFits
    <2>5. QED
      BY <1>1, <1>5, <2>1, <2>4 DEF PidKinds, At
  <1>6. CASE cmd[a].kind \in {"setup", "delete"}
    <2>1. /\ u \in CommandType /\ u.kind = cmd[a].kind /\ u.pc = "load"
          /\ u.p = cmd[a].p /\ u.force = cmd[a].force /\ u.touched = cmd[a].touched
          /\ u.n = cmd[a].n
      BY <1>2 DEF CommandType, Pcs
    <2>2. SavedBy(a, u)
      BY <1>3, <1>6
    <2> HIDE DEF u
    <2>3. Sound(a, u)
      BY <1>2, <1>6, <2>1 DEF Sound, SyncPcs
    <2>4. ~u.touched => Seen(u)
      BY <1>1, <1>2, <1>6, <2>1 DEF Seen, At
    <2>5. Fits(a) /\ cmd'[a] = u /\ Shares(a) /\ CopyInv'
      BY <1>1, <2>1, <2>2, <2>3, <2>4, SavedByFits
    <2>6. QED
      BY <1>6, <2>1, <2>5 DEF Apart, PidKinds
  <1>7. QED
    BY <1>2, <1>4, <1>5, <1>6

(***************************************************************************)
(* The steps without a command                                             *)
(***************************************************************************)

\* The same parts, after a step in which no command has a share.
LEMMA NoTurnParts ==
    ASSUME CInv, NoTurn, file' = file,
           \/ UNCHANGED destVars
           \/ \E d \in Dests :
                 /\ Changes(d)
                 /\ \A b \in Actors :
                       cmd[b].p.dest = d /\ Looked(cmd[b])
                       => cmd'[b].touched
    PROVE  CommandParts'
  <1>1. KindInv' /\ CmdType' /\ \A b \in Actors : Alike(b)
    BY NoTurnKeepsKinds DEF CInv, NoTurn
  <1>2. LookInv'
    <2>1. ASSUME NEW b \in Actors, ~cmd'[b].touched PROVE Seen(cmd[b])'
      BY <1>1, <2>1, OthersLook
    <2>2. QED
      BY <2>1 DEF LookInv
  <1>3. CopyInv'
    <2>1. ASSUME NEW b \in Actors, cmd'[b].pc \in {"save", "mint"} PROVE Copied(b)'
      <3>1. Alike(b)
        BY <1>1
      <3>2. Copied(b)
        BY <2>1, <3>1 DEF CInv, Alike, CopyInv, Copied, At
      <3>3. QED
        BY <2>1, <3>1, <3>2 DEF Alike, Copied
    <2>2. QED
      BY <2>1 DEF CopyInv, Copied, At, Distinct
  <1>4. DestInv' /\ DestinationType'
    <2>1. /\ DestinationType'
          /\ \A d \in Dests : Numbered(d)'
          /\ \A d \in Dests : dir[d].gen <= dir'[d].gen
          /\ \A d \in Dests : dir[d].gen \in Nat /\ dir'[d].gen \in Nat
      BY DestsStay
    <2>2. ASSUME NEW b \in Actors, cmd'[b].pc \in {"stat", "mark"}
          PROVE  cmd'[b].gen <= dir'[cmd'[b].p.dest].gen
      <3>1. Alike(b)
        BY <1>1
      <3>2. cmd[b].pc \in {"stat", "mark"} /\ cmd[b].pc \in SyncPcs
        BY <2>2, <3>1 DEF Alike, SyncPcs
      <3>3. /\ cmd[b].gen <= dir[cmd[b].p.dest].gen /\ cmd[b].p.dest \in Dests
            /\ cmd[b] \in CommandType
        BY <3>2, Syncing
      <3>4. cmd[b].gen \in Nat
        BY <3>3 DEF CommandType
      <3>5. QED
        BY <2>1, <3>1, <3>3, <3>4 DEF Alike
    <2>3. QED
      BY <2>1, <2>2 DEF DestInv, Numbered
  <1>5. QED
    BY <1>1, <1>2, <1>3, <1>4 DEF CommandParts

\* No command has a share in a step that changes none.
LEMMA SameCommands ==
    ASSUME CInv, UNCHANGED cmd PROVE NoTurn
  BY DEF CInv, TypeOK, CmdType, NoTurn, Alike

\* The pid file and the processes are as they were, or fewer run.
LEMMA NoTurnPid ==
    ASSUME CInv, NoTurn, Live' \subseteq Live, pidFile' = pidFile, raced' = raced
    PROVE  PidInv'
  <1>1. PidInv
    BY DEF CInv
  <1>2. \A b \in Clients :
           cmd'[b].kind = cmd[b].kind /\ cmd'[b].pc = cmd[b].pc /\ cmd'[b].n = cmd[b].n
    BY ClientsAct DEF NoTurn, Alike
  <1>3. ASSUME NEW b \in Clients, KnowsPid(b) PROVE KnowsPid(b)'
    BY <1>2, <1>3 DEF KnowsPid, At
  <1> HIDE DEF PidKinds, Live
  <1>4. QED
    BY <1>1, <1>2, <1>3 DEF PidInv

\* A mirror process has read its profiles.
LEMMA BootParts ==
    ASSUME CInv, NEW n \in Launches, Boot(n) PROVE CommandParts' /\ PidInv'
  <1>1. NoTurn /\ UNCHANGED <<file, destVars, pidFile, raced>>
    BY SameCommands DEF Boot, storeVars
  <1>2. Live' \subseteq Live
    BY DEF Boot, Live, CInv, TypeOK
  <1>3. QED
    BY <1>1, <1>2, NoTurnParts, NoTurnPid

\* Another program has the pid.
LEMMA ReusePidParts ==
    ASSUME CInv, NEW n \in Launches, ReusePid(n) PROVE CommandParts' /\ PidInv'
  <1>1. NoTurn /\ UNCHANGED <<file, destVars, pidFile, raced>>
    BY SameCommands DEF ReusePid, storeVars
  <1>2. Live' \subseteq Live
    BY DEF ReusePid, Live, CInv, TypeOK
  <1>3. QED
    BY <1>1, <1>2, NoTurnParts, NoTurnPid

\* A local root moves.
LEMMA MoveRootParts ==
    ASSUME CInv, NEW r \in Roots, MoveRoot(r) PROVE CommandParts' /\ PidInv'
  <1>1. NoTurn /\ UNCHANGED <<file, destVars, process, pidFile, raced>>
    BY SameCommands DEF MoveRoot, procVars
  <1>2. QED
    BY <1>1, LiveSame, NoTurnParts, NoTurnPid

\* Somebody replaces a destination.
LEMMA ReplaceParts ==
    ASSUME CInv, NEW d \in Dests, ReplaceDestination(d) PROVE CommandParts' /\ PidInv'
  <1>1. /\ UNCHANGED <<file, process, pidFile, raced>>
        /\ cmd' = [b \in Actors |->
                     IF cmd[b].p.dest = d /\ Looked(cmd[b])
                     THEN [cmd[b] EXCEPT !.touched = TRUE] ELSE cmd[b]]
    BY DEF ReplaceDestination, Outdated, storeVars, procVars
  <1>2. \A b \in Actors : cmd[b] \in CommandType
    BY DEF CInv, TypeOK
  <1>3. Changes(d)
    BY ReplaceChanges DEF ReplaceDestination
  <1>4. ASSUME NEW b \in Actors
        PROVE  /\ Alike(b) /\ cmd'[b] \in CommandType
               /\ cmd[b].p.dest = d /\ Looked(cmd[b])
                  => cmd'[b].touched
    <2>1. cmd[b] \in CommandType
      BY <1>2
    <2>2. CASE cmd[b].p.dest = d /\ Looked(cmd[b])
      <3>1. cmd'[b] = [cmd[b] EXCEPT !.touched = TRUE]
        BY <1>1, <2>2
      <3>2. QED
        BY <2>1, <3>1 DEF Alike, CommandType
    <2>3. CASE ~(cmd[b].p.dest = d /\ Looked(cmd[b]))
      <3>1. cmd'[b] = cmd[b]
        BY <1>1, <2>3
      <3>2. QED
        BY <2>1, <2>3, <3>1 DEF Alike
    <2>4. QED
      BY <2>2, <2>3
  <1>5. NoTurn
    <2>1. cmd' = [b \in Actors |-> cmd'[b]]
      BY <1>1
    <2>2. CmdType'
      BY <1>4, <2>1 DEF CmdType
    <2>3. QED
      BY <1>4, <2>2 DEF NoTurn
  <1>6. QED
    BY <1>1, <1>3, <1>4, <1>5, LiveSame, NoTurnParts, NoTurnPid

\* A mirror process ends, with the sync that it was at.
LEMMA DieParts ==
    ASSUME CInv, NEW n \in Launches, Die(n) PROVE CommandParts' /\ PidInv'
  <1>1. n \in Actors /\ CmdType /\ n \notin Clients
    BY Here, ClientsAct DEF Actors
  <1>2. Ended(n) /\ UNCHANGED <<file, destVars, pidFile, raced>>
    BY DEF Die, storeVars
  <1>3. Fits(n) /\ Shares(n) /\ Turn(n)
    BY <1>1, <1>2, EndFits DEF Shares, Fits
  <1>4. Live' \subseteq Live
    BY DEF Die, Live, CInv, TypeOK
  <1>5. QED
    BY <1>1, <1>2, <1>3, <1>4, StepParts, PidApart

\* A step fails, or is interrupted.
LEMMA FailParts ==
    ASSUME CInv, NEW a \in Actors, Fail(a) PROVE CommandParts' /\ PidInv'
  <1>1. CmdType
    BY Here
  <1>2. /\ Ended(a) /\ UNCHANGED <<file, destVars, pidFile>>
        /\ process' = Orphaned(a)
        /\ raced' = (raced \/ cmd[a].kind \in PidKinds)
    BY DEF Fail, storeVars
  <1>3. Fits(a) /\ Shares(a) /\ Turn(a) /\ cmd'[a] = Idle
    BY <1>1, <1>2, EndFits DEF Shares, Fits
  <1>4. CommandParts'
    BY <1>2, <1>3, StepParts
  <1>5. CASE cmd[a].kind \in PidKinds
    BY <1>2, <1>4, <1>5 DEF PidInv
  <1>6. CASE cmd[a].kind \notin PidKinds
    <2>1. Live' = Live
      BY <1>2, OrphansDead
    <2>2. Apart(a)
      BY <1>3, <1>6 DEF Apart, Idle, PidKinds
    <2>3. raced' = raced
      BY <1>2, <1>6 DEF CInv, TypeOK
    <2>4. QED
      BY <1>2, <1>3, <1>4, <2>1, <2>2, <2>3, PidApart
  <1>7. QED
    BY <1>5, <1>6

\* A sync of a mirror process begins.
LEMMA WatchBeginParts ==
    ASSUME CInv, NEW n \in Launches, WatchBegin(n) PROVE CommandParts' /\ PidInv'
  <1>1. n \in Actors /\ n \notin Clients
    BY ClientsAct DEF Actors
  <1>2. UNCHANGED <<file, destVars, process, pidFile, raced>>
    BY DEF WatchBegin, storeVars, procVars
  <1>3. Fits(n) /\ Shares(n) /\ Turn(n)
    BY <1>2, WatchBeginFits DEF Shares, Fits
  <1>4. QED
    BY <1>1, <1>2, <1>3, LiveSame, StepParts, PidApart

\* A load gives out ids, or saves those that it has given out.
LEMMA MintParts ==
    ASSUME CInv, NEW a \in Actors, MintLoad(a) \/ MintSave(a)
    PROVE  CommandParts' /\ PidInv'
  <1>1. UNCHANGED <<process, pidFile, raced>>
    BY DEF MintLoad, MintSave, procVars
  <1>2. /\ Fits(a) /\ Shares(a) /\ Turn(a)
        /\ \/ /\ cmd[a].kind \in PidKinds /\ cmd'[a].kind = cmd[a].kind
              /\ cmd[a].pc \in {"list", "mint"} /\ cmd'[a].pc \in {"list", "mint"}
           \/ Apart(a)
    BY MintLoadFits, MintSaveFits DEF Fits
  <1>3. CommandParts'
    <2>1. CASE MintLoad(a)
      <3>1. file' = file
        BY <2>1 DEF MintLoad, storeVars
      <3>2. QED
        BY <1>2, <3>1, StepParts
    <2>2. CASE MintSave(a)
      <3>1. KindInv' /\ CmdType'
        BY <1>2, TurnKeepsKinds DEF CInv, Turn
      <3>2. QED
        BY <1>2, <2>2, <3>1, MintSaveFits, StepLooks, StepDests DEF CommandParts
    <2>3. QED
      BY <2>1, <2>2
  <1>4. Live' = Live
    BY <1>1, LiveSame
  <1>5. PidInv'
    <2>1. CASE Apart(a)
      BY <1>1, <1>2, <1>4, <2>1, PidApart
    <2>2. CASE /\ cmd[a].kind \in PidKinds /\ cmd'[a].kind = cmd[a].kind
               /\ cmd[a].pc \in {"list", "mint"} /\ cmd'[a].pc \in {"list", "mint"}
      <3>1. a \in Clients
        BY <2>2, Here DEF Actors, Sound, PidKinds
      <3>2. KnowsPid(a) => KnowsPid(a)'
        BY <1>1, <1>4, <2>2 DEF KnowsPid, At
      <3>3. cmd[a].kind \in PidKinds /\ cmd'[a].kind \in PidKinds
        BY <2>2
      <3> HIDE DEF PidKinds
      <3>4. QED
        BY <1>1, <1>2, <3>1, <3>2, <3>3, PidAlone, PidAfter
    <2>3. QED
      BY <1>2, <2>1, <2>2
  <1>6. QED
    BY <1>3, <1>5

(***************************************************************************)
(* The invariant holds                                                     *)
(***************************************************************************)

\* A command begins.
LEMMA CommandBeginParts ==
    ASSUME CInv, NEW c \in Clients, CommandBegin(c) PROVE CommandParts' /\ PidInv'
  <1>1. c \in Actors
    BY ClientsAct
  <1>2. CASE \/ SetupBegin(c) \/ EditBegin(c) \/ DeleteBegin(c) \/ SyncBegin(c)
             \/ UseBegin(c)
    <2>1. UNCHANGED <<file, destVars, process, pidFile, raced>>
      BY <1>2 DEF SetupBegin, EditBegin, DeleteBegin, SyncBegin, UseBegin, storeVars,
         procVars
    <2>2. Fits(c) /\ Apart(c)
      BY <1>2, SetupBeginFits, EditBeginFits, DeleteBeginFits, SyncBeginFits, UseBeginFits
    <2>3. Turn(c) /\ Shares(c)
      BY <2>1, <2>2 DEF Fits, Shares
    <2>4. QED
      BY <1>1, <2>1, <2>2, <2>3, LiveSame, StepParts, PidApart
  <1>3. CASE FixBegin(c) \/ StartBegin(c) \/ StopBegin(c)
    <2>1. UNCHANGED <<file, destVars>>
      BY <1>3 DEF FixBegin, StartBegin, StopBegin, storeVars
    <2>2. Fits(c) /\ PidInv' /\ Shares(c)
      BY <1>3, <2>1, FixBeginPid, StartBeginPid, StopBeginPid DEF Shares
    <2>3. QED
      BY <1>1, <2>1, <2>2, StepParts
  <1>4. QED
    BY <1>2, <1>3 DEF CommandBegin

\* A step of setup, of delete, or of an edit.
LEMMA StoreStepParts ==
    ASSUME CInv, NEW c \in Clients, StoreStep(c) PROVE CommandParts' /\ PidInv'
  <1>1. c \in Actors
    BY ClientsAct
  <1>2. UNCHANGED <<process, pidFile, raced>>
    BY DEF StoreStep, SetupLook, SetupRead, DeleteRead, DeleteCompare, DeleteRemove, Load,
       Save, procVars
  <1>3. CASE Save(c)
    <2>1. Fits(c) /\ Apart(c) /\ Shares(c) /\ CopyInv'
      BY <1>3, SaveFits
    <2>2. KindInv' /\ CmdType' /\ Turn(c)
      BY <1>1, <2>1, TurnKeepsKinds DEF CInv, Fits, Turn
    <2>3. CommandParts'
      BY <1>1, <2>1, <2>2, StepLooks, StepDests DEF CommandParts
    <2>4. QED
      BY <1>1, <1>2, <2>1, <2>2, <2>3, LiveSame, PidApart
  <1>4. CASE \/ SetupLook(c) \/ SetupRead(c) \/ DeleteRead(c) \/ DeleteCompare(c)
             \/ DeleteRemove(c) \/ Load(c)
    <2>1. file' = file
      BY <1>4 DEF SetupLook, SetupRead, DeleteRead, DeleteCompare, DeleteRemove, Load,
         storeVars
    <2>2. Fits(c) /\ Apart(c)
      BY <1>4, SetupLookFits, SetupReadFits, DeleteReadFits, DeleteCompareFits,
         DeleteRemoveFits, LoadFits
    <2>3. Shares(c)
      BY <1>4, DeleteRemoveFits DEF Shares, SetupLook, SetupRead, DeleteRead, DeleteCompare,
         Load
    <2>4. Turn(c)
      BY <2>2 DEF Fits
    <2>5. QED
      BY <1>1, <1>2, <2>1, <2>2, <2>3, <2>4, LiveSame, StepParts, PidApart
  <1>5. QED
    BY <1>3, <1>4 DEF StoreStep

\* A step of shell, exec or services.
LEMMA UseStepParts ==
    ASSUME CInv, NEW c \in Clients, UseStep(c) PROVE CommandParts' /\ PidInv'
  <1>1. c \in Actors
    BY ClientsAct
  <1>2. UNCHANGED <<file, process, pidFile, raced>>
    BY DEF UseStep, ReadyLook, AutoLook, UseRead, Use, storeVars, procVars
  <1>3. Fits(c) /\ Apart(c) /\ Shares(c) /\ Turn(c)
    BY UseStepFits DEF Shares, Fits
  <1>4. QED
    BY <1>1, <1>2, <1>3, LiveSame, StepParts, PidApart

\* A step of a sync.
LEMMA SyncStepParts ==
    ASSUME CInv, NEW a \in Actors, SyncStep(a) PROVE CommandParts' /\ PidInv'
  <1>1. UNCHANGED <<file, process, pidFile, raced>>
    BY DEF SyncStep, SyncPrepare, SyncCopy, SyncStat, SyncMark, storeVars, procVars
  <1>2. Fits(a) /\ Apart(a) /\ Shares(a) /\ Turn(a)
    BY SyncStepFits DEF Fits
  <1>3. QED
    BY <1>1, <1>2, LiveSame, StepParts, PidApart

\* A step about the pid file.
LEMMA PidStepParts ==
    ASSUME CInv, NEW c \in Clients, PidStep(c) PROVE CommandParts' /\ PidInv'
  <1>1. file' = file
    BY DEF PidStep, StartList, StartLaunch, StartWrite, StartCheck, StopKill, StopWait,
       Unlink, FixPid, FixLook, FixRead, FixEnsure, storeVars
  <1>2. QED
    BY <1>1, ClientsAct, PidStepPid, StepParts

\* Any step, for the commands, the destinations and the pid file.
LEMMA NextParts ==
    ASSUME CInv, Next PROVE CommandParts' /\ PidInv'
  <1>1. ASSUME NEW c \in Clients,
               CommandBegin(c) \/ StoreStep(c) \/ UseStep(c) \/ PidStep(c)
        PROVE  CommandParts' /\ PidInv'
    BY <1>1, CommandBeginParts, StoreStepParts, UseStepParts, PidStepParts
  <1>2. ASSUME NEW a \in Actors, MintLoad(a) \/ MintSave(a) \/ SyncStep(a) \/ Fail(a)
        PROVE  CommandParts' /\ PidInv'
    BY <1>2, MintParts, SyncStepParts, FailParts
  <1>3. ASSUME NEW n \in Launches, Boot(n) \/ WatchBegin(n) \/ Die(n) \/ ReusePid(n)
        PROVE  CommandParts' /\ PidInv'
    BY <1>3, BootParts, WatchBeginParts, DieParts, ReusePidParts
  <1>4. QED
    BY <1>1, <1>2, <1>3, ReplaceParts, MoveRootParts DEF Next

\* The rest of the state: the file, what the mirror processes are, and what
\* they serve.
Processes == [Launches -> {"unborn", "booting", "watching", "told", "zombie", "gone",
                           "foreign"}]
FileParts == StoreType /\ Distinct(file)
ProcessParts ==
    /\ process \in Processes
    /\ served \in [Launches -> SUBSET Profiles]
    /\ ServedInv
    /\ pidFile \in Launches \cup {NoPid}
    /\ launched \in 0..MaxLaunches /\ raced \in BOOLEAN
CountParts == commands \in 0..MaxCommands /\ outside \in 0..MaxOutside

\* The invariant, taken apart.
LEMMA Parts ==
    CInv <=> CommandParts /\ PidInv /\ FileParts /\ ProcessParts /\ CountParts
  BY DEF CInv, TypeOK, CommandParts, CmdType, FileParts, ProcessParts, CountParts, Processes

\* Only saving changes the file.
LEMMA NextFile ==
    ASSUME CInv, Next PROVE FileParts'
  <1>1. FileParts
    BY Parts
  <1>2. CASE UNCHANGED storeVars
    BY <1>1, <1>2 DEF storeVars, FileParts, StoreType, Distinct
  <1>3. CASE \E c \in Clients : Save(c)
    <2>1. PICK c \in Clients : Save(c)
      BY <1>3
    <2>2. file' \in SUBSET Profiles /\ Distinct(file')
      BY <2>1, SaveFits
    <2>3. present' = present
      BY <2>1 DEF Save
    <2>4. QED
      BY <1>1, <2>2, <2>3 DEF FileParts, StoreType, Distinct
  <1>4. CASE \E r \in Roots : MoveRoot(r)
    BY <1>1, <1>4 DEF MoveRoot, FileParts, StoreType, Distinct
  <1>4a. CASE \E a \in Actors : MintSave(a)
    <2>1. PICK a \in Actors : MintSave(a)
      BY <1>4a
    <2>2. file' \in SUBSET Profiles /\ Distinct(file')
      BY <2>1, Minting DEF MintSave
    <2>3. present' = present
      BY <2>1 DEF MintSave
    <2>4. QED
      BY <1>1, <2>2, <2>3 DEF FileParts, StoreType, Distinct
  <1>5. \/ UNCHANGED storeVars
        \/ (\E c \in Clients : Save(c)) \/ (\E a \in Actors : MintSave(a))
        \/ (\E r \in Roots : MoveRoot(r))
    BY DEF Next, CommandBegin, SetupBegin, EditBegin, DeleteBegin, SyncBegin, UseBegin,
       FixBegin, StartBegin, StopBegin, StoreStep, SetupLook, SetupRead, DeleteRead,
       DeleteCompare, DeleteRemove, Load, UseStep, ReadyLook, AutoLook, UseRead, Use,
       PidStep, StartList, StartLaunch, StartWrite, StartCheck, StopKill, StopWait, Unlink,
       FixPid, FixLook, FixRead, FixEnsure, SyncStep, SyncPrepare, SyncCopy, SyncStat,
       SyncMark, MintLoad, Fail, Boot, WatchBegin, Die, ReusePid, ReplaceDestination
  <1>6. QED
    BY <1>2, <1>3, <1>4, <1>4a, <1>5

\* Mirror processes are launched, boot, are told, end and are reaped.
LEMMA NextProcesses ==
    ASSUME CInv, Next PROVE ProcessParts'
  <1>1. ProcessParts
    BY Parts
  <1>2. CASE UNCHANGED <<process, served, pidFile, launched>> /\ raced' \in BOOLEAN
    BY <1>1, <1>2 DEF ProcessParts, ServedInv
  <1>3. ASSUME NEW c \in Clients, StartLaunch(c) PROVE ProcessParts'
    <2>1. launched + 1 \in Launches
      BY <1>1, <1>3, BoundsAssumption DEF StartLaunch, ProcessParts, Launches
    <2>2. process' \in Processes /\ launched' \in 0..MaxLaunches
      BY <1>1, <1>3, <2>1 DEF StartLaunch, ProcessParts, Processes, Launches
    <2>3. QED
      BY <1>1, <1>3, <2>2 DEF StartLaunch, ProcessParts, ServedInv
  <1>4. ASSUME NEW c \in Clients, StartWrite(c) PROVE ProcessParts'
    <2>1. cmd[c].n \in Launches
      BY <1>4, PidPlaces DEF StartWrite, At, PidPcs, Sound
    <2>2. QED
      BY <1>1, <1>4, <2>1 DEF StartWrite, ProcessParts, ServedInv
  <1>5. ASSUME NEW c \in Clients, StartCheck(c) PROVE ProcessParts'
    <2>1. process' \in Processes
      BY <1>5, OrphansDead, ClientsAct DEF StartCheck, Processes
    <2>2. QED
      BY <1>1, <1>5, <2>1 DEF StartCheck, ProcessParts, ServedInv
  <1>6. ASSUME NEW c \in Clients, StopKill(c) PROVE ProcessParts'
    <2>1. process' \in Processes
      BY <1>1, <1>6 DEF StopKill, ProcessParts, Processes
    <2>2. QED
      BY <1>1, <1>6, <2>1 DEF StopKill, ProcessParts, ServedInv
  <1>7. ASSUME NEW c \in Clients, Unlink(c) PROVE ProcessParts'
    BY <1>1, <1>7 DEF Unlink, ProcessParts, ServedInv
  <1>8. ASSUME NEW a \in Actors, Fail(a) PROVE ProcessParts'
    <2>1. process' \in Processes
      BY <1>8, OrphansDead DEF Fail, Processes
    <2>2. QED
      BY <1>1, <1>8, <2>1 DEF Fail, ProcessParts, ServedInv
  <1>9. ASSUME NEW n \in Launches, Boot(n) PROVE ProcessParts'
    <2>1. process' \in Processes
      BY <1>1, <1>9 DEF Boot, ProcessParts, Processes
    <2>2. Enabled(file) \in SUBSET Profiles /\ \A p \in Enabled(file) : p.id # NoId
      BY <1>9, HaveIds DEF Boot, Enabled
    <2>3. served' = [served EXCEPT ![n] = Enabled(file)]
      BY <1>9 DEF Boot
    <2>4. served' \in [Launches -> SUBSET Profiles] /\ ServedInv'
      BY <1>1, <2>2, <2>3 DEF ProcessParts, ServedInv
    <2>5. QED
      BY <1>1, <1>9, <2>1, <2>4 DEF Boot, ProcessParts
  <1>10. ASSUME NEW n \in Launches, Die(n) PROVE ProcessParts'
    <2>1. process' \in Processes
      BY <1>1, <1>10 DEF Die, ProcessParts, Processes
    <2>2. served' \in [Launches -> SUBSET Profiles] /\ ServedInv'
      BY <1>1, <1>10 DEF Die, ProcessParts, ServedInv
    <2>3. QED
      BY <1>1, <1>10, <2>1, <2>2 DEF Die, ProcessParts
  <1>11. ASSUME NEW n \in Launches, ReusePid(n) PROVE ProcessParts'
    BY <1>1, <1>11 DEF ReusePid, ProcessParts, Processes, ServedInv
  <1>12. raced \in BOOLEAN
    BY <1>1 DEF ProcessParts
  <1>13. ASSUME NEW c \in Clients, CommandBegin(c) PROVE ProcessParts'
    <2>1. UNCHANGED <<process, served, pidFile, launched>> /\ raced' \in BOOLEAN
      BY <1>12, <1>13 DEF CommandBegin, SetupBegin, EditBegin, DeleteBegin, SyncBegin,
         UseBegin, FixBegin, StartBegin, StopBegin, Overlap, procVars
    <2>2. QED
      BY <1>2, <2>1
  <1>14. ASSUME NEW c \in Clients, StoreStep(c) \/ UseStep(c) PROVE ProcessParts'
    <2>1. UNCHANGED <<process, served, pidFile, launched>> /\ raced' \in BOOLEAN
      BY <1>12, <1>14 DEF StoreStep, SetupLook, SetupRead, DeleteRead, DeleteCompare,
         DeleteRemove, Load, Save, UseStep, ReadyLook, AutoLook, UseRead, Use, procVars
    <2>2. QED
      BY <1>2, <2>1
  <1>15. ASSUME NEW c \in Clients, \/ StartList(c) \/ StopWait(c) \/ FixPid(c)
                                   \/ FixLook(c) \/ FixRead(c) \/ FixEnsure(c)
         PROVE  ProcessParts'
    <2>1. UNCHANGED <<process, served, pidFile, launched>> /\ raced' \in BOOLEAN
      BY <1>12, <1>15 DEF StartList, StopWait, FixPid, FixLook, FixRead, FixEnsure, procVars
    <2>2. QED
      BY <1>2, <2>1
  <1>16. ASSUME NEW a \in Actors, SyncStep(a) \/ MintLoad(a) \/ MintSave(a)
         PROVE  ProcessParts'
    <2>1. UNCHANGED <<process, served, pidFile, launched>> /\ raced' \in BOOLEAN
      BY <1>12, <1>16 DEF SyncStep, SyncPrepare, SyncCopy, SyncStat, SyncMark, MintLoad,
         MintSave, procVars
    <2>2. QED
      BY <1>2, <2>1
  <1>17. ASSUME NEW n \in Launches, WatchBegin(n) PROVE ProcessParts'
    <2>1. UNCHANGED <<process, served, pidFile, launched>> /\ raced' \in BOOLEAN
      BY <1>12, <1>17 DEF WatchBegin, procVars
    <2>2. QED
      BY <1>2, <2>1
  <1>18. ASSUME NEW x, ReplaceDestination(x) \/ MoveRoot(x) PROVE ProcessParts'
    <2>1. UNCHANGED <<process, served, pidFile, launched>> /\ raced' \in BOOLEAN
      BY <1>12, <1>18 DEF ReplaceDestination, MoveRoot, procVars
    <2>2. QED
      BY <1>2, <2>1
  <1>19. QED
    BY <1>3, <1>4, <1>5, <1>6, <1>7, <1>8, <1>9, <1>10, <1>11, <1>13, <1>14, <1>15, <1>16,
       <1>17, <1>18 DEF Next, PidStep

\* The counters stay within their bounds.
LEMMA NextCounts ==
    ASSUME CInv, Next PROVE CountParts'
  <1>1. CountParts
    BY Parts
  <1>2. CASE UNCHANGED <<commands, outside>>
    BY <1>1, <1>2 DEF CountParts
  <1>3. CASE BoundLeft /\ commands' = commands + 1 /\ outside' = outside
    BY <1>1, <1>3, BoundsAssumption DEF CountParts, BoundLeft
  <1>4. CASE outside < MaxOutside /\ outside' = outside + 1 /\ commands' = commands
    BY <1>1, <1>4, BoundsAssumption DEF CountParts
  <1>5. ASSUME NEW c \in Clients, CommandBegin(c) PROVE CountParts'
    BY <1>3, <1>5 DEF CommandBegin, SetupBegin, EditBegin, DeleteBegin, SyncBegin, UseBegin,
       FixBegin, StartBegin, StopBegin, Begin
  <1>6. ASSUME NEW c \in Clients, StoreStep(c) \/ UseStep(c) PROVE CountParts'
    BY <1>2, <1>6 DEF StoreStep, SetupLook, SetupRead, DeleteRead, DeleteCompare,
       DeleteRemove, Load, Save, UseStep, ReadyLook, AutoLook, UseRead, Use
  <1>7. ASSUME NEW c \in Clients, PidStep(c) PROVE CountParts'
    BY <1>2, <1>7 DEF PidStep, StartList, StartLaunch, StartWrite, StartCheck, StopKill,
       StopWait, Unlink, FixPid, FixLook, FixRead, FixEnsure
  <1>8. ASSUME NEW a \in Actors, SyncStep(a) \/ MintLoad(a) \/ MintSave(a) \/ Fail(a)
        PROVE  CountParts'
    <2>1. CASE MintLoad(a)
      BY <1>2, <1>3, <2>1 DEF MintLoad
    <2>2. CASE SyncStep(a) \/ MintSave(a) \/ Fail(a)
      BY <1>2, <2>2 DEF SyncStep, SyncPrepare, SyncCopy, SyncStat, SyncMark, MintSave, Fail
    <2>3. QED
      BY <1>8, <2>1, <2>2
  <1>9. ASSUME NEW n \in Launches, Boot(n) \/ Die(n) PROVE CountParts'
    BY <1>2, <1>9 DEF Boot, Die
  <1>10. ASSUME NEW n \in Launches, WatchBegin(n) PROVE CountParts'
    BY <1>3, <1>10 DEF WatchBegin, Begin
  <1>11. ASSUME NEW x, ReplaceDestination(x) \/ MoveRoot(x) \/ ReusePid(x) PROVE CountParts'
    BY <1>4, <1>11 DEF ReplaceDestination, MoveRoot, ReusePid, Outside
  <1>12. QED
    BY <1>5, <1>6, <1>7, <1>8, <1>9, <1>10, <1>11 DEF Next

\* It holds at the start.
LEMMA InitCInv ==
    ASSUME Init PROVE CInv
  <1>1. /\ cmd = [a \in Actors |-> Idle] /\ \A a \in Actors : cmd[a] = Idle
        /\ Idle \in CommandType /\ Idle.pc = "idle" /\ Idle.kind = "none"
    BY IdleIsSound DEF Init, Idle
  <1>2. CmdType /\ KindInv
    BY <1>1, IdleIsSound DEF CmdType, KindInv
  <1>3. /\ DestinationType
        /\ \A d \in Dests : Numbered(d)
    <2>1. NoMarker.gen = 0 /\ NoMarker.intact = FALSE
      BY DEF NoMarker
    <2>2. file \subseteq Profiles
      BY DEF Init
    <2>3. ASSUME NEW d \in Dests
          PROVE  /\ dir[d] \in Dir /\ dir[d].gen = 1
                 /\ marker[d] \in MarkerType /\ marker[d].gen <= 1
                 /\ marker[d] # NoMarker => dir[d].kind = "dir"
                 /\ owner[d] = IF marker[d] = NoMarker THEN NoOwner ELSE Owner(marker[d])
                 /\ owner[d] \in OwnerType
      <3>1. dir[d] \in Dir /\ dir[d].gen = 1
        <4>1. PICK inode \in Inodes :
                 dir \in [Dests -> {[kind |-> "missing", inode |-> NoInode, gen |-> 1,
                                     full |-> FALSE]}
                            \cup {[kind |-> k, inode |-> inode, gen |-> 1, full |-> k = "dir"] :
                                     k \in {"dir", "other"}}]
          BY DEF Init
        <4>2. \/ dir[d] = [kind |-> "missing", inode |-> NoInode, gen |-> 1, full |-> FALSE]
              \/ \E k \in {"dir", "other"} :
                    dir[d] = [kind |-> k, inode |-> inode, gen |-> 1, full |-> k = "dir"]
          BY <4>1
        <4>3. CASE dir[d] = [kind |-> "missing", inode |-> NoInode, gen |-> 1, full |-> FALSE]
          BY <4>3 DEF Dir
        <4>4. CASE \E k \in {"dir", "other"} :
                      dir[d] = [kind |-> k, inode |-> inode, gen |-> 1, full |-> k = "dir"]
          <5>1. PICK k \in {"dir", "other"} :
                   dir[d] = [kind |-> k, inode |-> inode, gen |-> 1, full |-> k = "dir"]
            BY <4>4
          <5>2. CASE k = "dir"
            <6>1. dir[d] = [kind |-> "dir", inode |-> inode, gen |-> 1, full |-> TRUE]
              BY <5>1, <5>2
            <6>2. QED
              BY <6>1 DEF Dir
          <5>3. CASE k = "other"
            <6>1. dir[d] = [kind |-> "other", inode |-> inode, gen |-> 1, full |-> FALSE]
              BY <5>1, <5>3
            <6>2. QED
              BY <6>1 DEF Dir
          <5>4. QED
            BY <5>2, <5>3
        <4>5. QED
          BY <4>2, <4>3, <4>4
      <3>2. marker[d] = NoMarker \/ \E p \in Profiles :
               marker[d] = Marker(p, NoInode, 1, TRUE) /\ dir[d].kind = "dir"
        <4>1. marker[d] \in OldMarkers(d)
          BY DEF Init
        <4>2. QED
          BY <2>2, <4>1 DEF OldMarkers
      <3>3. owner[d] = IF marker[d] = NoMarker THEN NoOwner ELSE Owner(marker[d])
        BY DEF Init
      <3>4. CASE marker[d] = NoMarker
        BY <2>1, <3>1, <3>3, <3>4 DEF MarkerType, OwnerType
      <3>5. CASE marker[d] # NoMarker
        <4>1. PICK p \in Profiles :
                 marker[d] = Marker(p, NoInode, 1, TRUE) /\ dir[d].kind = "dir"
          BY <3>2, <3>5
        <4> DEFINE m == Marker(p, NoInode, 1, TRUE)
        <4>2. m \in MarkerType /\ m.gen = 1 /\ Owner(m) \in OwnerType
          BY DEF Marker, MarkerType, Owner, OwnerType, Profiles
        <4>3. marker[d] = m /\ dir[d].kind = "dir"
          BY <4>1
        <4> HIDE DEF m
        <4>4. marker[d] \in MarkerType /\ marker[d].gen <= 1
          BY <4>2, <4>3
        <4>5. owner[d] = Owner(m)
          BY <3>3, <3>5, <4>3
        <4>6. owner[d] \in OwnerType
          BY <4>2, <4>5
        <4>7. QED
          BY <3>1, <3>3, <4>3, <4>4, <4>6
      <3>6. QED
        BY <3>4, <3>5
    <2>4. DestinationType
      <3>1. /\ dir = [d \in Dests |-> dir[d]] /\ marker = [d \in Dests |-> marker[d]]
            /\ owner = [d \in Dests |-> owner[d]]
        BY DEF Init
      <3>2. QED
        BY <2>3, <3>1 DEF DestinationType, MarkerType, OwnerType
    <2>5. \A d \in Dests : Numbered(d)
      BY <2>1, <2>3 DEF Numbered, MarkerCurrent
    <2>6. QED
      BY <2>4, <2>5
  <1>4. DestInv
    BY <1>1, <1>3 DEF DestInv, Numbered
  <1>5. LookInv
    BY <1>1 DEF LookInv, Seen
  <1>6. CopyInv
    BY <1>1 DEF CopyInv, At
  <1>7. Live = {}
    BY DEF Init, Live
  <1>8. PidInv
    <2>1. \A c \in Clients : cmd[c].kind \notin PidKinds
      BY <1>1, ClientsAct DEF PidKinds
    <2>2. QED
      BY <1>7, <2>1 DEF PidInv
  <1>9. FileParts
    BY DEF Init, FileParts, StoreType, Distinct
  <1>10. ProcessParts
    <2>1. process \in Processes /\ served \in [Launches -> SUBSET Profiles]
      BY DEF Init, Processes
    <2>2. ServedInv
      BY DEF Init, ServedInv
    <2>3. launched \in 0..MaxLaunches /\ pidFile \in Launches \cup {NoPid}
      BY BoundsAssumption DEF Init
    <2>4. raced \in BOOLEAN
      BY DEF Init
    <2>5. QED
      BY <2>1, <2>2, <2>3, <2>4 DEF ProcessParts
  <1>11. CountParts
    BY BoundsAssumption DEF Init, CountParts
  <1>12. QED
    BY <1>2, <1>3, <1>4, <1>5, <1>6, <1>8, <1>9, <1>10, <1>11, Parts DEF CommandParts

\* And every step keeps it.
LEMMA StepCInv ==
    ASSUME CInv, [Next]_vars PROVE CInv'
  <1>1. CASE Next
    <2>1. /\ CommandParts' /\ PidInv' /\ FileParts' /\ ProcessParts' /\ CountParts'
      BY <1>1, NextParts, NextFile, NextProcesses, NextCounts
    <2>2. QED
      BY <2>1 DEF CInv, TypeOK, CommandParts, CmdType, FileParts, ProcessParts, CountParts,
         Processes
  <1>2. CASE UNCHANGED vars
    <2>1. CommandParts' /\ PidInv'
      BY <1>2, SameCommands, NoTurnParts, NoTurnPid, LiveSame DEF vars, destVars
    <2>2. FileParts /\ ProcessParts /\ CountParts
      BY Parts
    <2>3. FileParts' /\ ProcessParts' /\ CountParts'
      BY <1>2, <2>2 DEF vars, FileParts, StoreType, Distinct, ProcessParts, ServedInv,
         CountParts
    <2>4. QED
      BY <2>1, <2>3 DEF CInv, TypeOK, CommandParts, CmdType, FileParts, ProcessParts,
         CountParts, Processes
  <1>3. QED
    BY <1>1, <1>2

\* The invariant of the mirror commands.
LEMMA CommandsInvariant == Spec => []CInv
  BY InitCInv, StepCInv, PTL DEF Spec

(***************************************************************************)
(* The theorems                                                            *)
(***************************************************************************)

\* Every variable has its type, and no two profiles in the file ever have one
\* id, however the loads and saves of several tools interleave.
THEOREM CommandTypes == Spec => []TypeOK
  <1>1. CInv => TypeOK
    BY DEF CInv
  <1>2. QED
    BY <1>1, CommandsInvariant, PTL

\* A background mirror that runs is the one that the pid file names, unless
\* commands about that file overlapped or one of them was cut off.
THEOREM MirrorsAreNamed == Spec => []StopReaches
  <1>1. CInv => StopReaches
    <2> HIDE DEF PidKinds, Live
    <2>1. QED
      BY DEF CInv, PidInv, StopReaches
  <1>2. QED
    BY <1>1, CommandsInvariant, PTL

\* A profile leaves the file, or changes in it, only by the save of a command
\* about that profile, or of one that deletes by an id that has gone and is the
\* name of this profile; a load that gives out ids gives this one its id, and
\* no more.  The exceptions are saves of a file that was an old one.
THEOREM ProfilesAreKept == Spec => SavesKeepOthers
  <1> DEFINE BySave(p) ==
                \E c \in Clients : At(c, "save") /\ (IsAbout(cmd[c], p) \/ cmd[c].stale)
             ByMint(p) ==
                \E a \in Actors : At(a, "mint") /\ (Renumbered(p) \/ cmd[a].stale)
  <1>1. ASSUME CInv, NEW c \in Clients, Save(c), NEW p \in file \ file' PROVE BySave(p)
    <2>1. At(c, "save")
      BY <1>1 DEF Save
    <2>2. \A q \in cmd[c].copy : ~IsAbout(cmd[c], q) => q \in file'
      BY <1>1, SavedFile
    <2>3. ~cmd[c].stale => cmd[c].copy = file
      BY <1>1, <2>1, Saving
    <2>4. IsAbout(cmd[c], p) \/ cmd[c].stale
      BY <2>2, <2>3
    <2>5. QED
      BY <2>1, <2>4
  <1>2. ASSUME CInv, NEW a \in Actors, MintSave(a), NEW p \in file \ file' PROVE ByMint(p)
    <2>1. At(a, "mint") /\ file' = cmd[a].copy
      BY <1>2 DEF MintSave
    <2>2. ~cmd[a].stale => file' \in Minted(file)
      BY <1>2, <2>1, Minting
    <2>3. file \in SUBSET Profiles /\ Distinct(file)
      BY <1>2, HaveIds DEF CInv, TypeOK, StoreType
    <2>4. ~cmd[a].stale => Renumbered(p)
      BY <2>2, <2>3, MintedDistinct DEF Renumbered
    <2>5. QED
      BY <2>1, <2>4
  <1>3. ASSUME CInv, [Next]_vars, NEW p \in file \ file' PROVE BySave(p) \/ ByMint(p)
    <2>1. \/ file' = file
          \/ \E c \in Clients : Save(c)
          \/ \E a \in Actors : MintSave(a)
      BY <1>3 DEF Next, CommandBegin, SetupBegin, EditBegin, DeleteBegin, SyncBegin,
         UseBegin, FixBegin, StartBegin, StopBegin, StoreStep, SetupLook, SetupRead,
         DeleteRead, DeleteCompare, DeleteRemove, Load, MintLoad, UseStep, ReadyLook,
         AutoLook, UseRead, Use, PidStep, StartList, StartLaunch, StartWrite, StartCheck,
         StopKill, StopWait, Unlink, FixPid, FixLook, FixRead, FixEnsure, SyncStep,
         SyncPrepare, SyncCopy, SyncStat, SyncMark, Fail, Boot, WatchBegin, Die, ReusePid,
         ReplaceDestination, MoveRoot, storeVars, vars
    <2>2. QED
      BY <1>1, <1>2, <1>3, <2>1
  <1>4. CInv /\ [Next]_vars =>
           [\A p \in file \ file' :
              \/ \E c \in Clients : At(c, "save") /\ (IsAbout(cmd[c], p) \/ cmd[c].stale)
              \/ \E a \in Actors : At(a, "mint") /\ (Renumbered(p) \/ cmd[a].stale)]_vars
    BY <1>3
  <1>5. QED
    BY <1>4, CommandsInvariant, PTL DEF Spec, SavesKeepOthers

\* Whose marker is at a destination, and still names the directory there, was
\* the last that synced into it.
LEMMA CurrentIsOwn ==
    ASSUME CInv, NEW d \in Dests, NEW p, dir[d].kind = "dir", MarkerCurrent(d),
           MarkerMatches(marker[d], p)
    PROVE  LastSyncedBy(d, p)
  <1>1. owner[d] = Owner(marker[d])
    BY There DEF Numbered
  <1>2. /\ owner[d].id = marker[d].id /\ owner[d].name = marker[d].name
        /\ owner[d].root = marker[d].root
    BY <1>1 DEF Owner
  <1>3. QED
    BY <1>2 DEF MarkerMatches, LastSyncedBy

\* A destination that setup accepts without force, or that shell, exec and
\* services use, was last synced by that mirror, whatever other tools and the
\* mirror processes do, as long as nobody touched it after the look.
THEOREM AcceptedWasOwn == Spec => AcceptedIsOwn
  <1>1. ASSUME CInv, NEW c \in Clients,
               At(c, "use") \/ (At(c, "save") /\ cmd[c].kind = "setup" /\ ~cmd[c].force),
               ~cmd[c].touched, owner[cmd[c].p.dest] # NoOwner, MarkerCurrent(cmd[c].p.dest)
        PROVE  LastSyncedBy(cmd[c].p.dest, cmd[c].p)
    <2>1. Sound(c, cmd[c]) /\ Seen(cmd[c]) /\ cmd[c] \in CommandType
      BY <1>1, Here, ClientsAct
    <2>2. cmd[c].p.dest \in Dests
      BY <1>1, <2>1 DEF Sound, At, SyncPcs, Profiles, CommandType, Kinds, PidKinds
    <2>3. MarkerMatches(marker[cmd[c].p.dest], cmd[c].p)
      BY <1>1, <2>1 DEF Seen, At
    <2>4. dir[cmd[c].p.dest].kind = "dir"
      BY <1>1, <2>2, There DEF Numbered
    <2>5. QED
      BY <1>1, <2>2, <2>3, <2>4, CurrentIsOwn
  <1>2. CInv =>
           [\A c \in Clients :
               LET p == cmd[c].p
               IN  (/\ At(c, "use") \/ (At(c, "save") /\ cmd[c].kind = "setup" /\ ~cmd[c].force)
                    /\ cmd'[c].pc = "idle" /\ ~cmd[c].touched
                    /\ owner[p.dest] # NoOwner /\ MarkerCurrent(p.dest))
                   => LastSyncedBy(p.dest, p)]_vars
    BY <1>1
  <1>3. QED
    BY <1>2, CommandsInvariant, PTL DEF AcceptedIsOwn

\* Only a removal leaves nothing where a directory was.
LEMMA RemovedBy ==
    ASSUME CInv, [Next]_vars, NEW d \in Dests, dir[d].kind = "dir",
           dir'[d].kind = "missing"
    PROVE  \E c \in Clients : DeleteRemove(c) /\ d = cmd[c].p.dest
  <1>1. dir' # dir
    OBVIOUS
  <1>2. ASSUME NEW e \in Dests, Changes(e), dir'[e].kind # "missing" PROVE FALSE
    BY <1>2 DEF Changes
  <1>3. ASSUME NEW c \in Clients, DeleteRemove(c) PROVE d = cmd[c].p.dest
    <2>1. dir \in [Dests -> Dir]
      BY DEF CInv, TypeOK, DestinationType
    <2>2. QED
      BY <1>3, <2>1 DEF DeleteRemove, RemoveAll
  <1>4. ASSUME NEW a \in Actors, SyncStep(a) PROVE FALSE
    <2>1. cmd[a].pc \in SyncPcs
      BY <1>4 DEF SyncStep, SyncPrepare, SyncCopy, SyncStat, SyncMark, At, SyncPcs
    <2>2. cmd[a].p \in Profiles /\ cmd[a].p.dest \in Dests
      BY <2>1, Syncing
    <2>3. CASE SyncPrepare(a)
      BY <1>2, <2>2, <2>3, PrepareChanges DEF SyncPrepare
    <2>4. CASE SyncCopy(a)
      <3>1. \E full \in BOOLEAN : Copy(cmd[a].p, full)
        BY <2>4 DEF SyncCopy
      <3>2. QED
        BY <1>2, <2>2, <3>1, CopyChanges
    <2>5. CASE SyncStat(a) \/ SyncMark(a)
      BY <1>1, <2>5 DEF SyncStat, SyncMark, PutMarker, destVars
    <2>6. QED
      BY <1>4, <2>3, <2>4, <2>5 DEF SyncStep
  <1>5. ASSUME NEW c \in Clients, FixEnsure(c) PROVE FALSE
    <2>1. cmd[c].p.dest \in Dests
      <3>1. cmd[c] \in CommandType /\ Sound(c, cmd[c])
        BY Here, ClientsAct
      <3>2. QED
        BY <1>5, <3>1 DEF FixEnsure, At, Sound, SyncPcs, CommandType, Kinds, PidKinds,
           Profiles
    <2>2. QED
      BY <1>2, <1>5, <2>1, PrepareChanges DEF FixEnsure
  <1>6. ASSUME NEW e \in Dests, ReplaceDestination(e) PROVE FALSE
    <2>1. Changes(e) /\ dir'[e].kind = "dir"
      <3>1. dir \in [Dests -> Dir]
        BY DEF CInv, TypeOK, DestinationType
      <3>2. QED
        BY <1>6, <3>1, ReplaceChanges DEF ReplaceDestination, Replace
    <2>2. QED
      BY <1>2, <2>1
  <1>7. \/ \E c \in Clients : DeleteRemove(c) \/ FixEnsure(c)
        \/ \E a \in Actors : SyncStep(a)
        \/ \E e \in Dests : ReplaceDestination(e)
    BY <1>1 DEF Next, CommandBegin, SetupBegin, EditBegin, DeleteBegin, SyncBegin,
       UseBegin, FixBegin, StartBegin, StopBegin, StoreStep, SetupLook, SetupRead,
       DeleteRead, DeleteCompare, Load, Save, MintLoad, MintSave, UseStep, ReadyLook,
       AutoLook, UseRead, Use,
       PidStep, StartList, StartLaunch, StartWrite, StartCheck, StopKill, StopWait,
       Unlink, FixPid, FixLook, FixRead, Fail, Boot, WatchBegin, Die, ReusePid, MoveRoot,
       destVars, vars
  <1>8. QED
    BY <1>3, <1>4, <1>5, <1>6, <1>7

\* Two commands do not step at once.
LEMMA RemoverSteps ==
    ASSUME CInv, NEW b \in Clients, NEW c \in Clients, DeleteRemove(b), b # c
    PROVE  cmd'[c].pc = cmd[c].pc
  BY DeleteRemoveFits, ClientsAct DEF Fits, Turn, Alike

\* delete --delete-remote removes a directory only if that mirror was the last
\* that synced into it: provided that the marker has an identity to compare,
\* that no other directory has got the number of the one which the marker names,
\* and that nobody changed the destination between the look and the removal.
THEOREM DeletedWasOwn == Spec => DeletesOnlyOwn
  <1>1. ASSUME CInv, [Next]_vars, NEW c \in Clients, At(c, "remove"),
               cmd'[c].pc \in {"load", "idle"}, ~cmd[c].touched, cmd[c].intact,
               cmd[c].inode # NoInode, ~SameNumber(cmd[c].p.dest, cmd[c]),
               NEW d \in Dests, dir[d].kind = "dir", dir'[d].kind = "missing"
        PROVE  LastSyncedBy(cmd[c].p.dest, cmd[c].p)
    <2>1. PICK b \in Clients : DeleteRemove(b) /\ d = cmd[b].p.dest
      BY <1>1, RemovedBy
    <2>2. b = c
      BY <1>1, <2>1, RemoverSteps DEF At
    <2>3. Seen(cmd[c])
      BY <1>1, Here, ClientsAct
    <2>4. /\ MarkerMatches(marker[d], cmd[c].p) /\ dir[d].inode = cmd[c].inode
          /\ cmd[c].gen = marker[d].gen /\ cmd[c].intact = marker[d].intact
      BY <1>1, <2>1, <2>2, <2>3 DEF Seen, At, SameDirectory
    <2>5. MarkerCurrent(d)
      BY <1>1, <2>1, <2>2, <2>4 DEF MarkerCurrent, SameNumber
    <2>6. QED
      BY <1>1, <2>1, <2>2, <2>4, <2>5, CurrentIsOwn
  <1>2. CInv /\ [Next]_vars =>
           [\A c \in Clients :
               (/\ At(c, "remove") /\ cmd'[c].pc \in {"load", "idle"}
                /\ ~cmd[c].touched /\ cmd[c].intact
                /\ cmd[c].inode # NoInode /\ ~SameNumber(cmd[c].p.dest, cmd[c])
                /\ \E d \in Dests : dir[d].kind = "dir" /\ dir'[d].kind = "missing")
               => LastSyncedBy(cmd[c].p.dest, cmd[c].p)]_vars
    BY <1>1
  <1>3. QED
    BY <1>2, CommandsInvariant, PTL DEF Spec, DeletesOnlyOwn

=============================================================================
