------------------------------ MODULE Catalog ------------------------------
(***************************************************************************)
(* The catalog's files and the requests that work on them at the same time *)
(* (internal/catalog/catalog.go and its callers in internal/api).  Nothing *)
(* is locked: a request is a sequence of file system calls, and every call *)
(* that another request could tell apart is one action.                    *)
(*                                                                         *)
(* - A file system path leads to an inode: a file that is being written    *)
(*   keeps its inode when it is renamed meanwhile.                         *)
(* - os.WriteFile truncates, then writes.                                  *)
(* - Directories are not nested.  The trash is the set of inodes moved     *)
(*   there; the names they get in it are left out.                         *)
(***************************************************************************)
EXTENDS Naturals, Sequences, SequencesExt

CONSTANTS
    Client,             \* one per request
    Dir,                \* the root and its directories
    Root,
    Unc,                \* root/uncategorized
    Id,                 \* ids of test cases
    Name,               \* file names without .json
    Copies,             \* Id -> the ids <id>-copy, <id>-copy-2, ..., as many as are needed
    Initial,            \* the files at the start: path -> id
    Requests,           \* the requests that may be sent
    None

Path == Dir \X Name

\* An inode is called after where it was at the start, or after the request that made it.
Inode == Path \cup (Client \X (Nat \ {0}))

\* A content too: it was there at the start, or a save brought it.
Text == Path \cup Client

ASSUME CatalogAssumption ==
    /\ Id \subseteq Name
    /\ {Root, Unc} \subseteq Dir
    /\ Copies \in [Id -> Seq(Id)]
    /\ Initial \in [Path -> Id \cup {None}]
    /\ Client \cap Dir = {}
    /\ None \notin Id \cup Client \cup Inode \cup [text : Text, order : Nat]

Type == {"save", "delete", "move", "duplicate", "reorder", "dropFolder", "createFolder"}

Request == [type : Type, items : Seq([cat : Dir \ {Root}, id : Id]), target : Dir]

ASSUME RequestAssumption == Requests \subseteq Request /\ None \notin Requests

VARIABLES
    dirs,               \* the directories there are
    at,                 \* the inode at each path, or None
    file,               \* each inode's [id, text, order, state]
    trash,              \* the inodes in the trash
    cl,                 \* each request's own state
    overlapped          \* history: two requests were in progress at once

vars == <<dirs, at, file, trash, cl, overlapped>>
files == <<dirs, at, file, trash>>

-----------------------------------------------------------------------------
\* A test case in the root and one in uncategorized/ show the same category.
CategoryOf(dir) == IF dir = Root THEN Unc ELSE dir

Item(c) == cl[c].req.items[cl[c].k]

\* Mutant: only the id is compared.
MatchesAnywhere(c) == {p \in DOMAIN cl[c].seen : cl[c].seen[p].id = cl[c].tc.id}

\* GetInCategory's candidates among what the walk has read.
Matches(c) ==
    {p \in DOMAIN cl[c].seen :
        cl[c].seen[p].id = cl[c].tc.id /\ CategoryOf(p[1]) = Item(c).cat}

Go(c, state) == cl' = [cl EXCEPT ![c] = state]

WalkFor(state, goal) ==
    [state EXCEPT !.pc = "walk", !.goal = goal, !.unread = {Root}, !.todo = {},
                  !.seen = <<>>]

\* The item is settled; `n` is 1 if it counts as done.
NextItem(state, n) == [state EXCEPT !.pc = "item", !.k = @ + 1, !.done = @ + n]

Refuse(state) == [state EXCEPT !.pc = "done"]

Blank == [id |-> None, text |-> None, order |-> 0]

Idle ==
    [pc |-> "idle", req |-> None, k |-> 1, done |-> 0, goal |-> "find",
     unread |-> {}, todo |-> {}, seen |-> <<>>, tc |-> Blank, path |-> None, fd |-> None]

Busy(c) == cl[c].pc \notin {"idle", "done"}

Init ==
    /\ dirs = {Root} \cup {p[1] : p \in {q \in Path : Initial[q] # None}}
    /\ at = [p \in Path |-> IF Initial[p] = None THEN None ELSE p]
    /\ file = [p \in {q \in Path : Initial[q] # None} |->
                  [id |-> Initial[p], text |-> p, order |-> 0, state |-> "whole"]]
    /\ trash = {}
    /\ cl = [c \in Client |-> Idle]
    /\ overlapped = FALSE

Start(c, req) ==
    /\ cl[c].pc = "idle"
    /\ Go(c, [Idle EXCEPT !.pc = "item", !.req = req])
    /\ overlapped' = (overlapped \/ \E d \in Client : Busy(d))
    /\ UNCHANGED files

\* The next item of the request, or its end.
BeginItem(c) ==
    /\ cl[c].pc = "item"
    /\ LET me == cl[c]
       IN  IF me.k > Len(me.req.items) THEN Go(c, Refuse(me))
           ELSE LET named == [me EXCEPT !.tc = [Blank EXCEPT !.id = Item(c).id]]
                IN  CASE me.req.type = "save" ->
                           Go(c, [named EXCEPT !.pc = "mkdir", !.tc.text = c])
                      [] me.req.type \in {"dropFolder", "createFolder"} ->
                           Go(c, [me EXCEPT !.pc = "folder"])
                      [] OTHER -> Go(c, WalkFor(named, "find"))
    /\ UNCHANGED <<files, overlapped>>

-----------------------------------------------------------------------------
\* List: filepath.WalkDir, one directory and one file at a time.

\* A directory that vanished ends the walk as if the catalog were empty.
ReadDir(c) ==
    /\ cl[c].pc = "walk" /\ cl[c].todo = {} /\ cl[c].unread # {}
    /\ LET me == cl[c]
           d == IF Root \in me.unread THEN Root ELSE CHOOSE e \in me.unread : TRUE
       IN  IF d \in dirs
           THEN Go(c, [me EXCEPT
                        !.todo = {p \in Path : p[1] = d /\ at[p] # None},
                        !.unread = (@ \ {d}) \cup IF d = Root THEN dirs \ {Root} ELSE {}])
           ELSE Go(c, [me EXCEPT !.pc = me.goal, !.seen = <<>>])
    /\ UNCHANGED <<files, overlapped>>

\* A file that vanished, or does not parse, makes the whole list fail; only
\* Duplicate tells that from an empty list.
Load(c) ==
    /\ cl[c].pc = "walk" /\ cl[c].todo # {}
    /\ LET me == cl[c]
           p == CHOOSE q \in me.todo : TRUE
       IN  IF at[p] # None /\ file[at[p]].state = "whole"
           THEN LET f == file[at[p]]
                    tc == [id |-> f.id, text |-> f.text, order |-> f.order]
                IN  Go(c, [me EXCEPT !.todo = @ \ {p},
                                     !.seen = [q \in DOMAIN @ \cup {p} |->
                                                  IF q = p THEN tc ELSE @[q]]])
           ELSE IF me.goal = "list" THEN Go(c, Refuse(me))
           ELSE Go(c, [me EXCEPT !.pc = me.goal, !.seen = <<>>])
    /\ UNCHANGED <<files, overlapped>>

WalkEnd(c) ==
    /\ cl[c].pc = "walk" /\ cl[c].todo = {} /\ cl[c].unread = {}
    /\ Go(c, [cl[c] EXCEPT !.pc = cl[c].goal])
    /\ UNCHANGED <<files, overlapped>>

At(c, pc, types) == cl[c].pc = pc /\ cl[c].req.type \in types

\* GetInCategory fails: a bulk delete stops, a bulk move and a reorder go on.
NotFound(c) ==
    /\ At(c, "find", {"delete", "move", "duplicate", "reorder"})
    /\ Matches(c) = {}
    /\ Go(c, IF cl[c].req.type \in {"move", "reorder"} THEN NextItem(cl[c], 0)
             ELSE Refuse(cl[c]))
    /\ UNCHANGED <<files, overlapped>>

-----------------------------------------------------------------------------
Delete(c) ==
    /\ At(c, "find", {"delete"})
    /\ \E p \in Matches(c) :
          IF at[p] = None
          THEN Go(c, Refuse(cl[c])) /\ UNCHANGED files
          ELSE /\ at' = [at EXCEPT ![p] = None]
               /\ trash' = trash \cup {at[p]}
               /\ Go(c, NextItem(cl[c], 1))
               /\ UNCHANGED <<dirs, file>>
    /\ UNCHANGED overlapped

\* The root is no target: ensureInsideRoot takes it for outside.
MoveRefused(c) ==
    /\ At(c, "find", {"move"})
    /\ Matches(c) # {}
    /\ cl[c].req.target \in {Root, Unc}
    /\ Go(c, NextItem(cl[c], 0))
    /\ UNCHANGED <<files, overlapped>>

MoveMkdir(c) ==
    /\ At(c, "find", {"move"})
    /\ cl[c].req.target \notin {Root, Unc}
    /\ \E p \in Matches(c) :
          Go(c, IF p = <<cl[c].req.target, cl[c].tc.id>> THEN NextItem(cl[c], 1)
                ELSE [cl[c] EXCEPT !.pc = "rename", !.path = p])
    /\ dirs' = dirs \cup {cl[c].req.target}
    /\ UNCHANGED <<at, file, trash, overlapped>>

\* Mutant: the way is cleared first.
MoveClearing(c) ==
    /\ cl[c].pc = "rename"
    /\ at' = [at EXCEPT ![cl[c].path] = None,
                        ![<<cl[c].req.target, cl[c].tc.id>>] = at[cl[c].path]]
    /\ Go(c, NextItem(cl[c], 1))
    /\ UNCHANGED <<dirs, file, trash, overlapped>>

\* Rename replaces whatever is at the new path.
MoveRename(c) ==
    /\ cl[c].pc = "rename"
    /\ LET from == cl[c].path
           to == <<cl[c].req.target, cl[c].tc.id>>
       IN  IF at[from] = None \/ to[1] \notin dirs
           THEN Go(c, NextItem(cl[c], 0)) /\ UNCHANGED at
           ELSE /\ at' = [at EXCEPT ![from] = None, ![to] = at[from]]
                /\ Go(c, NextItem(cl[c], 1))
    /\ UNCHANGED <<dirs, file, trash, overlapped>>

-----------------------------------------------------------------------------
\* Save, for itself and for Duplicate and Reorder.

Mkdir(c) ==
    /\ cl[c].pc = "mkdir"
    /\ dirs' = dirs \cup {Item(c).cat}
    /\ Go(c, WalkFor(cl[c], "place"))
    /\ UNCHANGED <<at, file, trash, overlapped>>

\* The file the test case is in, or a new one: also when the list failed.
Place(c) == IF Matches(c) # {} THEN Matches(c) ELSE {<<Item(c).cat, cl[c].tc.id>>}

\* The save failed: a reorder does not look at it.
SaveFailed(c) ==
    IF cl[c].req.type = "reorder" THEN NextItem(cl[c], 1) ELSE Refuse(cl[c])

\* Mutant: a file that is there is not truncated.
OpenUntruncated(c) ==
    /\ cl[c].pc = "place"
    /\ \E p \in Place(c) :
          IF p[1] \notin dirs
          THEN Go(c, SaveFailed(c)) /\ UNCHANGED files
          ELSE LET i == IF at[p] = None THEN <<c, cl[c].k>> ELSE at[p]
                   f == [id |-> cl[c].tc.id, text |-> cl[c].tc.text,
                         order |-> cl[c].tc.order,
                         state |-> IF at[p] = None THEN "empty" ELSE file[at[p]].state]
               IN  /\ at' = [at EXCEPT ![p] = i]
                   /\ file' = [j \in DOMAIN file \cup {i} |-> IF j = i THEN f ELSE file[j]]
                   /\ Go(c, [cl[c] EXCEPT !.pc = "write", !.fd = i])
                   /\ UNCHANGED <<dirs, trash>>
    /\ UNCHANGED overlapped

OpenFile(c) ==
    /\ cl[c].pc = "place"
    /\ \E p \in Place(c) :
          IF p[1] \notin dirs
          THEN Go(c, SaveFailed(c)) /\ UNCHANGED files
          ELSE LET i == IF at[p] = None THEN <<c, cl[c].k>> ELSE at[p]
                   f == [id |-> cl[c].tc.id, text |-> cl[c].tc.text,
                         order |-> cl[c].tc.order, state |-> "empty"]
               IN  /\ at' = [at EXCEPT ![p] = i]
                   /\ file' = [j \in DOMAIN file \cup {i} |-> IF j = i THEN f ELSE file[j]]
                   /\ Go(c, [cl[c] EXCEPT !.pc = "write", !.fd = i])
                   /\ UNCHANGED <<dirs, trash>>
    /\ UNCHANGED overlapped

\* Over bytes that another request wrote since our truncation, a shorter text
\* leaves the end of the other one.
Write(c) ==
    /\ cl[c].pc = "write"
    /\ LET i == cl[c].fd
       IN  \E state \in IF file[i].state = "empty" THEN {"whole"} ELSE {"whole", "garbled"} :
              file' = [file EXCEPT ![i] = [id |-> cl[c].tc.id, text |-> cl[c].tc.text,
                                           order |-> cl[c].tc.order, state |-> state]]
    /\ Go(c, IF cl[c].req.type = "duplicate" THEN WalkFor(cl[c], "check")
             ELSE NextItem(cl[c], 1))
    /\ UNCHANGED <<dirs, at, trash, overlapped>>

Reorder(c) ==
    /\ At(c, "find", {"reorder"})
    /\ \E p \in Matches(c) :
          LET tc == cl[c].seen[p]
          IN  Go(c, IF tc.order = cl[c].k - 1 THEN NextItem(cl[c], 0)
                    ELSE [cl[c] EXCEPT !.pc = "mkdir", !.tc = [tc EXCEPT !.order = cl[c].k - 1]])
    /\ UNCHANGED <<files, overlapped>>

-----------------------------------------------------------------------------
DuplicateFound(c) ==
    /\ At(c, "find", {"duplicate"})
    /\ \E p \in Matches(c) :
          Go(c, WalkFor([cl[c] EXCEPT !.tc = cl[c].seen[p]], "list"))
    /\ UNCHANGED <<files, overlapped>>

\* Mutant: the first name is taken without a look.
FirstCopy(id, taken) == Copies[id][1]

FreeCopy(id, taken) ==
    Copies[id][Min({n \in DOMAIN Copies[id] : Copies[id][n] \notin taken})]

DuplicateNamed(c) ==
    /\ cl[c].pc = "list"
    /\ LET me == cl[c]
           taken == {me.seen[p].id : p \in {q \in DOMAIN me.seen : CategoryOf(q[1]) = Item(c).cat}}
       IN  /\ ~ (Range(Copies[me.tc.id]) \subseteq taken)
           /\ Go(c, [me EXCEPT !.pc = "mkdir", !.tc.id = FreeCopy(@, taken)])
    /\ UNCHANGED <<files, overlapped>>

DuplicateChecked(c) ==
    /\ cl[c].pc = "check"
    /\ Go(c, IF Matches(c) = {} THEN Refuse(cl[c]) ELSE NextItem(cl[c], 1))
    /\ UNCHANGED <<files, overlapped>>

-----------------------------------------------------------------------------
\* One rename takes a directory with everything in it to the trash.
DropFolder(c) ==
    /\ At(c, "folder", {"dropFolder"})
    /\ LET d == Item(c).cat
       IN  IF d = Unc \/ d \notin dirs
           THEN Go(c, Refuse(cl[c])) /\ UNCHANGED files
           ELSE /\ dirs' = dirs \ {d}
                /\ at' = [p \in Path |-> IF p[1] = d THEN None ELSE at[p]]
                /\ trash' = trash \cup ({at[p] : p \in {q \in Path : q[1] = d}} \ {None})
                /\ Go(c, NextItem(cl[c], 1))
                /\ UNCHANGED file
    /\ UNCHANGED overlapped

CreateFolder(c) ==
    /\ At(c, "folder", {"createFolder"})
    /\ IF Item(c).cat = Unc THEN Go(c, Refuse(cl[c])) /\ UNCHANGED dirs
       ELSE dirs' = dirs \cup {Item(c).cat} /\ Go(c, [cl[c] EXCEPT !.pc = "gitkeep"])
    /\ UNCHANGED <<at, file, trash, overlapped>>

WriteGitkeep(c) ==
    /\ cl[c].pc = "gitkeep"
    /\ Go(c, IF Item(c).cat \in dirs THEN NextItem(cl[c], 1) ELSE Refuse(cl[c]))
    /\ UNCHANGED <<files, overlapped>>

-----------------------------------------------------------------------------
Step(c) ==
    \/ \E req \in Requests : Start(c, req)
    \/ BeginItem(c) \/ ReadDir(c) \/ Load(c) \/ WalkEnd(c) \/ NotFound(c)
    \/ Delete(c) \/ MoveRefused(c) \/ MoveMkdir(c) \/ MoveRename(c)
    \/ Mkdir(c) \/ OpenFile(c) \/ Write(c)
    \/ Reorder(c) \/ DuplicateFound(c) \/ DuplicateNamed(c) \/ DuplicateChecked(c)
    \/ DropFolder(c) \/ CreateFolder(c) \/ WriteGitkeep(c)

Next == \E c \in Client : Step(c)

Spec == Init /\ [][Next]_vars
-----------------------------------------------------------------------------
Category == Dir \ {Root}

FilesOf(cat, id) ==
    {p \in Path : at[p] # None /\ CategoryOf(p[1]) = cat /\ file[at[p]].id = id}

\* The test cases a request may change: those it names, where it moves them,
\* their copies, a folder's.
Names(c, cat, id) ==
    /\ cl[c].req # None
    /\ \E k \in DOMAIN cl[c].req.items :
          LET item == cl[c].req.items[k]
              type == cl[c].req.type
          IN  \/ item.cat = cat /\ item.id = id
              \/ type = "move" /\ cl[c].req.target = cat /\ item.id = id
              \/ type = "duplicate" /\ item.cat = cat /\ id \in Range(Copies[item.id])
              \/ type = "dropFolder" /\ item.cat = cat

\* A test case that no request names, by its id or by the name of its file, keeps
\* its file and its content, whatever the requests do to one another
\* (catalog_test.go:11-27).
OthersUntouched ==
    \A p \in Path :
        (/\ Initial[p] # None
         /\ \A c \in Client, id \in {Initial[p], p[2]} : ~Names(c, CategoryOf(p[1]), id)) =>
            /\ at[p] = p
            /\ file[p] = [id |-> Initial[p], text |-> p, order |-> 0, state |-> "whole"]

\* No file of another test case has this id for its name, and no file of this one
\* has another id: a save or a move takes the file <id>.json for its own.
OwnNames(id) ==
    \A p \in Path : Initial[p] # None =>
        /\ p[2] = id => Initial[p] = id
        /\ Initial[p] = id => p[2] \notin Id \ {id}

\* The requests that write the test case with this id, or a copy that has it.
Writers(id) ==
    {c \in Client :
        /\ cl[c].req # None
        /\ \E k \in DOMAIN cl[c].req.items :
              LET of == cl[c].req.items[k].id
              IN  \/ cl[c].req.type \in {"save", "reorder"} /\ of = id
                  \/ cl[c].req.type = "duplicate" /\ id \in Range(Copies[of])}

Shared(id) == \E c, d \in Writers(id) : c # d

\* When all requests are over, the list fails only over a test case that two of them
\* wrote: what a save truncates it writes whole, also into a file that was moved or
\* replaced meanwhile, and one write over another can leave the end of the first
\* (catalog.go:76, 300).
ListWorksAtRest ==
    (\A c \in Client : ~Busy(c)) =>
        \A p \in Path :
            (at[p] # None /\ OwnNames(file[at[p]].id) /\ ~Shared(file[at[p]].id)) =>
                file[at[p]].state = "whole"

\* Moving, sorting and copying at the same time never lose a test case that shares
\* its file's name with no other: some file has its id (catalog.go:275).
MovesLoseNothing ==
    (\A c \in Client : cl[c].req = None \/ cl[c].req.type \in {"move", "reorder", "duplicate"}) =>
        \A p \in Path :
            (Initial[p] # None /\ OwnNames(Initial[p])) =>
                \E q \in Path : at[q] # None /\ file[at[q]].id = Initial[p]

\* The catalog as its user sees it; a file being written counts as written.
View ==
    [l \in Category \X Id |->
        LET S == FilesOf(l[1], l[2])
        IN  IF S = {} THEN None
            ELSE LET f == file[at[CHOOSE p \in S : TRUE]]
                 IN  [text |-> f.text, order |-> f.order]]

CopySets == [id \in Id |-> Range(Copies[id])]

Atomic == INSTANCE AtomicCatalog WITH cases <- View, Copies <- CopySets, Text <- Client

\* The effect that a request has on the item it is at.
Effect(c) ==
    LET cat == Item(c).cat
        id == Item(c).id
        Is(type) == cl[c].req.type = type
    IN  \/ Is("save") /\ Atomic!Save(cat, id)
        \/ Is("delete") /\ Atomic!Delete(cat, id)
        \/ Is("move") /\ Atomic!Move(cat, id, cl[c].req.target)
        \/ Is("duplicate") /\ Atomic!Copy(cat, id)
        \/ Is("reorder") /\ Atomic!Reorder(cat, id, cl[c].k - 1)
        \/ Is("dropFolder") /\ Atomic!Drop(cat)

\* Requests that come one after another implement AtomicCatalog: the catalog
\* changes in one step, by the effect of the request in progress.
AtomicWhileAlone ==
    [][(~overlapped /\ View' # View) => \E c \in Client : Busy(c) /\ Effect(c)]_vars
=============================================================================
