--------------------------- MODULE CatalogProofs ---------------------------
(***************************************************************************)
(* For every catalog and every number of requests on it, however their     *)
(* file system calls interleave.                                           *)
(*                                                                         *)
(* The inductive invariants come first.  Every action is then shown to be  *)
(* of one of eight kinds (StepKind), which say what it does to the files   *)
(* and what its request knows of them; the invariants on requests that     *)
(* interleave are proved per kind.  What holds of a request that is alone  *)
(* (Alone) is proved per action, with the effect of the action.            *)
(***************************************************************************)
EXTENDS Catalog, SequenceTheorems, WellFoundedInduction, TLAPS

Case == [id : Id, text : Text, order : Nat]

File == [id : Id, text : Text, order : Nat, state : {"empty", "whole", "garbled"}]

Saving == {"save", "duplicate", "reorder"}

Finding == {"delete", "move", "duplicate", "reorder"}

\* What a walk has read.
Seen == UNION {[S -> Case] : S \in SUBSET Path}

ClientType ==
    [pc : {"idle", "item", "walk", "find", "list", "check", "rename", "mkdir", "place",
           "write", "folder", "gitkeep", "done"},
     req : Requests \cup {None}, k : Nat \ {0}, done : Nat,
     goal : {"find", "place", "list", "check"},
     unread : SUBSET Dir, todo : SUBSET Path,
     seen : Seen,
     tc : [id : Id \cup {None}, text : Text \cup {None}, order : Nat],
     path : Path \cup {None}, fd : Inode \cup {None}]

\* Where a request is, or will be after its walk.
Phase(s) == IF s.pc = "walk" THEN s.goal ELSE s.pc

InItem(s) == s.pc \notin {"idle", "item", "done"}

\* The test case a request has in hand is the item's, or the copy of it.
InHand(s) ==
    LET item == s.req.items[s.k]
    IN  /\ Phase(s) \in {"find", "list", "rename"} => s.tc.id = item.id
        /\ Phase(s) \in {"mkdir", "place", "write", "check"} =>
              IF s.req.type = "duplicate" THEN s.tc.id \in Range(Copies[item.id])
              ELSE s.tc.id = item.id
        /\ Phase(s) \in {"mkdir", "place", "write", "check", "list"} => s.tc \in Case

PhaseOf(s) ==
    /\ Phase(s) = "find" => s.req.type \in Finding
    /\ Phase(s) \in {"mkdir", "place", "write"} => s.req.type \in Saving
    /\ Phase(s) \in {"list", "check"} => s.req.type = "duplicate"
    /\ Phase(s) = "rename" =>
          /\ s.req.type = "move" /\ s.req.target \notin {Root, Unc}
          /\ s.path \in Path /\ CategoryOf(s.path[1]) = s.req.items[s.k].cat

\* One request.
ClientOK(s) ==
    /\ s \in ClientType
    /\ s.pc = "idle" <=> s.req = None
    /\ s.pc = "idle" => s.k = 1
    /\ InItem(s) => s.k \in DOMAIN s.req.items /\ InHand(s) /\ PhaseOf(s)

FilesOK ==
    /\ dirs \subseteq Dir
    /\ at \in [Path -> Inode \cup {None}]
    /\ file \in [DOMAIN file -> File] /\ DOMAIN file \subseteq Inode
    /\ \A p \in Path : at[p] # None => at[p] \in DOMAIN file
    /\ trash \subseteq Inode

CatalogTypeOK ==
    /\ FilesOK
    /\ DOMAIN cl = Client /\ \A c \in Client : ClientOK(cl[c])
    /\ \A c \in Client : cl[c].pc = "write" => cl[c].fd \in DOMAIN file
    /\ overlapped \in BOOLEAN

\* A request makes one inode for an item, and not before it saves it.
Made(s) == IF Phase(s) \in {"write", "check", "done"} THEN 1..s.k ELSE 1..(s.k - 1)

MadeOnce ==
    \A c \in Client, n \in Nat : <<c, n>> \in DOMAIN file => n \in Made(cl[c])

\* Whoever truncated a file is about to write it.
WriterComes ==
    \A i \in DOMAIN file : file[i].state = "empty" =>
        \E c \in Client : cl[c].pc = "write" /\ cl[c].fd = i

\* The paths of the test case with this id: those of its name, and where it was.
Homes(id) == {p \in Path : p[2] = id \/ Initial[p] = id}

\* Its files are in these places, and no others are there.
AtHome(id) ==
    /\ \A p \in Path : at[p] # None => (file[at[p]].id = id <=> p \in Homes(id))
    /\ \A c \in Client :
          /\ \A p \in DOMAIN cl[c].seen : cl[c].seen[p].id = id <=> p \in Homes(id)
          /\ cl[c].pc = "rename" => (cl[c].tc.id = id <=> cl[c].path \in Homes(id))
          /\ cl[c].pc = "write" => (cl[c].tc.id = id <=> file[cl[c].fd].id = id)

HomeInv == \A id \in Id : OwnNames(id) => AtHome(id)

\* Its file is garbled, or about to be written over, only when two requests write it.
TornIfShared(id) ==
    \A i \in DOMAIN file : file[i].id = id =>
        /\ file[i].state = "garbled" => Shared(id)
        /\ \A c \in Client :
              cl[c].pc = "write" /\ cl[c].fd = i /\ file[i].state # "empty" => Shared(id)

TornInv == \A id \in Id : OwnNames(id) => TornIfShared(id)

Harmless == \A c \in Client : cl[c].req = None \/ cl[c].req.type \in {"move", "reorder", "duplicate"}

\* No request names the test case at this path, by its id or by its file.
Unnamed(p) == \A c \in Client, id \in {Initial[p], p[2]} : ~Names(c, CategoryOf(p[1]), id)

\* Nobody is about to touch it either, and its inode is nowhere else.
Untouched(p) ==
    /\ at[p] = p
    /\ file[p] = [id |-> Initial[p], text |-> p, order |-> 0, state |-> "whole"]
    /\ \A q \in Path \ {p} : at[q] # p
    /\ \A c \in Client :
          /\ p \in DOMAIN cl[c].seen => cl[c].seen[p].id = Initial[p]
          /\ cl[c].pc = "rename" => cl[c].path # p
          /\ cl[c].pc = "write" => cl[c].fd # p

UntouchedInv == \A p \in Path : Initial[p] # None /\ Unnamed(p) => Untouched(p)

-----------------------------------------------------------------------------
(***************************************************************************)
(* One request at a time                                                   *)
(***************************************************************************)

\* A catalog as the requests leave it: every file is named for its test case, and no
\* category shows a test case twice.
Tidy ==
    \A p, q \in Path : Initial[p] # None =>
        /\ p[2] = Initial[p]
        /\ Initial[q] = Initial[p] /\ CategoryOf(q[1]) = CategoryOf(p[1]) => q = p

TidyFiles ==
    /\ Root \in dirs
    /\ \A p \in Path : at[p] # None => p[1] \in dirs /\ file[at[p]].id = p[2]
    /\ \A p, q \in Path :
          /\ at[p] # None /\ at[q] # None
          /\ at[p] = at[q] \/ (p[2] = q[2] /\ CategoryOf(p[1]) = CategoryOf(q[1]))
          => p = q

Found(s) == s.pc \in {"find", "place", "list", "check"}

\* A walk meets every file, and reads what is in it.
WalkOK(c) ==
    LET s == cl[c]
    IN  /\ s.pc = "walk" =>
              /\ s.unread \subseteq dirs
              /\ \A p \in s.todo : at[p] # None
              /\ \A p \in Path : at[p] # None =>
                    p \in DOMAIN s.seen \cup s.todo \/ p[1] \in s.unread \/ Root \in s.unread
        /\ s.pc = "walk" \/ Found(s) =>
              \A p \in DOMAIN s.seen :
                  /\ at[p] # None
                  /\ s.seen[p] = [id |-> file[at[p]].id, text |-> file[at[p]].text,
                                  order |-> file[at[p]].order]
        /\ Found(s) => \A p \in Path : at[p] # None => p \in DOMAIN s.seen

\* A request has in hand what its item still is.
HandOK(c) ==
    LET s == cl[c]
        shown == View[<<Item(c).cat, Item(c).id>>]
    IN  /\ s.pc = "rename" =>
              /\ at[s.path] # None /\ s.path[2] = s.tc.id
              /\ s.path # <<s.req.target, s.tc.id>>
        /\ s.pc = "write" =>
              file[s.fd] = [id |-> s.tc.id, text |-> s.tc.text, order |-> s.tc.order,
                            state |-> "empty"]
        /\ Phase(s) = "list" => shown = [text |-> s.tc.text, order |-> s.tc.order]
        /\ Phase(s) \in {"mkdir", "place"} =>
              /\ s.req.type = "save" => s.tc.text \in Client /\ s.tc.order = 0
              /\ s.req.type = "reorder" =>
                    /\ s.tc.order = s.k - 1
                    /\ shown # None /\ shown = [text |-> s.tc.text, order |-> shown.order]
              /\ s.req.type = "duplicate" =>
                    /\ shown = [text |-> s.tc.text, order |-> s.tc.order]
                    /\ s.tc.id \in Range(Copies[Item(c).id])
                    /\ View[<<Item(c).cat, s.tc.id>>] = None

Writing(i) == \E c \in Client : cl[c].pc = "write" /\ cl[c].fd = i

Alone ==
    /\ TidyFiles
    /\ \A c, d \in Client : Busy(c) /\ Busy(d) => c = d
    /\ \A c \in Client : WalkOK(c) /\ HandOK(c)
    /\ \A p \in Path : at[p] # None => file[at[p]].state = "whole" \/ Writing(at[p])

AloneInv == ~overlapped => Alone

-----------------------------------------------------------------------------
(***************************************************************************)
(* The kinds of steps: what a step of a request does to the files and to   *)
(* what the request knows of them.                                         *)
(***************************************************************************)
Turn(c, s) ==
    /\ ClientOK(s) /\ Go(c, s)
    /\ dirs' \subseteq Dir /\ overlapped' \in BOOLEAN
    /\ s.req # None /\ cl[c].req \in {s.req, None}
    /\ Made(cl[c]) \subseteq Made(s)

\* The request learns nothing, and is not about to rename or to write.
Calm(c, s) ==
    Turn(c, s) /\ s.seen \in {cl[c].seen, <<>>} /\ s.pc \notin {"rename", "write"}

Quiet(c) ==
    /\ \E s : Calm(c, s)
    /\ cl[c].pc # "write"
    /\ UNCHANGED <<at, file, trash>>

Reads(c) ==
    \E s : \E p \in Path :
        /\ Turn(c, s) /\ s.pc = "walk" /\ cl[c].pc = "walk"
        /\ at[p] # None
        /\ s.seen = [q \in DOMAIN cl[c].seen \cup {p} |->
                        IF q = p THEN [id |-> file[at[p]].id, text |-> file[at[p]].text,
                                       order |-> file[at[p]].order]
                        ELSE cl[c].seen[q]]
        /\ UNCHANGED <<at, file, trash>>

Aims(c) ==
    /\ cl[c].pc = "find" /\ cl[c].req.type = "move"
    /\ \E s : \E p \in Matches(c) :
          /\ Turn(c, s) /\ s.pc = "rename" /\ s.seen = cl[c].seen
          /\ s.tc = cl[c].tc /\ s.path = p
    /\ UNCHANGED <<at, file, trash>>

Deletes(c) ==
    /\ \E s : Calm(c, s)
    /\ cl[c].pc = "find" /\ cl[c].req.type = "delete"
    /\ \E p \in Matches(c) :
          /\ at[p] # None
          /\ at' = [at EXCEPT ![p] = None]
          /\ trash' = trash \cup {at[p]}
    /\ UNCHANGED file

Moves(c) ==
    /\ \E s : Calm(c, s)
    /\ cl[c].pc = "rename" /\ at[cl[c].path] # None
    /\ at' = [at EXCEPT ![cl[c].path] = None,
                        ![<<cl[c].req.target, cl[c].tc.id>>] = at[cl[c].path]]
    /\ UNCHANGED <<file, trash>>

Opens(c) ==
    /\ cl[c].pc = "place"
    /\ \E s : \E p \in Place(c) :
          LET i == IF at[p] = None THEN <<c, cl[c].k>> ELSE at[p]
              f == [id |-> cl[c].tc.id, text |-> cl[c].tc.text, order |-> cl[c].tc.order,
                    state |-> "empty"]
          IN  /\ Turn(c, s) /\ s.pc = "write" /\ s.seen = cl[c].seen
              /\ s.tc = cl[c].tc /\ s.fd = i /\ s.k = cl[c].k
              /\ at' = [at EXCEPT ![p] = i]
              /\ file' = [j \in DOMAIN file \cup {i} |-> IF j = i THEN f ELSE file[j]]
    /\ UNCHANGED trash

Writes(c) ==
    /\ \E s : Calm(c, s)
    /\ cl[c].pc = "write"
    /\ \E state \in {"whole", "garbled"} :
          /\ state = "garbled" => file[cl[c].fd].state # "empty"
          /\ file' = [file EXCEPT ![cl[c].fd] =
                        [id |-> cl[c].tc.id, text |-> cl[c].tc.text, order |-> cl[c].tc.order,
                         state |-> state]]
    /\ UNCHANGED <<at, trash>>

Drops(c) ==
    /\ \E s : Calm(c, s)
    /\ cl[c].pc = "folder" /\ cl[c].req.type = "dropFolder" /\ Item(c).cat # Unc
    /\ at' = [p \in Path |-> IF p[1] = Item(c).cat THEN None ELSE at[p]]
    /\ trash' = trash \cup ({at[p] : p \in {q \in Path : q[1] = Item(c).cat}} \ {None})
    /\ UNCHANGED file

-----------------------------------------------------------------------------
(***************************************************************************)
(* Lemmas                                                                  *)
(***************************************************************************)

LEMMA EmptySeen == <<>> \in Seen /\ DOMAIN <<>> = {}
<1>1. <<>> \in [{} -> Case] /\ DOMAIN <<>> = {}
  OBVIOUS
<1> QED
  BY <1>1 DEF Seen

LEMMA SeenFacts ==
  ASSUME NEW f \in Seen
  PROVE  DOMAIN f \subseteq Path /\ \A p \in DOMAIN f : f[p] \in Case
BY DEF Seen

LEMMA RequestFacts ==
  ASSUME NEW req \in Requests
  PROVE  /\ req # None /\ req.type \in Type /\ req.target \in Dir
         /\ req.items \in Seq([cat : Category, id : Id])
         /\ \A k \in DOMAIN req.items :
               req.items[k].cat \in Category /\ req.items[k].id \in Id
<1> DEFINE item == [cat : Category, id : Id]
<1>1. req.type \in Type /\ req.target \in Dir /\ req.items \in Seq(item) /\ req # None
  BY RequestAssumption DEF Request, Category
<1>2. \A k \in DOMAIN req.items : req.items[k] \in item
  <2> HIDE DEF item
  <2> QED
    BY <1>1
<1> QED
  BY <1>1, <1>2

\* Only one request's state changes.
LEMMA GoFacts ==
  ASSUME DOMAIN cl = Client, \A d \in Client : ClientOK(cl[d]), NEW c \in Client, NEW s,
         ClientOK(s), Go(c, s)
  PROVE  /\ DOMAIN cl' = Client /\ cl'[c] = s
         /\ \A d \in Client : ClientOK(cl'[d]) /\ (d # c => cl'[d] = cl[d])
BY DEF Go

LEMMA NextItemOK ==
  ASSUME NEW s, ClientOK(s), s.req # None, NEW n \in Nat
  PROVE  ClientOK(NextItem(s, n))
<1> DEFINE v == NextItem(s, n)
<1>0. s \in ClientType
  BY DEF ClientOK
<1>9. s.k + 1 \in Nat \ {0} /\ s.done + n \in Nat
  BY <1>0 DEF ClientType
<1>1. v \in ClientType /\ v.pc = "item" /\ v.req = s.req
  BY <1>0, <1>9 DEF ClientType, NextItem
<1> QED
  BY <1>1 DEF ClientOK, InItem

LEMMA RefuseOK ==
  ASSUME NEW s, ClientOK(s), s.req # None
  PROVE  ClientOK(Refuse(s))
BY DEF ClientOK, ClientType, Refuse, InItem

LEMMA WalkForOK ==
  ASSUME NEW s \in ClientType, s.req # None, s.k \in DOMAIN s.req.items, 
         NEW goal \in {"find", "place", "list", "check"},
         LET w == [s EXCEPT !.pc = goal] IN InHand(w) /\ PhaseOf(w)
  PROVE  ClientOK(WalkFor(s, goal))
<1> DEFINE w == [s EXCEPT !.pc = goal]
           v == WalkFor(s, goal)
<1>1. /\ v \in ClientType /\ v.pc = "walk" /\ v.req = s.req
      /\ v.k = s.k /\ v.tc = s.tc /\ v.path = s.path /\ v.goal = goal
  BY EmptySeen, CatalogAssumption DEF WalkFor, ClientType
<1>2. Phase(v) = goal
  BY <1>1 DEF Phase
<1>3. Phase(w) = goal /\ w.req = s.req /\ w.k = s.k /\ w.tc = s.tc /\ w.path = s.path
  BY DEF Phase, ClientType
<1>4. InHand(v) /\ PhaseOf(v)
  BY <1>1, <1>2, <1>3 DEF InHand, PhaseOf
<1> QED
  BY <1>1, <1>4 DEF ClientOK

\* A free name of a copy is one of its names.
LEMMA FreeCopyFacts ==
  ASSUME NEW id \in Id, NEW taken, ~ (Range(Copies[id]) \subseteq taken)
  PROVE  FreeCopy(id, taken) \in Range(Copies[id]) /\ FreeCopy(id, taken) \in Id \ taken
<1> DEFINE Below == {ss \in Nat \X Nat : ss[1] < ss[2]}
           S == {n \in DOMAIN Copies[id] : Copies[id][n] \notin taken}
<1>1. Copies[id] \in Seq(Id)
  BY CatalogAssumption
<1>2. S \subseteq Nat /\ S # {}
  BY <1>1 DEF Range
<1>3. IsWellFoundedOn(Below, Nat)
  BY NatLessThanWellFounded DEF OpToRel
<1>4. PICK m \in S : \A k \in S : ~ (<<k, m>> \in Below)
  <2> HIDE DEF S, Below
  <2> QED
    BY <1>2, <1>3, WFMin
<1>5. \A k \in S : m =< k
  <2> SUFFICES ASSUME NEW k \in S, k < m PROVE FALSE
    BY <1>2
  <2>1. <<k, m>> \in Below
    BY <1>2
  <2>. QED
    BY <1>4, <2>1
<1>6. Min(S) \in S
  <2> HIDE DEF S
  <2> QED
    BY <1>4, <1>5 DEF Min
<1>7. FreeCopy(id, taken) = Copies[id][Min(S)]
  BY DEF FreeCopy
<1>8. \A n \in S : Copies[id][n] \in Range(Copies[id]) /\ Copies[id][n] \in Id \ taken
  BY <1>1 DEF Range
<1> QED
  BY <1>6, <1>7, <1>8

LEMMA MatchFacts ==
  ASSUME NEW c \in Client, ClientOK(cl[c]), NEW p \in Matches(c)
  PROVE  /\ p \in Path /\ p \in DOMAIN cl[c].seen /\ cl[c].seen[p] \in Case
         /\ cl[c].seen[p].id = cl[c].tc.id /\ CategoryOf(p[1]) = Item(c).cat
<1>1. cl[c].seen \in Seen
  BY DEF ClientOK, ClientType
<1> QED
  BY <1>1, SeenFacts DEF Matches

LEMMA ItemFacts ==
  ASSUME NEW c \in Client, ClientOK(cl[c]), InItem(cl[c])
  PROVE  /\ cl[c].req \in Requests /\ cl[c].req # None
         /\ cl[c].req.type \in Type /\ cl[c].req.target \in Dir
         /\ Item(c).cat \in Category /\ Item(c).id \in Id
         /\ cl[c].k \in DOMAIN cl[c].req.items /\ cl[c].k \in Nat \ {0}
         /\ InHand(cl[c]) /\ PhaseOf(cl[c]) /\ cl[c] \in ClientType
         /\ Item(c) = cl[c].req.items[cl[c].k]
<1>1. /\ cl[c] \in ClientType /\ cl[c].req # None
      /\ cl[c].k \in DOMAIN cl[c].req.items /\ InHand(cl[c]) /\ PhaseOf(cl[c])
  BY DEF ClientOK, InItem
<1>2. cl[c].req \in Requests /\ cl[c].k \in Nat \ {0}
  BY <1>1 DEF ClientType
<1> QED
  BY <1>1, <1>2, RequestFacts DEF Item

-----------------------------------------------------------------------------
(***************************************************************************)
(* Every step is of one of the kinds                                       *)
(***************************************************************************)

\* Where a request may go on to.
LEMMA NextItemTurn ==
  ASSUME CatalogTypeOK, NEW c \in Client, InItem(cl[c]), NEW n \in Nat,
         Go(c, NextItem(cl[c], n)), dirs' \subseteq Dir, UNCHANGED overlapped
  PROVE  Calm(c, NextItem(cl[c], n))
<1> DEFINE s == NextItem(cl[c], n)
<1>1. ClientOK(cl[c]) /\ overlapped \in BOOLEAN
  BY DEF CatalogTypeOK
<1>2. /\ cl[c] \in ClientType /\ cl[c].req # None /\ cl[c].k \in Nat
  BY <1>1, ItemFacts
<1>3. ClientOK(s)
  BY <1>1, <1>2, NextItemOK
<1>4. s.req = cl[c].req /\ s.pc = "item" /\ s.k = cl[c].k + 1 /\ s.seen = cl[c].seen
  BY <1>2 DEF NextItem, ClientType
<1>5. Made(cl[c]) \subseteq Made(s)
  BY <1>2, <1>4 DEF Made, Phase
<1> QED
  BY <1>1, <1>2, <1>3, <1>4, <1>5 DEF Calm, Turn

LEMMA RefuseTurn ==
  ASSUME CatalogTypeOK, NEW c \in Client, cl[c].req # None,
         Go(c, Refuse(cl[c])), dirs' \subseteq Dir, UNCHANGED overlapped
  PROVE  Calm(c, Refuse(cl[c]))
<1> DEFINE s == Refuse(cl[c])
<1>1. ClientOK(cl[c]) /\ overlapped \in BOOLEAN
  BY DEF CatalogTypeOK
<1>2. cl[c] \in ClientType /\ cl[c].k \in Nat
  BY <1>1 DEF ClientOK, ClientType
<1>3. ClientOK(s)
  BY <1>1, RefuseOK
<1>4. s.req = cl[c].req /\ s.pc = "done" /\ s.k = cl[c].k /\ s.seen = cl[c].seen
  BY <1>2 DEF Refuse, ClientType
<1>5. Made(cl[c]) \subseteq Made(s)
  BY <1>2, <1>4 DEF Made, Phase
<1> QED
  BY <1>1, <1>3, <1>4, <1>5 DEF Calm, Turn

\* From one phase of an item to another.
LEMMA PhaseTurn ==
  ASSUME CatalogTypeOK, NEW c \in Client, cl[c].pc \notin {"idle", "done"},
         NEW s \in ClientType, Phase(cl[c]) \in {"write", "check"} => Phase(s) = "check",
         s.req = cl[c].req, s.k = cl[c].k, s.k \in DOMAIN s.req.items, s.pc # "idle",
         InHand(s), PhaseOf(s), Go(c, s), dirs' \subseteq Dir, UNCHANGED overlapped
  PROVE  Turn(c, s)
<1>1. ClientOK(cl[c]) /\ overlapped \in BOOLEAN
  BY DEF CatalogTypeOK
<1>2. ClientOK(s) /\ s.req # None
  BY <1>1 DEF ClientOK
<1>3. s.k \in Nat /\ Phase(cl[c]) # "done"
  BY <1>1 DEF ClientOK, ClientType, Phase
<1>4. Made(cl[c]) \subseteq Made(s)
  BY <1>3 DEF Made
<1> QED
  BY <1>1, <1>2, <1>4 DEF Turn

LEMMA WalkTurn ==
  ASSUME CatalogTypeOK, NEW c \in Client, cl[c].pc \notin {"idle", "done"},
         NEW s \in ClientType, NEW goal \in {"find", "place", "list", "check"},
         Phase(cl[c]) \in {"write", "check"} => goal = "check",
         s.req = cl[c].req, s.k = cl[c].k, s.k \in DOMAIN s.req.items,
         LET w == [s EXCEPT !.pc = goal] IN InHand(w) /\ PhaseOf(w),
         Go(c, WalkFor(s, goal)), dirs' \subseteq Dir, UNCHANGED overlapped
  PROVE  Calm(c, WalkFor(s, goal))
<1> DEFINE v == WalkFor(s, goal)
<1>1. ClientOK(cl[c]) /\ overlapped \in BOOLEAN
  BY DEF CatalogTypeOK
<1>2. s.req # None /\ s.k \in Nat
  BY <1>1 DEF ClientOK, ClientType
<1>3. ClientOK(v)
  BY <1>2, WalkForOK
<1>4. v.req = s.req /\ v.k = s.k /\ v.pc = "walk" /\ v.goal = goal /\ v.seen = <<>>
  BY DEF WalkFor, ClientType
<1>5. Phase(cl[c]) # "done" /\ Phase(v) = goal
  BY <1>1, <1>4 DEF ClientOK, ClientType, Phase
<1>6. Made(cl[c]) \subseteq Made(v)
  BY <1>2, <1>4, <1>5 DEF Made
<1> QED
  BY <1>1, <1>2, <1>3, <1>4, <1>6 DEF Calm, Turn

LEMMA IdleFacts ==
  Idle \in ClientType /\ Idle.pc = "idle" /\ Idle.req = None /\ Idle.seen = <<>> /\ Idle.k = 1
<1>1. Blank \in [id : Id \cup {None}, text : Text \cup {None}, order : Nat]
  BY DEF Blank
<1>2. ASSUME NEW f \in Seen, NEW b \in [id : Id \cup {None}, text : Text \cup {None}, order : Nat]
      PROVE  [pc |-> "idle", req |-> None, k |-> 1, done |-> 0, goal |-> "find",
              unread |-> {}, todo |-> {}, seen |-> f, tc |-> b, path |-> None,
              fd |-> None] \in ClientType
  BY <1>2 DEF ClientType
<1> QED
  BY <1>1, <1>2, EmptySeen DEF Idle

LEMMA StartIsQuiet ==
  ASSUME CatalogTypeOK, NEW c \in Client, NEW req \in Requests, Start(c, req)
  PROVE  Quiet(c)
<1> DEFINE s == [Idle EXCEPT !.pc = "item", !.req = req]
<1>1. s \in ClientType /\ s.pc = "item" /\ s.req = req /\ s.seen = <<>> /\ s.k = 1
  BY IdleFacts DEF ClientType
<1>2. ClientOK(s) /\ s.req # None
  BY <1>1, RequestFacts DEF ClientOK, InItem
<1>3. /\ ClientOK(cl[c]) /\ cl[c].pc = "idle" /\ cl[c].req = None
      /\ cl[c] \in ClientType
  BY DEF CatalogTypeOK, Start, ClientOK
<1>4. dirs' \subseteq Dir /\ overlapped' \in BOOLEAN
  BY DEF CatalogTypeOK, FilesOK, Start, files
<1>5. cl[c].k = 1 /\ Made(cl[c]) = Made(s)
  BY <1>1, <1>3 DEF ClientOK, Made, Phase
<1> QED
  BY <1>1, <1>2, <1>3, <1>4, <1>5 DEF Quiet, Calm, Turn, Start, files

\* A step that only changes what the request has in hand.
LEMMA CalmIsQuiet ==
  ASSUME CatalogTypeOK, NEW c \in Client, NEW s, Calm(c, s), cl[c].pc # "write",
         UNCHANGED <<at, file, trash>>
  PROVE  Quiet(c)
BY DEF Quiet

LEMMA DirsKept ==
  ASSUME CatalogTypeOK, UNCHANGED <<dirs, overlapped>>
  PROVE  dirs' \subseteq Dir /\ UNCHANGED overlapped
BY DEF CatalogTypeOK, FilesOK

LEMMA BeginItemIsQuiet ==
  ASSUME CatalogTypeOK, NEW c \in Client, BeginItem(c)
  PROVE  Quiet(c)
<1> DEFINE me == cl[c]
           named == [me EXCEPT !.tc = [Blank EXCEPT !.id = Item(c).id]]
<1>1. /\ ClientOK(me) /\ me \in ClientType /\ me.pc = "item" /\ me.req # None
      /\ me.req \in Requests /\ me.k \in Nat \ {0} /\ Phase(me) = "item"
  BY DEF CatalogTypeOK, BeginItem, ClientOK, ClientType, Phase
<1>2. UNCHANGED <<at, file, trash, dirs, overlapped>> /\ dirs' \subseteq Dir
  BY DirsKept DEF BeginItem, files
<1>3. CASE me.k > Len(me.req.items)
  <2>1. Go(c, Refuse(me))
    BY <1>3 DEF BeginItem
  <2> QED
    BY <1>1, <1>2, <2>1, RefuseTurn, CalmIsQuiet
<1>4. CASE ~ (me.k > Len(me.req.items))
  <2>1. /\ me.k \in DOMAIN me.req.items /\ Item(c).id \in Id /\ me.req.type \in Type
        /\ Item(c) = me.req.items[me.k]
    BY <1>1, <1>4, RequestFacts DEF Item
  <2>2. /\ named \in ClientType /\ named.req = me.req /\ named.k = me.k /\ named.pc = me.pc
        /\ named.tc = [id |-> Item(c).id, text |-> None, order |-> 0]
        /\ named.seen = me.seen
    BY <1>1, <2>1 DEF ClientType, Blank
  <2>3. CASE me.req.type = "save"
    <3> DEFINE s == [named EXCEPT !.pc = "mkdir", !.tc.text = c]
    <3>1. Go(c, s)
      BY <1>4, <2>3 DEF BeginItem
    <3>2. /\ s \in ClientType /\ s.pc = "mkdir" /\ s.req = me.req /\ s.k = me.k
          /\ s.tc = [id |-> Item(c).id, text |-> c, order |-> 0] /\ s.seen = me.seen
      BY <2>1, <2>2 DEF ClientType, Text
    <3> HIDE DEF s
    <3>3. s.tc \in Case
      BY <2>1, <3>2 DEF Case, Text
    <3>4. InHand(s) /\ PhaseOf(s)
      BY <2>1, <2>3, <3>2, <3>3 DEF InHand, PhaseOf, Phase, Saving
    <3>5. Turn(c, s)
      BY <1>1, <1>2, <2>1, <3>1, <3>2, <3>4, PhaseTurn
    <3> QED
      BY <1>1, <1>2, <3>2, <3>5, CalmIsQuiet DEF Calm
  <2>4. CASE me.req.type \in {"dropFolder", "createFolder"}
    <3> DEFINE s == [me EXCEPT !.pc = "folder"]
    <3>1. Go(c, s)
      BY <1>4, <2>4 DEF BeginItem
    <3>2. /\ s \in ClientType /\ s.pc = "folder" /\ s.req = me.req /\ s.k = me.k
          /\ s.seen = me.seen
      BY <1>1 DEF ClientType
    <3>4. InHand(s) /\ PhaseOf(s)
      BY <3>2 DEF InHand, PhaseOf, Phase
    <3>5. Turn(c, s)
      BY <1>1, <1>2, <2>1, <3>1, <3>2, <3>4, PhaseTurn
    <3> QED
      BY <1>1, <1>2, <3>2, <3>5, CalmIsQuiet DEF Calm
  <2>5. CASE me.req.type \notin {"save", "dropFolder", "createFolder"}
    <3> DEFINE w == [named EXCEPT !.pc = "find"]
    <3>1. Go(c, WalkFor(named, "find"))
      BY <1>4, <2>5 DEF BeginItem
    <3>2. w.pc = "find" /\ w.req = me.req /\ w.k = me.k /\ w.tc = named.tc
      BY <2>2 DEF ClientType
    <3>3. InHand(w) /\ PhaseOf(w)
      BY <2>1, <2>2, <2>5, <3>2 DEF InHand, PhaseOf, Phase, Finding, Type
    <3>4. Calm(c, WalkFor(named, "find"))
      BY <1>1, <1>2, <2>1, <2>2, <3>1, <3>3, WalkTurn
    <3> QED
      BY <1>1, <1>2, <3>4, CalmIsQuiet
  <2> QED
    BY <2>3, <2>4, <2>5
<1> QED
  BY <1>3, <1>4

LEMMA ReadDirIsQuiet ==
  ASSUME CatalogTypeOK, NEW c \in Client, ReadDir(c)
  PROVE  Quiet(c)
<1> DEFINE me == cl[c]
           d == IF Root \in me.unread THEN Root ELSE CHOOSE e \in me.unread : TRUE
           read == [me EXCEPT
                        !.todo = {p \in Path : p[1] = d /\ at[p] # None},
                        !.unread = (@ \ {d}) \cup IF d = Root THEN dirs \ {Root} ELSE {}]
           lost == [me EXCEPT !.pc = me.goal, !.seen = <<>>]
<1>1. /\ ClientOK(me) /\ me \in ClientType /\ me.pc = "walk" /\ InItem(me)
      /\ InHand(me) /\ PhaseOf(me) /\ me.k \in DOMAIN me.req.items
  BY DEF CatalogTypeOK, ReadDir, ClientOK, InItem
<1>2. UNCHANGED <<at, file, trash, dirs, overlapped>> /\ dirs' \subseteq Dir /\ dirs \subseteq Dir
  BY DirsKept DEF ReadDir, files
<1>3. Go(c, read) \/ Go(c, lost)
  BY DEF ReadDir
<1>4. /\ read \in ClientType /\ read.pc = "walk" /\ read.req = me.req /\ read.k = me.k
      /\ read.tc = me.tc /\ read.path = me.path /\ read.seen = me.seen /\ read.goal = me.goal
  <2> DEFINE todo == {p \in Path : p[1] = d /\ at[p] # None}
             unread == (me.unread \ {d}) \cup IF d = Root THEN dirs \ {Root} ELSE {}
  <2>1. todo \in SUBSET Path /\ unread \in SUBSET Dir
    BY <1>1, <1>2 DEF ClientType
  <2>2. read = [me EXCEPT !.todo = todo, !.unread = unread]
    OBVIOUS
  <2> HIDE DEF todo, unread, read
  <2> QED
    BY <1>1, <2>1, <2>2 DEF ClientType
<1>5. /\ lost \in ClientType /\ lost.pc = me.goal /\ lost.req = me.req /\ lost.k = me.k
      /\ lost.tc = me.tc /\ lost.path = me.path /\ lost.seen = <<>>
      /\ me.goal \in {"find", "place", "list", "check"}
  BY <1>1, EmptySeen DEF ClientType
<1>6. /\ InHand(read) /\ PhaseOf(read) /\ InHand(lost) /\ PhaseOf(lost)
      /\ Phase(read) = Phase(me) /\ Phase(lost) = Phase(me) /\ Phase(me) # "write"
  BY <1>1, <1>4, <1>5 DEF InHand, PhaseOf, Phase
<1> HIDE DEF read, lost
<1>7. CASE Go(c, read)
  <2>1. Turn(c, read)
    BY <1>1, <1>2, <1>4, <1>6, <1>7, PhaseTurn
  <2> QED
    BY <1>1, <1>2, <1>4, <2>1, CalmIsQuiet DEF Calm
<1>8. CASE Go(c, lost)
  <2>1. Turn(c, lost)
    BY <1>1, <1>2, <1>5, <1>6, <1>8, PhaseTurn
  <2> QED
    BY <1>1, <1>2, <1>5, <2>1, CalmIsQuiet DEF Calm
<1> QED
  BY <1>3, <1>7, <1>8

LEMMA WalkEndIsQuiet ==
  ASSUME CatalogTypeOK, NEW c \in Client, WalkEnd(c)
  PROVE  Quiet(c)
<1> DEFINE me == cl[c]
           s == [me EXCEPT !.pc = me.goal]
<1>1. /\ ClientOK(me) /\ me \in ClientType /\ me.pc = "walk"
      /\ InHand(me) /\ PhaseOf(me) /\ me.k \in DOMAIN me.req.items
  BY DEF CatalogTypeOK, WalkEnd, ClientOK, InItem
<1>2. UNCHANGED <<at, file, trash, dirs, overlapped>> /\ dirs' \subseteq Dir
  BY DirsKept DEF WalkEnd, files
<1>3. Go(c, s)
  BY DEF WalkEnd
<1>4. /\ s \in ClientType /\ s.pc = me.goal /\ s.req = me.req /\ s.k = me.k
      /\ s.tc = me.tc /\ s.path = me.path /\ s.seen = me.seen
      /\ me.goal \in {"find", "place", "list", "check"}
  BY <1>1 DEF ClientType
<1>5. InHand(s) /\ PhaseOf(s) /\ Phase(s) = Phase(me) /\ Phase(me) # "write"
  BY <1>1, <1>4 DEF InHand, PhaseOf, Phase
<1>6. Turn(c, s)
  BY <1>1, <1>2, <1>3, <1>4, <1>5, PhaseTurn
<1> QED
  BY <1>1, <1>2, <1>4, <1>6, CalmIsQuiet DEF Calm

LEMMA NotFoundIsQuiet ==
  ASSUME CatalogTypeOK, NEW c \in Client, NotFound(c)
  PROVE  Quiet(c)
<1>1. UNCHANGED <<at, file, trash, dirs, overlapped>> /\ dirs' \subseteq Dir
  BY DirsKept DEF NotFound, files
<1>2. cl[c].pc = "find" /\ InItem(cl[c]) /\ cl[c].req # None
  BY DEF NotFound, At, InItem, CatalogTypeOK, ClientOK
<1>3. Go(c, NextItem(cl[c], 0)) \/ Go(c, Refuse(cl[c]))
  BY DEF NotFound
<1> QED
  BY <1>1, <1>2, <1>3, NextItemTurn, RefuseTurn, CalmIsQuiet

LEMMA LoadKinds ==
  ASSUME CatalogTypeOK, NEW c \in Client, Load(c)
  PROVE  Quiet(c) \/ Reads(c)
<1> DEFINE me == cl[c]
           p == CHOOSE q \in me.todo : TRUE
           f == file[at[p]]
           tc == [id |-> f.id, text |-> f.text, order |-> f.order]
           seen == [q \in DOMAIN me.seen \cup {p} |-> IF q = p THEN tc ELSE me.seen[q]]
           read == [me EXCEPT !.todo = @ \ {p}, !.seen = [q \in DOMAIN @ \cup {p} |->
                                                  IF q = p THEN tc ELSE @[q]]]
           lost == [me EXCEPT !.pc = me.goal, !.seen = <<>>]
<1>1. /\ ClientOK(me) /\ me \in ClientType /\ me.pc = "walk" /\ InItem(me) /\ me.req # None
      /\ InHand(me) /\ PhaseOf(me) /\ me.k \in DOMAIN me.req.items
      /\ me.seen \in Seen /\ me.todo \in SUBSET Path /\ me.todo # {}
  BY DEF CatalogTypeOK, Load, ClientOK, InItem, ClientType
<1>2. UNCHANGED <<at, file, trash, dirs, overlapped>> /\ dirs' \subseteq Dir
  BY DirsKept DEF Load, files
<1>3. p \in Path
  BY <1>1
<1>4. \/ at[p] # None /\ Go(c, read)
      \/ Go(c, lost)
      \/ Go(c, Refuse(me))
  BY DEF Load
<1>5. /\ lost \in ClientType /\ lost.pc = me.goal /\ lost.req = me.req /\ lost.k = me.k
      /\ lost.tc = me.tc /\ lost.path = me.path /\ lost.seen = <<>>
      /\ me.goal \in {"find", "place", "list", "check"}
  BY <1>1, EmptySeen DEF ClientType
<1>6. /\ InHand(lost) /\ PhaseOf(lost)
      /\ Phase(lost) = Phase(me) /\ Phase(me) # "write"
  BY <1>1, <1>5 DEF InHand, PhaseOf, Phase
<1>7. CASE at[p] # None /\ Go(c, read)
  <2>1. f \in File
    BY <1>3, <1>7 DEF CatalogTypeOK, FilesOK
  <2>2. tc \in Case
    BY <2>1 DEF Case, File
  <2>3. seen \in Seen
    <3>1. DOMAIN me.seen \cup {p} \in SUBSET Path
      BY <1>1, <1>3, SeenFacts
    <3>2. seen \in [DOMAIN me.seen \cup {p} -> Case]
      BY <1>1, <2>2, SeenFacts
    <3> QED
      BY <3>1, <3>2 DEF Seen
  <2>4. read = [me EXCEPT !.todo = me.todo \ {p}, !.seen = seen]
    OBVIOUS
  <2>5. me.todo \ {p} \in SUBSET Path
    BY <1>1
  <2> HIDE DEF read, seen, tc, p
  <2>6. /\ read \in ClientType /\ read.pc = "walk" /\ read.req = me.req /\ read.k = me.k
        /\ read.tc = me.tc /\ read.path = me.path /\ read.seen = seen /\ read.goal = me.goal
    BY <1>1, <2>3, <2>4, <2>5 DEF ClientType
  <2>7. InHand(read) /\ PhaseOf(read) /\ Phase(read) = Phase(me)
    BY <1>1, <2>6 DEF InHand, PhaseOf, Phase
  <2>8. Turn(c, read)
    BY <1>1, <1>2, <1>6, <1>7, <2>6, <2>7, PhaseTurn
  <2>9. Reads(c)
    BY <1>1, <1>2, <1>3, <1>7, <2>6, <2>8 DEF Reads, seen, tc
  <2> QED
    BY <2>9
<1> HIDE DEF lost
<1>8. CASE Go(c, lost)
  <2>1. Turn(c, lost)
    BY <1>1, <1>2, <1>5, <1>6, <1>8, PhaseTurn
  <2> QED
    BY <1>1, <1>2, <1>5, <2>1, CalmIsQuiet DEF Calm
<1>9. CASE Go(c, Refuse(me))
  BY <1>1, <1>2, <1>9, RefuseTurn, CalmIsQuiet
<1> QED
  BY <1>4, <1>7, <1>8, <1>9

LEMMA DeleteKinds ==
  ASSUME CatalogTypeOK, NEW c \in Client, Delete(c)
  PROVE  Quiet(c) \/ Deletes(c)
<1>1. cl[c].pc = "find" /\ cl[c].req.type = "delete" /\ InItem(cl[c]) /\ cl[c].req # None
  BY DEF Delete, At, InItem, CatalogTypeOK, ClientOK
<1>2. PICK p \in Matches(c) :
          IF at[p] = None
          THEN Go(c, Refuse(cl[c])) /\ UNCHANGED files
          ELSE /\ at' = [at EXCEPT ![p] = None]
               /\ trash' = trash \cup {at[p]}
               /\ Go(c, NextItem(cl[c], 1))
               /\ UNCHANGED <<dirs, file>>
  BY DEF Delete
<1>3. UNCHANGED <<dirs, overlapped>> /\ dirs' \subseteq Dir
  BY <1>2, DirsKept DEF files, Delete
<1>4. CASE at[p] = None
  BY <1>1, <1>2, <1>3, <1>4, RefuseTurn, CalmIsQuiet DEF files
<1>5. CASE at[p] # None
  BY <1>1, <1>2, <1>3, <1>5, NextItemTurn DEF Deletes
<1> QED
  BY <1>4, <1>5

LEMMA MoveRefusedIsQuiet ==
  ASSUME CatalogTypeOK, NEW c \in Client, MoveRefused(c)
  PROVE  Quiet(c)
<1>1. UNCHANGED <<at, file, trash, dirs, overlapped>> /\ dirs' \subseteq Dir
  BY DirsKept DEF MoveRefused, files
<1>2. cl[c].pc = "find" /\ InItem(cl[c]) /\ Go(c, NextItem(cl[c], 0))
  BY DEF MoveRefused, At, InItem
<1> QED
  BY <1>1, <1>2, NextItemTurn, CalmIsQuiet

LEMMA MoveMkdirKinds ==
  ASSUME CatalogTypeOK, NEW c \in Client, MoveMkdir(c)
  PROVE  Quiet(c) \/ Aims(c)
<1> DEFINE me == cl[c]
<1>1. /\ me.pc = "find" /\ me.req.type = "move" /\ InItem(me) /\ ClientOK(me)
      /\ me.req.target \notin {Root, Unc}
  BY DEF MoveMkdir, At, InItem, CatalogTypeOK
<1>2. me.req \in Requests /\ me.req.target \in Dir /\ me \in ClientType /\ InHand(me)
      /\ me.k \in DOMAIN me.req.items /\ Item(c) = me.req.items[me.k]
  BY <1>1, ItemFacts
<1>3. UNCHANGED <<at, file, trash, overlapped>> /\ dirs' \subseteq Dir
  BY <1>2 DEF MoveMkdir, CatalogTypeOK, FilesOK
<1>4. PICK p \in Matches(c) :
          Go(c, IF p = <<me.req.target, me.tc.id>> THEN NextItem(me, 1)
                ELSE [me EXCEPT !.pc = "rename", !.path = p])
  BY DEF MoveMkdir
<1>5. CASE Go(c, NextItem(me, 1))
  BY <1>1, <1>3, <1>5, NextItemTurn, CalmIsQuiet
<1>6. CASE Go(c, [me EXCEPT !.pc = "rename", !.path = p])
  <2> DEFINE s == [me EXCEPT !.pc = "rename", !.path = p]
  <2>1. p \in Path /\ CategoryOf(p[1]) = Item(c).cat
    BY <1>1, MatchFacts
  <2>2. /\ s \in ClientType /\ s.pc = "rename" /\ s.req = me.req /\ s.k = me.k
        /\ s.tc = me.tc /\ s.path = p /\ s.seen = me.seen
    BY <1>2, <2>1 DEF ClientType
  <2> HIDE DEF s
  <2>3. InHand(s) /\ PhaseOf(s) /\ Phase(me) = "find"
    BY <1>1, <1>2, <2>1, <2>2 DEF InHand, PhaseOf, Phase
  <2>4. Turn(c, s)
    BY <1>1, <1>2, <1>3, <1>6, <2>2, <2>3, PhaseTurn DEF s
  <2> QED
    BY <1>1, <1>3, <2>2, <2>4 DEF Aims
<1> QED
  BY <1>4, <1>5, <1>6

LEMMA MoveRenameKinds ==
  ASSUME CatalogTypeOK, NEW c \in Client, MoveRename(c)
  PROVE  Quiet(c) \/ Moves(c)
<1>1. cl[c].pc = "rename" /\ InItem(cl[c])
  BY DEF MoveRename, InItem
<1>2. UNCHANGED <<dirs, file, trash, overlapped>> /\ dirs' \subseteq Dir
  BY DirsKept DEF MoveRename
<1>3. CASE Go(c, NextItem(cl[c], 0)) /\ UNCHANGED at
  BY <1>1, <1>2, <1>3, NextItemTurn, CalmIsQuiet
<1>4. CASE /\ at[cl[c].path] # None
           /\ at' = [at EXCEPT ![cl[c].path] = None,
                               ![<<cl[c].req.target, cl[c].tc.id>>] = at[cl[c].path]]
           /\ Go(c, NextItem(cl[c], 1))
  BY <1>1, <1>2, <1>4, NextItemTurn DEF Moves
<1> QED
  BY <1>3, <1>4 DEF MoveRename

LEMMA MkdirIsQuiet ==
  ASSUME CatalogTypeOK, NEW c \in Client, Mkdir(c)
  PROVE  Quiet(c)
<1> DEFINE me == cl[c]
           w == [me EXCEPT !.pc = "place"]
<1>1. me.pc = "mkdir" /\ InItem(me) /\ ClientOK(me)
  BY DEF Mkdir, InItem, CatalogTypeOK
<1>2. /\ me \in ClientType /\ InHand(me) /\ PhaseOf(me) /\ Item(c).cat \in Category
      /\ me.k \in DOMAIN me.req.items
  BY <1>1, ItemFacts
<1>3. UNCHANGED <<at, file, trash, overlapped>> /\ dirs' \subseteq Dir
  BY <1>2 DEF Mkdir, CatalogTypeOK, FilesOK, Category
<1>4. w.pc = "place" /\ w.req = me.req /\ w.k = me.k /\ w.tc = me.tc /\ w.path = me.path
  BY <1>2 DEF ClientType
<1>5. InHand(w) /\ PhaseOf(w) /\ Phase(me) = "mkdir"
  BY <1>1, <1>2, <1>4 DEF InHand, PhaseOf, Phase
<1>6. Calm(c, WalkFor(me, "place"))
  BY <1>1, <1>2, <1>3, <1>5, WalkTurn DEF Mkdir
<1> QED
  BY <1>1, <1>3, <1>6, CalmIsQuiet

LEMMA PlaceFacts ==
  ASSUME CatalogTypeOK, NEW c \in Client, cl[c].pc = "place", NEW p \in Place(c)
  PROVE  /\ p \in Path
         /\ \/ p \in Matches(c)
            \/ p = <<Item(c).cat, cl[c].tc.id>> /\ Item(c).cat \in Category
<1>1. InItem(cl[c]) /\ ClientOK(cl[c]) /\ Phase(cl[c]) = "place"
  BY DEF InItem, Phase, CatalogTypeOK
<1>2. Item(c).cat \in Category /\ cl[c].tc.id \in Id
  <2>1. cl[c].tc \in Case
    BY <1>1, ItemFacts DEF InHand
  <2> QED
    BY <1>1, <2>1, ItemFacts DEF Case
<1> QED
  BY <1>1, <1>2, MatchFacts, CatalogAssumption DEF Place, Path, Category

LEMMA OpenFileKinds ==
  ASSUME CatalogTypeOK, NEW c \in Client, OpenFile(c)
  PROVE  Quiet(c) \/ Opens(c)
<1> DEFINE me == cl[c]
<1>1. me.pc = "place" /\ InItem(me) /\ ClientOK(me) /\ me.req # None
  BY DEF OpenFile, InItem, CatalogTypeOK, ClientOK
<1>2. /\ me \in ClientType /\ InHand(me) /\ PhaseOf(me) /\ me.k \in Nat \ {0}
      /\ me.k \in DOMAIN me.req.items
  BY <1>1, ItemFacts
<1>3. PICK p \in Place(c) :
          IF p[1] \notin dirs
          THEN Go(c, SaveFailed(c)) /\ UNCHANGED files
          ELSE LET i == IF at[p] = None THEN <<c, me.k>> ELSE at[p]
                   f == [id |-> me.tc.id, text |-> me.tc.text,
                         order |-> me.tc.order, state |-> "empty"]
               IN  /\ at' = [at EXCEPT ![p] = i]
                   /\ file' = [j \in DOMAIN file \cup {i} |-> IF j = i THEN f ELSE file[j]]
                   /\ Go(c, [me EXCEPT !.pc = "write", !.fd = i])
                   /\ UNCHANGED <<dirs, trash>>
  BY DEF OpenFile
<1>4. UNCHANGED <<dirs, trash, overlapped>> /\ dirs' \subseteq Dir
  BY <1>3, DirsKept DEF files, OpenFile
<1>5. CASE p[1] \notin dirs
  <2>1. (Go(c, NextItem(me, 1)) \/ Go(c, Refuse(me))) /\ UNCHANGED files
    BY <1>3, <1>5 DEF SaveFailed
  <2> QED
    BY <1>1, <1>4, <2>1, NextItemTurn, RefuseTurn, CalmIsQuiet DEF files
<1>6. CASE p[1] \in dirs
  <2> DEFINE i == IF at[p] = None THEN <<c, me.k>> ELSE at[p]
             s == [me EXCEPT !.pc = "write", !.fd = i]
  <2>1. p \in Path
    BY <1>1, PlaceFacts
  <2>2. i \in Inode
    BY <1>2, <2>1 DEF Inode, CatalogTypeOK, FilesOK
  <2>3. Go(c, s)
    BY <1>3, <1>6
  <2>4. /\ at' = [at EXCEPT ![p] = i]
        /\ file' = [j \in DOMAIN file \cup {i} |->
                      IF j = i THEN [id |-> me.tc.id, text |-> me.tc.text,
                                     order |-> me.tc.order, state |-> "empty"]
                      ELSE file[j]]
    BY <1>3, <1>6
  <2>5. /\ s \in ClientType /\ s.pc = "write" /\ s.req = me.req /\ s.k = me.k
        /\ s.tc = me.tc /\ s.fd = i /\ s.seen = me.seen
    <3> HIDE DEF i
    <3> QED
      BY <1>2, <2>2 DEF ClientType
  <2> HIDE DEF s
  <2>6. InHand(s) /\ PhaseOf(s) /\ Phase(me) = "place"
    BY <1>1, <1>2, <2>5 DEF InHand, PhaseOf, Phase
  <2>7. Turn(c, s)
    BY <1>1, <1>2, <1>4, <2>3, <2>5, <2>6, PhaseTurn
  <2> QED
    BY <1>1, <1>4, <2>4, <2>5, <2>7 DEF Opens
<1> QED
  BY <1>5, <1>6

LEMMA WriteKinds ==
  ASSUME CatalogTypeOK, NEW c \in Client, Write(c)
  PROVE  Writes(c)
<1> DEFINE me == cl[c]
           w == [me EXCEPT !.pc = "check"]
<1>1. me.pc = "write" /\ InItem(me) /\ ClientOK(me)
  BY DEF Write, InItem, CatalogTypeOK
<1>2. /\ me \in ClientType /\ InHand(me) /\ PhaseOf(me) /\ me.k \in DOMAIN me.req.items
  BY <1>1, ItemFacts
<1>3. UNCHANGED <<dirs, at, trash, overlapped>> /\ dirs' \subseteq Dir
  BY DirsKept DEF Write
<1>4. \E s : Calm(c, s)
  <2>1. CASE me.req.type = "duplicate"
    <3>1. Go(c, WalkFor(me, "check"))
      BY <2>1 DEF Write
    <3>2. w.pc = "check" /\ w.req = me.req /\ w.k = me.k /\ w.tc = me.tc /\ w.path = me.path
      BY <1>2 DEF ClientType
    <3>3. InHand(w) /\ PhaseOf(w) /\ Phase(me) = "write"
      BY <1>1, <1>2, <2>1, <3>2 DEF InHand, PhaseOf, Phase
    <3> QED
      BY <1>1, <1>2, <1>3, <3>1, <3>3, WalkTurn
  <2>2. CASE me.req.type # "duplicate"
    BY <1>1, <1>3, <2>2, NextItemTurn DEF Write
  <2> QED
    BY <2>1, <2>2
<1>5. \E state \in {"whole", "garbled"} :
          /\ state = "garbled" => file[me.fd].state # "empty"
          /\ file' = [file EXCEPT ![me.fd] =
                        [id |-> me.tc.id, text |-> me.tc.text, order |-> me.tc.order,
                         state |-> state]]
  BY DEF Write
<1> QED
  BY <1>1, <1>3, <1>4, <1>5 DEF Writes

LEMMA ReorderIsQuiet ==
  ASSUME CatalogTypeOK, NEW c \in Client, Reorder(c)
  PROVE  Quiet(c)
<1> DEFINE me == cl[c]
<1>1. me.pc = "find" /\ me.req.type = "reorder" /\ InItem(me) /\ ClientOK(me)
  BY DEF Reorder, At, InItem, CatalogTypeOK
<1>2. /\ me \in ClientType /\ InHand(me) /\ PhaseOf(me) /\ me.k \in DOMAIN me.req.items
      /\ me.k \in Nat \ {0} /\ Phase(me) = "find"
  BY <1>1, ItemFacts DEF Phase
<1>3. UNCHANGED <<at, file, trash, dirs, overlapped>> /\ dirs' \subseteq Dir
  BY DirsKept DEF Reorder, files
<1>4. PICK p \in Matches(c) :
          LET tc == me.seen[p]
          IN  Go(c, IF tc.order = me.k - 1 THEN NextItem(me, 0)
                    ELSE [me EXCEPT !.pc = "mkdir", !.tc = [tc EXCEPT !.order = me.k - 1]])
  BY DEF Reorder
<1>5. me.seen[p] \in Case /\ me.seen[p].id = me.tc.id
  BY <1>1, MatchFacts
<1>6. CASE Go(c, NextItem(me, 0))
  BY <1>1, <1>3, <1>6, NextItemTurn, CalmIsQuiet
<1>7. CASE Go(c, [me EXCEPT !.pc = "mkdir", !.tc = [me.seen[p] EXCEPT !.order = me.k - 1]])
  <2> DEFINE tc == [me.seen[p] EXCEPT !.order = me.k - 1]
             s == [me EXCEPT !.pc = "mkdir", !.tc = tc]
  <2>1. tc \in Case /\ tc.id = me.tc.id
    BY <1>2, <1>5 DEF Case
  <2>2. tc \in [id : Id \cup {None}, text : Text \cup {None}, order : Nat]
    BY <2>1 DEF Case
  <2>3. Go(c, s)
    BY <1>7
  <2> HIDE DEF tc
  <2>4. /\ s \in ClientType /\ s.pc = "mkdir" /\ s.req = me.req /\ s.k = me.k
        /\ s.tc = tc /\ s.seen = me.seen
    BY <1>2, <2>2 DEF ClientType
  <2> HIDE DEF s
  <2>5. InHand(s) /\ PhaseOf(s)
    BY <1>1, <1>2, <2>1, <2>4 DEF InHand, PhaseOf, Phase, Saving
  <2>6. Turn(c, s)
    BY <1>1, <1>2, <1>3, <2>3, <2>4, <2>5, PhaseTurn
  <2> QED
    BY <1>1, <1>3, <2>4, <2>6, CalmIsQuiet DEF Calm
<1> QED
  BY <1>4, <1>6, <1>7

LEMMA DuplicateFoundIsQuiet ==
  ASSUME CatalogTypeOK, NEW c \in Client, DuplicateFound(c)
  PROVE  Quiet(c)
<1> DEFINE me == cl[c]
<1>1. me.pc = "find" /\ me.req.type = "duplicate" /\ InItem(me) /\ ClientOK(me)
  BY DEF DuplicateFound, At, InItem, CatalogTypeOK
<1>2. /\ me \in ClientType /\ InHand(me) /\ PhaseOf(me) /\ me.k \in DOMAIN me.req.items
      /\ Phase(me) = "find"
  BY <1>1, ItemFacts DEF Phase
<1>3. UNCHANGED <<at, file, trash, dirs, overlapped>> /\ dirs' \subseteq Dir
  BY DirsKept DEF DuplicateFound, files
<1>4. PICK p \in Matches(c) : Go(c, WalkFor([me EXCEPT !.tc = me.seen[p]], "list"))
  BY DEF DuplicateFound
<1>5. me.seen[p] \in Case /\ me.seen[p].id = me.tc.id
  BY <1>1, MatchFacts
<1> DEFINE s == [me EXCEPT !.tc = me.seen[p]]
           w == [s EXCEPT !.pc = "list"]
<1>6. /\ s \in ClientType /\ s.req = me.req /\ s.k = me.k /\ s.seen = me.seen
      /\ s.tc = me.seen[p]
  BY <1>2, <1>5 DEF ClientType, Case
<1>7. w.pc = "list" /\ w.req = me.req /\ w.k = me.k /\ w.tc = me.seen[p]
  BY <1>2, <1>6 DEF ClientType
<1>8. InHand(w) /\ PhaseOf(w)
  <2> HIDE DEF w
  <2> QED
    BY <1>1, <1>2, <1>5, <1>7 DEF InHand, PhaseOf, Phase
<1>9. Calm(c, WalkFor(s, "list"))
  BY <1>1, <1>2, <1>3, <1>4, <1>6, <1>8, WalkTurn
<1> QED
  BY <1>1, <1>3, <1>9, CalmIsQuiet

LEMMA DuplicateNamedIsQuiet ==
  ASSUME CatalogTypeOK, NEW c \in Client, DuplicateNamed(c)
  PROVE  Quiet(c)
<1> DEFINE me == cl[c]
           taken == {me.seen[p].id : p \in {q \in DOMAIN me.seen : CategoryOf(q[1]) = Item(c).cat}}
           new == FreeCopy(me.tc.id, taken)
           s == [me EXCEPT !.pc = "mkdir", !.tc.id = new]
<1>1. me.pc = "list" /\ InItem(me) /\ ClientOK(me)
  BY DEF DuplicateNamed, InItem, CatalogTypeOK
<1>2. /\ me \in ClientType /\ InHand(me) /\ PhaseOf(me) /\ me.k \in DOMAIN me.req.items
      /\ Phase(me) = "list" /\ Item(c) = me.req.items[me.k]
  BY <1>1, ItemFacts DEF Phase
<1>3. UNCHANGED <<at, file, trash, dirs, overlapped>> /\ dirs' \subseteq Dir
  BY DirsKept DEF DuplicateNamed, files
<1>4. ~ (Range(Copies[me.tc.id]) \subseteq taken) /\ Go(c, s)
  BY DEF DuplicateNamed
<1>5. me.tc \in Case /\ me.tc.id = Item(c).id /\ me.req.type = "duplicate"
  BY <1>2 DEF InHand, PhaseOf
<1> HIDE DEF taken
<1>6. new \in Range(Copies[me.tc.id]) /\ new \in Id
  BY <1>4, <1>5, FreeCopyFacts DEF Case
<1> HIDE DEF new
<1>7. /\ s \in ClientType /\ s.pc = "mkdir" /\ s.req = me.req /\ s.k = me.k /\ s.seen = me.seen
      /\ s.tc \in Case /\ s.tc.id = new
  BY <1>2, <1>5, <1>6 DEF ClientType, Case
<1> HIDE DEF s
<1>8. InHand(s) /\ PhaseOf(s)
  BY <1>2, <1>5, <1>6, <1>7 DEF InHand, PhaseOf, Phase, Saving
<1>9. Turn(c, s)
  BY <1>1, <1>2, <1>3, <1>4, <1>7, <1>8, PhaseTurn
<1> QED
  BY <1>1, <1>3, <1>7, <1>9, CalmIsQuiet DEF Calm

LEMMA DuplicateCheckedIsQuiet ==
  ASSUME CatalogTypeOK, NEW c \in Client, DuplicateChecked(c)
  PROVE  Quiet(c)
<1>1. UNCHANGED <<at, file, trash, dirs, overlapped>> /\ dirs' \subseteq Dir
  BY DirsKept DEF DuplicateChecked, files
<1>2. cl[c].pc = "check" /\ InItem(cl[c]) /\ cl[c].req # None
  BY DEF DuplicateChecked, InItem, CatalogTypeOK, ClientOK
<1>3. Go(c, NextItem(cl[c], 1)) \/ Go(c, Refuse(cl[c]))
  BY DEF DuplicateChecked
<1> QED
  BY <1>1, <1>2, <1>3, NextItemTurn, RefuseTurn, CalmIsQuiet

LEMMA DropFolderKinds ==
  ASSUME CatalogTypeOK, NEW c \in Client, DropFolder(c)
  PROVE  Quiet(c) \/ Drops(c)
<1>1. cl[c].pc = "folder" /\ cl[c].req.type = "dropFolder" /\ InItem(cl[c]) /\ cl[c].req # None
  BY DEF DropFolder, At, InItem, CatalogTypeOK, ClientOK
<1>2. UNCHANGED <<file, overlapped>> /\ dirs' \subseteq Dir
  BY DEF DropFolder, files, CatalogTypeOK, FilesOK
<1>3. CASE Item(c).cat = Unc \/ Item(c).cat \notin dirs
  BY <1>1, <1>2, <1>3, RefuseTurn, CalmIsQuiet DEF DropFolder, files
<1>4. CASE ~ (Item(c).cat = Unc \/ Item(c).cat \notin dirs)
  BY <1>1, <1>2, <1>4, NextItemTurn DEF DropFolder, Drops
<1> QED
  BY <1>3, <1>4

LEMMA CreateFolderIsQuiet ==
  ASSUME CatalogTypeOK, NEW c \in Client, CreateFolder(c)
  PROVE  Quiet(c)
<1> DEFINE me == cl[c]
           s == [me EXCEPT !.pc = "gitkeep"]
<1>1. me.pc = "folder" /\ InItem(me) /\ ClientOK(me) /\ me.req # None
  BY DEF CreateFolder, At, InItem, CatalogTypeOK, ClientOK
<1>2. /\ me \in ClientType /\ Item(c).cat \in Dir /\ me.k \in DOMAIN me.req.items
      /\ Phase(me) = "folder"
  BY <1>1, ItemFacts DEF Category, Phase
<1>3. UNCHANGED <<at, file, trash, overlapped>> /\ dirs' \subseteq Dir
  BY <1>2 DEF CreateFolder, CatalogTypeOK, FilesOK
<1>4. Go(c, Refuse(me)) \/ Go(c, s)
  BY DEF CreateFolder
<1>5. s \in ClientType /\ s.pc = "gitkeep" /\ s.req = me.req /\ s.k = me.k /\ s.seen = me.seen
  BY <1>2 DEF ClientType
<1> HIDE DEF s
<1>6. InHand(s) /\ PhaseOf(s)
  BY <1>5 DEF InHand, PhaseOf, Phase
<1>7. CASE Go(c, s)
  <2>1. Turn(c, s)
    BY <1>1, <1>2, <1>3, <1>5, <1>6, <1>7, PhaseTurn
  <2> QED
    BY <1>1, <1>3, <1>5, <2>1, CalmIsQuiet DEF Calm
<1> QED
  BY <1>1, <1>3, <1>4, <1>7, RefuseTurn, CalmIsQuiet

LEMMA WriteGitkeepIsQuiet ==
  ASSUME CatalogTypeOK, NEW c \in Client, WriteGitkeep(c)
  PROVE  Quiet(c)
<1>1. UNCHANGED <<at, file, trash, dirs, overlapped>> /\ dirs' \subseteq Dir
  BY DirsKept DEF WriteGitkeep, files
<1>2. cl[c].pc = "gitkeep" /\ InItem(cl[c]) /\ cl[c].req # None
  BY DEF WriteGitkeep, InItem, CatalogTypeOK, ClientOK
<1>3. Go(c, NextItem(cl[c], 1)) \/ Go(c, Refuse(cl[c]))
  BY DEF WriteGitkeep
<1> QED
  BY <1>1, <1>2, <1>3, NextItemTurn, RefuseTurn, CalmIsQuiet

StepKind(c) ==
    \/ Quiet(c) \/ Reads(c) \/ Aims(c) \/ Deletes(c) \/ Moves(c)
    \/ Opens(c) \/ Writes(c) \/ Drops(c)

LEMMA StepKinds ==
  ASSUME CatalogTypeOK, NEW c \in Client, Step(c)
  PROVE  StepKind(c)
BY StartIsQuiet, BeginItemIsQuiet, ReadDirIsQuiet, LoadKinds, WalkEndIsQuiet, NotFoundIsQuiet,
   DeleteKinds, MoveRefusedIsQuiet, MoveMkdirKinds, MoveRenameKinds, MkdirIsQuiet,
   OpenFileKinds, WriteKinds, ReorderIsQuiet, DuplicateFoundIsQuiet, DuplicateNamedIsQuiet,
   DuplicateCheckedIsQuiet, DropFolderKinds, CreateFolderIsQuiet, WriteGitkeepIsQuiet
   DEF Step, StepKind

-----------------------------------------------------------------------------
(***************************************************************************)
(* Types                                                                   *)
(***************************************************************************)

LEMMA TurnFacts ==
  ASSUME CatalogTypeOK, NEW c \in Client, NEW s, Turn(c, s)
  PROVE  /\ DOMAIN cl' = Client /\ cl'[c] = s /\ ClientOK(s) /\ s \in ClientType
         /\ \A d \in Client : ClientOK(cl'[d]) /\ (d # c => cl'[d] = cl[d])
         /\ dirs' \subseteq Dir /\ overlapped' \in BOOLEAN
         /\ s.req # None /\ cl[c].req \in {s.req, None}
         /\ Made(cl[c]) \subseteq Made(s)
BY GoFacts DEF Turn, CatalogTypeOK, ClientOK

LEMMA CaseOfFile ==
  ASSUME NEW tc \in Case, NEW state \in {"empty", "whole", "garbled"}
  PROVE  [id |-> tc.id, text |-> tc.text, order |-> tc.order, state |-> state] \in File
BY DEF Case, File

LEMMA TypeInit == Init => CatalogTypeOK
<1> SUFFICES ASSUME Init PROVE CatalogTypeOK
  OBVIOUS
<1>1. \A p \in Path : None # p
  BY CatalogAssumption DEF Inode
<1>2. FilesOK
  <2>1. dirs \subseteq Dir
    BY CatalogAssumption DEF Init, Path
  <2>2. at \in [Path -> Inode \cup {None}]
    BY DEF Init, Inode
  <2>3. file \in [DOMAIN file -> File] /\ DOMAIN file = {q \in Path : Initial[q] # None}
    <3>1. \A p \in Path : Initial[p] # None =>
              [id |-> Initial[p], text |-> p, order |-> 0, state |-> "whole"] \in File
      BY CatalogAssumption DEF File, Text
    <3> QED
      BY <3>1 DEF Init
  <2>4. \A p \in Path : at[p] # None => at[p] \in DOMAIN file
    BY <1>1, <2>3 DEF Init
  <2> QED
    BY <2>1, <2>2, <2>3, <2>4 DEF FilesOK, Inode, Init
<1>3. ClientOK(Idle)
  BY IdleFacts DEF ClientOK, InItem
<1> QED
  BY <1>2, <1>3, IdleFacts DEF CatalogTypeOK, Init

LEMMA TypeNext == CatalogTypeOK /\ [Next]_vars => CatalogTypeOK'
<1> SUFFICES ASSUME CatalogTypeOK, [Next]_vars PROVE CatalogTypeOK'
  OBVIOUS
<1>1. CASE UNCHANGED vars
  BY <1>1 DEF vars, CatalogTypeOK, FilesOK
<1>2. ASSUME NEW c \in Client, Step(c) PROVE CatalogTypeOK'
  <2>1. PICK s : Turn(c, s)
    BY <1>2, StepKinds DEF StepKind, Quiet, Calm, Reads, Aims, Deletes, Moves, Opens, Writes, Drops
  <2>2. /\ DOMAIN cl' = Client /\ cl'[c] = s /\ ClientOK(s)
        /\ \A d \in Client : ClientOK(cl'[d]) /\ (d # c => cl'[d] = cl[d])
        /\ dirs' \subseteq Dir /\ overlapped' \in BOOLEAN
    BY <2>1, TurnFacts
  <2>3. FilesOK /\ \A d \in Client : cl[d].pc = "write" => cl[d].fd \in DOMAIN file
    BY DEF CatalogTypeOK
  <2>4. ASSUME FilesOK', DOMAIN file \subseteq DOMAIN file',
               s.pc = "write" => s.fd \in DOMAIN file'
        PROVE  CatalogTypeOK'
    BY <2>2, <2>3, <2>4 DEF CatalogTypeOK
  <2>5. CASE UNCHANGED <<at, file, trash>> /\ s.pc # "write"
    BY <2>2, <2>3, <2>4, <2>5 DEF FilesOK
  <2>6. CASE Quiet(c) \/ Reads(c) \/ Aims(c)
    <3>1. UNCHANGED <<at, file, trash>> /\ cl'[c].pc # "write"
      BY <2>6, TurnFacts DEF Quiet, Calm, Reads, Aims
    <3> QED
      BY <2>2, <2>5, <3>1
  <2>7. CASE Deletes(c)
    <3>1. PICK p \in Matches(c) : /\ at[p] # None /\ at' = [at EXCEPT ![p] = None]
                                  /\ trash' = trash \cup {at[p]}
      BY <2>7 DEF Deletes
    <3>2. p \in Path
      BY MatchFacts DEF CatalogTypeOK
    <3>3. FilesOK' /\ file' = file
      BY <2>2, <2>3, <2>7, <3>1, <3>2 DEF FilesOK, Deletes
    <3>4. cl'[c].pc # "write"
      BY <2>7, TurnFacts DEF Deletes, Calm
    <3> QED
      BY <2>2, <2>4, <3>3, <3>4
  <2>8. CASE Moves(c)
    <3>1. InItem(cl[c]) /\ Phase(cl[c]) = "rename" /\ ClientOK(cl[c])
      BY <2>8 DEF Moves, InItem, Phase, CatalogTypeOK
    <3>2. cl[c].path \in Path /\ <<cl[c].req.target, cl[c].tc.id>> \in Path
      BY <3>1, ItemFacts, CatalogAssumption DEF InHand, PhaseOf, Path
    <3>3. FilesOK' /\ file' = file
      BY <2>2, <2>3, <2>8, <3>2 DEF FilesOK, Moves
    <3>4. cl'[c].pc # "write"
      BY <2>8, TurnFacts DEF Moves, Calm
    <3> QED
      BY <2>2, <2>4, <3>3, <3>4
  <2>9. CASE Opens(c)
    <3> DEFINE f == [id |-> cl[c].tc.id, text |-> cl[c].tc.text, order |-> cl[c].tc.order,
                     state |-> "empty"]
               i(p) == IF at[p] = None THEN <<c, cl[c].k>> ELSE at[p]
    <3>1. PICK t : \E p \in Place(c) :
              /\ Turn(c, t) /\ t.pc = "write" /\ t.fd = i(p)
              /\ at' = [at EXCEPT ![p] = i(p)]
              /\ file' = [j \in DOMAIN file \cup {i(p)} |-> IF j = i(p) THEN f ELSE file[j]]
      BY <2>9 DEF Opens
    <3>2. PICK p \in Place(c) :
              /\ Turn(c, t) /\ t.pc = "write" /\ t.fd = i(p)
              /\ at' = [at EXCEPT ![p] = i(p)]
              /\ file' = [j \in DOMAIN file \cup {i(p)} |-> IF j = i(p) THEN f ELSE file[j]]
      BY <3>1
    <3>3. p \in Path /\ InItem(cl[c]) /\ Phase(cl[c]) = "place" /\ ClientOK(cl[c])
      BY <2>9, PlaceFacts DEF Opens, InItem, Phase, CatalogTypeOK
    <3>4. f \in File /\ cl[c].k \in Nat \ {0}
      BY <3>3, ItemFacts, CaseOfFile DEF InHand
    <3>5. i(p) \in Inode /\ i(p) # None
      BY <2>3, <3>3, <3>4, CatalogAssumption DEF FilesOK, Inode
    <3>6. s = t
      BY <2>1, <3>2, TurnFacts
    <3> HIDE DEF f, i
    <3>7. FilesOK'
      <4>1. at' \in [Path -> Inode \cup {None}]
        BY <2>3, <3>2, <3>3, <3>5 DEF FilesOK
      <4>2. /\ DOMAIN file' = DOMAIN file \cup {i(p)} /\ file' \in [DOMAIN file' -> File]
            /\ DOMAIN file' \subseteq Inode
        BY <2>3, <3>2, <3>4, <3>5 DEF FilesOK
      <4>3. \A q \in Path : at'[q] # None => at'[q] \in DOMAIN file'
        BY <2>3, <3>2, <3>3, <4>2 DEF FilesOK
      <4>4. trash' \subseteq Inode
        BY <2>3, <2>9 DEF FilesOK, Opens
      <4> QED
        BY <2>2, <4>1, <4>2, <4>3, <4>4 DEF FilesOK
    <3> QED
      BY <2>4, <3>2, <3>6, <3>7
  <2>10. CASE Writes(c)
    <3>1. PICK state \in {"whole", "garbled"} :
            file' = [file EXCEPT ![cl[c].fd] =
                      [id |-> cl[c].tc.id, text |-> cl[c].tc.text, order |-> cl[c].tc.order,
                       state |-> state]]
      BY <2>10 DEF Writes
    <3>2. InItem(cl[c]) /\ Phase(cl[c]) = "write" /\ ClientOK(cl[c])
      BY <2>10 DEF Writes, InItem, Phase, CatalogTypeOK
    <3>3. [id |-> cl[c].tc.id, text |-> cl[c].tc.text, order |-> cl[c].tc.order,
           state |-> state] \in File
      BY <3>2, ItemFacts, CaseOfFile DEF InHand
    <3>4. DOMAIN file' = DOMAIN file /\ file' \in [DOMAIN file -> File]
      BY <2>3, <3>1, <3>3 DEF FilesOK
    <3>5. FilesOK'
      BY <2>2, <2>3, <2>10, <3>4 DEF FilesOK, Writes
    <3>6. cl'[c].pc # "write"
      BY <2>10, TurnFacts DEF Writes, Calm
    <3> QED
      BY <2>2, <2>4, <3>4, <3>5, <3>6
  <2>11. CASE Drops(c)
    <3>1. FilesOK' /\ file' = file
      BY <2>2, <2>3, <2>11 DEF FilesOK, Drops
    <3>2. cl'[c].pc # "write"
      BY <2>11, TurnFacts DEF Drops, Calm
    <3> QED
      BY <2>2, <2>4, <3>1, <3>2
  <2> QED
    BY <1>2, <2>6, <2>7, <2>8, <2>9, <2>10, <2>11, StepKinds DEF StepKind
<1> QED
  BY <1>1, <1>2 DEF Next

\* Every variable of the catalog and of the requests keeps its type, for any number
\* of requests (catalog.go:60-330).
THEOREM CatalogTypeSafe == Spec => []CatalogTypeOK
BY TypeInit, TypeNext, PTL DEF Spec

-----------------------------------------------------------------------------
(***************************************************************************)
(* What the kinds of steps do, for the invariants                          *)
(***************************************************************************)

\* Only Opens makes inodes, and only Opens and Writes change what one holds.
LEMMA FileKept ==
  ASSUME NEW c \in Client
  PROVE  /\ Quiet(c) \/ Reads(c) \/ Aims(c) \/ Deletes(c) \/ Moves(c) \/ Drops(c) =>
               file' = file /\ cl[c].pc # "write"
         /\ Quiet(c) \/ Reads(c) \/ Aims(c) \/ Writes(c) => at' = at
         /\ StepKind(c) => \E s : Turn(c, s)
BY DEF StepKind, Quiet, Calm, Reads, Aims, Deletes, Moves, Opens, Writes, Drops

\* A save takes the place of the test case, with the inode that is there or a new one.
LEMMA OpensFacts ==
  ASSUME CatalogTypeOK, NEW c \in Client, Opens(c)
  PROVE  \E p \in Place(c) :
            LET i == IF at[p] = None THEN <<c, cl[c].k>> ELSE at[p]
                f == [id |-> cl[c].tc.id, text |-> cl[c].tc.text, order |-> cl[c].tc.order,
                      state |-> "empty"]
            IN  /\ p \in Path /\ i \in Inode /\ cl[c].pc = "place"
                /\ at' = [at EXCEPT ![p] = i]
                /\ DOMAIN file' = DOMAIN file \cup {i}
                /\ \A j \in DOMAIN file' : file'[j] = IF j = i THEN f ELSE file[j]
                /\ cl'[c].pc = "write" /\ cl'[c].seen = cl[c].seen /\ cl'[c].tc = cl[c].tc
                /\ cl'[c].fd = i /\ cl'[c].k = cl[c].k
                /\ \A d \in Client \ {c} : cl'[d] = cl[d]
<1> DEFINE f == [id |-> cl[c].tc.id, text |-> cl[c].tc.text, order |-> cl[c].tc.order,
                 state |-> "empty"]
           i(p) == IF at[p] = None THEN <<c, cl[c].k>> ELSE at[p]
<1>1. PICK s : \E p \in Place(c) :
          /\ Turn(c, s) /\ s.pc = "write" /\ s.seen = cl[c].seen /\ s.tc = cl[c].tc
          /\ s.fd = i(p) /\ s.k = cl[c].k
          /\ at' = [at EXCEPT ![p] = i(p)]
          /\ file' = [j \in DOMAIN file \cup {i(p)} |-> IF j = i(p) THEN f ELSE file[j]]
  BY DEF Opens
<1>2. PICK p \in Place(c) :
          /\ Turn(c, s) /\ s.pc = "write" /\ s.seen = cl[c].seen /\ s.tc = cl[c].tc
          /\ s.fd = i(p) /\ s.k = cl[c].k
          /\ at' = [at EXCEPT ![p] = i(p)]
          /\ file' = [j \in DOMAIN file \cup {i(p)} |-> IF j = i(p) THEN f ELSE file[j]]
  BY <1>1
<1>3. p \in Path /\ InItem(cl[c]) /\ ClientOK(cl[c]) /\ cl[c].pc = "place"
  BY PlaceFacts DEF Opens, InItem, Phase, CatalogTypeOK
<1>4. cl[c].k \in Nat \ {0}
  BY <1>3, ItemFacts
<1>5. i(p) \in Inode
  BY <1>3, <1>4 DEF CatalogTypeOK, FilesOK, Inode
<1>6. cl'[c] = s /\ \A d \in Client \ {c} : cl'[d] = cl[d]
  BY <1>2, TurnFacts
<1> HIDE DEF f, i
<1>7. /\ DOMAIN file' = DOMAIN file \cup {i(p)}
      /\ \A j \in DOMAIN file' : file'[j] = IF j = i(p) THEN f ELSE file[j]
  BY <1>2
<1>8. /\ p \in Path /\ i(p) \in Inode /\ cl[c].pc = "place"
      /\ at' = [at EXCEPT ![p] = i(p)]
      /\ cl'[c].pc = "write" /\ cl'[c].seen = cl[c].seen /\ cl'[c].tc = cl[c].tc
      /\ cl'[c].fd = i(p) /\ cl'[c].k = cl[c].k
      /\ \A d \in Client \ {c} : cl'[d] = cl[d]
  BY <1>2, <1>3, <1>5, <1>6
<1> QED
  BY <1>2, <1>7, <1>8 DEF f, i

LEMMA WritesFacts ==
  ASSUME CatalogTypeOK, NEW c \in Client, Writes(c)
  PROVE  \E state \in {"whole", "garbled"} :
            /\ cl[c].pc = "write" /\ cl[c].fd \in DOMAIN file
            /\ state = "garbled" => file[cl[c].fd].state # "empty"
            /\ DOMAIN file' = DOMAIN file
            /\ \A j \in DOMAIN file :
                  file'[j] = IF j = cl[c].fd
                             THEN [id |-> cl[c].tc.id, text |-> cl[c].tc.text,
                                   order |-> cl[c].tc.order, state |-> state]
                             ELSE file[j]
            /\ cl'[c].pc \notin {"rename", "write"} /\ cl'[c].seen \in {cl[c].seen, <<>>}
            /\ \A d \in Client \ {c} : cl'[d] = cl[d]
<1>1. PICK state \in {"whole", "garbled"} :
          /\ state = "garbled" => file[cl[c].fd].state # "empty"
          /\ file' = [file EXCEPT ![cl[c].fd] =
                        [id |-> cl[c].tc.id, text |-> cl[c].tc.text, order |-> cl[c].tc.order,
                         state |-> state]]
  BY DEF Writes
<1>2. cl[c].pc = "write" /\ cl[c].fd \in DOMAIN file
  BY DEF Writes, CatalogTypeOK
<1>3. /\ cl'[c].pc \notin {"rename", "write"} /\ cl'[c].seen \in {cl[c].seen, <<>>}
      /\ \A d \in Client \ {c} : cl'[d] = cl[d]
  BY TurnFacts DEF Writes, Calm
<1> QED
  BY <1>1, <1>2, <1>3 DEF CatalogTypeOK, FilesOK

-----------------------------------------------------------------------------
(***************************************************************************)
(* An inode is made once, and who truncates a file is about to write it    *)
(***************************************************************************)

LEMMA MadeInit == Init => MadeOnce
<1> SUFFICES ASSUME Init, NEW c \in Client, NEW n \in Nat, <<c, n>> \in DOMAIN file
             PROVE  FALSE
  BY DEF MadeOnce
<1>1. <<c, n>> \in Path
  BY DEF Init
<1> QED
  BY <1>1, CatalogAssumption DEF Path

LEMMA MadeNext == CatalogTypeOK /\ MadeOnce /\ [Next]_vars => MadeOnce'
<1> SUFFICES ASSUME CatalogTypeOK, MadeOnce, [Next]_vars PROVE MadeOnce'
  OBVIOUS
<1>1. CASE UNCHANGED vars
  BY <1>1 DEF vars, MadeOnce
<1>2. ASSUME NEW c \in Client, Step(c) PROVE MadeOnce'
  <2>1. StepKind(c)
    BY <1>2, StepKinds
  <2>2. PICK s : Turn(c, s)
    BY <2>1, FileKept
  <2>3. \A d \in Client : Made(cl[d]) \subseteq Made(cl'[d])
    BY <2>2, TurnFacts
  <2>4. CASE DOMAIN file' = DOMAIN file
    BY <2>3, <2>4 DEF MadeOnce
  <2>5. CASE Opens(c)
    <3>1. DOMAIN file' \subseteq DOMAIN file \cup {<<c, cl[c].k>>}
      <4>1. \E p \in Path : DOMAIN file' = DOMAIN file \cup {IF at[p] = None THEN <<c, cl[c].k>> ELSE at[p]}
        BY <2>5, OpensFacts
      <4> QED
        BY <4>1 DEF CatalogTypeOK, FilesOK
    <3>2. cl'[c].pc = "write" /\ cl'[c].k = cl[c].k /\ cl[c].pc = "place"
      BY <2>5, OpensFacts
    <3>3. cl[c].k \in Nat \ {0}
      BY DEF CatalogTypeOK, ClientOK, ClientType
    <3>4. cl[c].k \in Made(cl'[c])
      BY <3>2, <3>3 DEF Made, Phase
    <3>5. ASSUME NEW d \in Client, NEW n \in Nat, <<d, n>> \in DOMAIN file'
          PROVE  n \in Made(cl'[d])
      <4>1. CASE <<d, n>> \in DOMAIN file
        BY <2>3, <4>1 DEF MadeOnce
      <4>2. CASE d = c /\ n = cl[c].k
        BY <3>4, <4>2
      <4> QED
        BY <3>1, <3>5, <4>1, <4>2
    <3> QED
      BY <3>5 DEF MadeOnce
  <2> QED
    BY <2>1, <2>4, <2>5, FileKept, WritesFacts DEF StepKind
<1> QED
  BY <1>1, <1>2 DEF Next

LEMMA WriterInit == Init => WriterComes
BY DEF Init, WriterComes

LEMMA WriterNext == CatalogTypeOK /\ WriterComes /\ [Next]_vars => WriterComes'
<1> SUFFICES ASSUME CatalogTypeOK, WriterComes, [Next]_vars PROVE WriterComes'
  OBVIOUS
<1>1. CASE UNCHANGED vars
  BY <1>1 DEF vars, WriterComes
<1>2. ASSUME NEW c \in Client, Step(c) PROVE WriterComes'
  <2>1. StepKind(c)
    BY <1>2, StepKinds
  <2>2. \A d \in Client : d # c => cl'[d] = cl[d]
    BY <2>1, FileKept, TurnFacts
  <2>3. CASE file' = file /\ cl[c].pc # "write"
    BY <2>2, <2>3 DEF WriterComes
  <2>4. CASE Opens(c)
    <3>1. PICK i : /\ DOMAIN file' = DOMAIN file \cup {i} /\ cl[c].pc = "place"
                   /\ \A j \in DOMAIN file' : j # i => file'[j] = file[j]
                   /\ cl'[c].pc = "write" /\ cl'[c].fd = i
      BY <2>4, OpensFacts
    <3>2. ASSUME NEW j \in DOMAIN file', file'[j].state = "empty"
          PROVE  \E d \in Client : cl'[d].pc = "write" /\ cl'[d].fd = j
      <4>1. CASE j = i
        BY <3>1, <4>1
      <4>2. CASE j # i
        BY <2>2, <3>1, <3>2, <4>2 DEF WriterComes
      <4> QED
        BY <4>1, <4>2
    <3> QED
      BY <3>2 DEF WriterComes
  <2>5. CASE Writes(c)
    <3>1. PICK state \in {"whole", "garbled"} :
              /\ DOMAIN file' = DOMAIN file /\ cl[c].fd \in DOMAIN file
              /\ \A j \in DOMAIN file :
                    file'[j] = IF j = cl[c].fd
                               THEN [id |-> cl[c].tc.id, text |-> cl[c].tc.text,
                                     order |-> cl[c].tc.order, state |-> state]
                               ELSE file[j]
      BY <2>5, WritesFacts
    <3>2. file'[cl[c].fd].state # "empty"
      BY <3>1
    <3> QED
      BY <2>2, <3>1, <3>2 DEF WriterComes
  <2> QED
    BY <2>1, <2>3, <2>4, <2>5, FileKept DEF StepKind
<1> QED
  BY <1>1, <1>2 DEF Next

-----------------------------------------------------------------------------
(***************************************************************************)
(* A test case stays where its name puts it                                *)
(***************************************************************************)

\* A file that is named for a test case is in the place of one with its id.
LEMMA NamedPlace ==
  ASSUME NEW id \in Id, OwnNames(id), NEW p \in Path, p[2] \in Id
  PROVE  p[2] = id <=> p \in Homes(id)
BY CatalogAssumption DEF OwnNames, Homes

LEMMA HomePlace ==
  ASSUME CatalogTypeOK, NEW id \in Id, OwnNames(id), AtHome(id), NEW c \in Client,
         InItem(cl[c]), cl[c].tc.id \in Id, NEW p \in Place(c)
  PROVE  cl[c].tc.id = id <=> p \in Homes(id)
<1>1. CASE p \in Matches(c)
  <2>1. p \in DOMAIN cl[c].seen /\ cl[c].seen[p].id = cl[c].tc.id
    BY <1>1, MatchFacts DEF CatalogTypeOK
  <2> QED
    BY <2>1 DEF AtHome
<1>2. CASE p = <<Item(c).cat, cl[c].tc.id>>
  <2>1. p \in Path /\ p[2] = cl[c].tc.id
    BY <1>2, ItemFacts, CatalogAssumption DEF CatalogTypeOK, Path, Category
  <2> QED
    BY <2>1, NamedPlace
<1> QED
  BY <1>1, <1>2 DEF Place

\* A rename ends where a file of this id belongs, exactly if it starts there.
LEMMA HomeRename ==
  ASSUME CatalogTypeOK, NEW id \in Id, OwnNames(id), AtHome(id), NEW c \in Client,
         cl[c].pc = "rename"
  PROVE  LET to == <<cl[c].req.target, cl[c].tc.id>>
         IN  /\ to \in Path /\ cl[c].path \in Path
             /\ cl[c].path \in Homes(id) <=> to \in Homes(id)
<1> DEFINE to == <<cl[c].req.target, cl[c].tc.id>>
<1>1. InItem(cl[c]) /\ Phase(cl[c]) = "rename" /\ ClientOK(cl[c])
  BY DEF CatalogTypeOK, InItem, Phase
<1>2. cl[c].tc.id \in Id /\ cl[c].path \in Path /\ cl[c].req.target \in Dir
  BY <1>1, ItemFacts DEF InHand, PhaseOf
<1>3. to \in Path /\ to[2] = cl[c].tc.id
  BY <1>2, CatalogAssumption DEF Path
<1>4. cl[c].tc.id = id <=> to \in Homes(id)
  BY <1>2, <1>3, NamedPlace
<1> QED
  BY <1>2, <1>3, <1>4 DEF AtHome

LEMMA HomeInit == Init => HomeInv
<1> SUFFICES ASSUME Init, NEW id \in Id, OwnNames(id) PROVE AtHome(id)
  BY DEF HomeInv
<1>1. ASSUME NEW p \in Path, at[p] # None
      PROVE  file[at[p]].id = id <=> p \in Homes(id)
  <2>1. Initial[p] # None /\ file[at[p]].id = Initial[p]
    BY <1>1 DEF Init
  <2> QED
    BY <2>1 DEF OwnNames, Homes
<1>2. \A c \in Client : cl[c].seen = <<>> /\ cl[c].pc = "idle"
  BY IdleFacts DEF Init
<1> QED
  BY <1>1, <1>2, EmptySeen DEF AtHome

\* An inode that a save makes is new.
LEMMA NewInode ==
  ASSUME CatalogTypeOK, MadeOnce, NEW c \in Client, cl[c].pc = "place"
  PROVE  <<c, cl[c].k>> \notin DOMAIN file
<1>1. cl[c].k \in Nat \ {0}
  BY DEF CatalogTypeOK, ClientOK, ClientType
<1>2. cl[c].k \notin Made(cl[c])
  BY <1>1 DEF Made, Phase
<1> QED
  BY <1>1, <1>2 DEF MadeOnce

LEMMA HomeStep ==
  ASSUME CatalogTypeOK, MadeOnce, NEW id \in Id, OwnNames(id), AtHome(id),
         NEW c \in Client, StepKind(c)
  PROVE  AtHome(id)'
<1>1. \A d \in Client : d # c => cl'[d] = cl[d]
  BY FileKept, TurnFacts
<1>2. CASE Quiet(c)
  <2>1. cl'[c].seen \in {cl[c].seen, <<>>} /\ cl'[c].pc \notin {"rename", "write"}
    BY <1>2, TurnFacts DEF Quiet, Calm
  <2> QED
    BY <1>1, <1>2, <2>1, EmptySeen DEF AtHome, Quiet
<1>3. CASE Reads(c)
  <2>1. PICK p \in Path :
            /\ at[p] # None /\ cl'[c].pc = "walk"
            /\ cl'[c].seen = [q \in DOMAIN cl[c].seen \cup {p} |->
                                 IF q = p THEN [id |-> file[at[p]].id, text |-> file[at[p]].text,
                                                order |-> file[at[p]].order]
                                 ELSE cl[c].seen[q]]
    BY <1>3, TurnFacts DEF Reads
  <2>2. ASSUME NEW q \in DOMAIN cl'[c].seen
        PROVE  cl'[c].seen[q].id = id <=> q \in Homes(id)
    BY <2>1 DEF AtHome
  <2> QED
    BY <1>1, <1>3, <2>1, <2>2 DEF AtHome, Reads
<1>4. CASE Aims(c)
  <2>1. PICK p \in Matches(c) : /\ cl'[c].pc = "rename" /\ cl'[c].seen = cl[c].seen
                                /\ cl'[c].tc = cl[c].tc /\ cl'[c].path = p
    BY <1>4, TurnFacts DEF Aims
  <2>2. p \in DOMAIN cl[c].seen /\ cl[c].seen[p].id = cl[c].tc.id
    BY MatchFacts DEF CatalogTypeOK
  <2> QED
    BY <1>1, <1>4, <2>1, <2>2 DEF AtHome, Aims
<1>5. CASE Deletes(c) \/ Drops(c)
  <2>1. cl'[c].seen \in {cl[c].seen, <<>>} /\ cl'[c].pc \notin {"rename", "write"}
    BY <1>5, TurnFacts DEF Deletes, Drops, Calm
  <2>2. file' = file
    BY <1>5, FileKept
  <2>3. \A p \in Path : at'[p] # None => at'[p] = at[p]
    BY <1>5 DEF Deletes, Drops, CatalogTypeOK, FilesOK
  <2> QED
    BY <1>1, <2>1, <2>2, <2>3, EmptySeen DEF AtHome
<1>6. CASE Moves(c)
  <2> DEFINE to == <<cl[c].req.target, cl[c].tc.id>>
             from == cl[c].path
  <2>1. cl'[c].seen \in {cl[c].seen, <<>>} /\ cl'[c].pc \notin {"rename", "write"}
    BY <1>6, TurnFacts DEF Moves, Calm
  <2>2. to \in Path /\ from \in Path /\ (from \in Homes(id) <=> to \in Homes(id))
    BY <1>6, HomeRename DEF Moves
  <2>3. at' = [at EXCEPT ![from] = None, ![to] = at[from]] /\ file' = file /\ at[from] # None
    BY <1>6 DEF Moves
  <2> HIDE DEF to, from
  <2>4. ASSUME NEW p \in Path, at'[p] # None
        PROVE  file'[at'[p]].id = id <=> p \in Homes(id)
    BY <2>2, <2>3, <2>4 DEF AtHome, CatalogTypeOK, FilesOK
  <2>5. file' = file
    BY <2>3
  <2> QED
    BY <1>1, <2>1, <2>4, <2>5, EmptySeen DEF AtHome
<1>7. CASE Opens(c)
  <2> DEFINE f == [id |-> cl[c].tc.id, text |-> cl[c].tc.text, order |-> cl[c].tc.order,
                   state |-> "empty"]
             i(p) == IF at[p] = None THEN <<c, cl[c].k>> ELSE at[p]
  <2>1. PICK p \in Place(c) :
            /\ p \in Path /\ i(p) \in Inode /\ cl[c].pc = "place"
            /\ at' = [at EXCEPT ![p] = i(p)]
            /\ DOMAIN file' = DOMAIN file \cup {i(p)}
            /\ \A j \in DOMAIN file' : file'[j] = IF j = i(p) THEN f ELSE file[j]
            /\ cl'[c].pc = "write" /\ cl'[c].seen = cl[c].seen /\ cl'[c].tc = cl[c].tc
            /\ cl'[c].fd = i(p)
    BY <1>7, OpensFacts
  <2>2. InItem(cl[c]) /\ cl[c].tc.id \in Id
    <3>1. InItem(cl[c]) /\ Phase(cl[c]) = "place" /\ ClientOK(cl[c])
      BY <2>1 DEF CatalogTypeOK, InItem, Phase
    <3> QED
      BY <3>1, ItemFacts DEF InHand, Case
  <2>3. cl[c].tc.id = id <=> p \in Homes(id)
    BY <2>2, HomePlace
  <2>4. i(p) \in DOMAIN file => i(p) = at[p] /\ at[p] # None
    BY <2>1, NewInode
  <2>5. file'[i(p)].id = cl[c].tc.id
    BY <2>1
  <2>6. i(p) \in DOMAIN file => (file[i(p)].id = id <=> file'[i(p)].id = id)
    BY <2>1, <2>3, <2>4, <2>5 DEF AtHome
  <2> HIDE DEF i, f
  <2>7. \A j \in DOMAIN file : file[j].id = id <=> file'[j].id = id
    BY <2>1, <2>6
  <2>8. ASSUME NEW q \in Path, at'[q] # None
        PROVE  file'[at'[q]].id = id <=> q \in Homes(id)
    <3>1. CASE q = p
      BY <2>1, <2>3, <2>5, <3>1 DEF CatalogTypeOK, FilesOK
    <3>2. CASE q # p
      BY <2>1, <2>7, <2>8, <3>2 DEF AtHome, CatalogTypeOK, FilesOK
    <3> QED
      BY <3>1, <3>2
  <2>9. ASSUME NEW d \in Client, cl'[d].pc = "write"
        PROVE  cl'[d].tc.id = id <=> file'[cl'[d].fd].id = id
    <3>1. CASE d = c
      BY <2>1, <2>5, <3>1
    <3>2. CASE d # c
      BY <1>1, <2>7, <2>9, <3>2 DEF AtHome, CatalogTypeOK
    <3> QED
      BY <3>1, <3>2
  <2> QED
    BY <1>1, <2>1, <2>8, <2>9 DEF AtHome
<1>8. CASE Writes(c)
  <2>1. PICK state \in {"whole", "garbled"} :
            /\ cl[c].pc = "write" /\ cl[c].fd \in DOMAIN file
            /\ \A j \in DOMAIN file :
                  file'[j] = IF j = cl[c].fd
                             THEN [id |-> cl[c].tc.id, text |-> cl[c].tc.text,
                                   order |-> cl[c].tc.order, state |-> state]
                             ELSE file[j]
            /\ cl'[c].pc \notin {"rename", "write"} /\ cl'[c].seen \in {cl[c].seen, <<>>}
    BY <1>8, WritesFacts
  <2>2. file'[cl[c].fd].id = cl[c].tc.id
    BY <2>1
  <2>3. \A j \in DOMAIN file : file[j].id = id <=> file'[j].id = id
    BY <2>1, <2>2 DEF AtHome
  <2>4. at' = at
    BY <1>8, FileKept
  <2>5. \A p \in Path : at[p] # None => at[p] \in DOMAIN file
    BY DEF CatalogTypeOK, FilesOK
  <2>6. \A d \in Client : cl[d].pc = "write" => cl[d].fd \in DOMAIN file
    BY DEF CatalogTypeOK
  <2> QED
    BY <1>1, <2>1, <2>3, <2>4, <2>5, <2>6, EmptySeen DEF AtHome
<1> QED
  BY <1>2, <1>3, <1>4, <1>5, <1>6, <1>7, <1>8 DEF StepKind

LEMMA HomeNext == CatalogTypeOK /\ MadeOnce /\ HomeInv /\ [Next]_vars => HomeInv'
<1> SUFFICES ASSUME CatalogTypeOK, MadeOnce, HomeInv, [Next]_vars,
                    NEW id \in Id, OwnNames(id)
             PROVE  AtHome(id)'
  BY DEF HomeInv, OwnNames
<1>1. AtHome(id)
  BY DEF HomeInv
<1>2. CASE UNCHANGED vars
  BY <1>1, <1>2 DEF vars, AtHome
<1>3. CASE \E c \in Client : Step(c)
  BY <1>1, <1>3, StepKinds, HomeStep
<1> QED
  BY <1>2, <1>3 DEF Next

-----------------------------------------------------------------------------
(***************************************************************************)
(* A file that cannot be read is one that two requests wrote               *)
(***************************************************************************)

\* A request that is about to write is one of the writers.
LEMMA WritingIsWriter ==
  ASSUME CatalogTypeOK, NEW c \in Client, cl[c].pc = "write"
  PROVE  c \in Writers(cl[c].tc.id)
<1>1. InItem(cl[c]) /\ ClientOK(cl[c]) /\ Phase(cl[c]) = "write"
  BY DEF InItem, Phase, CatalogTypeOK
<1> DEFINE k == cl[c].k
           type == cl[c].req.type
           id == cl[c].req.items[k].id
<1>2. /\ cl[c].req # None /\ k \in DOMAIN cl[c].req.items
      /\ type \in Saving
      /\ IF type = "duplicate" THEN cl[c].tc.id \in Range(Copies[id]) ELSE cl[c].tc.id = id
  BY <1>1, ItemFacts DEF InHand, PhaseOf
<1> QED
  BY <1>2 DEF Writers, Saving

\* Whoever writes the test case goes on doing so.
LEMMA SharedKept ==
  ASSUME CatalogTypeOK, NEW c \in Client, StepKind(c), NEW id
  PROVE  Shared(id) => Shared(id)'
<1>1. PICK s : Turn(c, s)
  BY FileKept
<1>2. \A d \in Client : cl[d].req # None => cl'[d].req = cl[d].req
  BY <1>1, TurnFacts
<1>3. \A d \in Writers(id) : d \in Writers(id)'
  BY <1>2 DEF Writers
<1> QED
  BY <1>3 DEF Shared

LEMMA TornInit == Init => TornInv
<1> SUFFICES ASSUME Init, NEW id \in Id PROVE TornIfShared(id)
  BY DEF TornInv
<1>1. \A c \in Client : cl[c].pc = "idle"
  BY IdleFacts DEF Init
<1>2. \A i \in DOMAIN file : file[i].state = "whole"
  BY DEF Init
<1> QED
  BY <1>1, <1>2 DEF TornIfShared

LEMMA TornStep ==
  ASSUME CatalogTypeOK, NEW id \in Id, AtHome(id), TornIfShared(id), NEW c \in Client,
         StepKind(c)
  PROVE  TornIfShared(id)'
<1>1. \A d \in Client : d # c => cl'[d] = cl[d]
  BY FileKept, TurnFacts
<1>2. Shared(id) => Shared(id)'
  BY SharedKept
<1>3. CASE Quiet(c) \/ Reads(c) \/ Aims(c) \/ Deletes(c) \/ Moves(c) \/ Drops(c)
  <2>1. file' = file
    BY <1>3, FileKept
  <2>2. cl'[c].pc # "write"
    BY <1>3, TurnFacts DEF Quiet, Reads, Aims, Deletes, Moves, Drops, Calm
  <2> QED
    BY <1>1, <1>2, <2>1, <2>2 DEF TornIfShared
<1>4. CASE Opens(c)
  <2> DEFINE i(p) == IF at[p] = None THEN <<c, cl[c].k>> ELSE at[p]
             f == [id |-> cl[c].tc.id, text |-> cl[c].tc.text, order |-> cl[c].tc.order,
                   state |-> "empty"]
  <2>1. PICK p \in Place(c) :
            /\ p \in Path /\ i(p) \in Inode /\ cl[c].pc = "place"
            /\ at' = [at EXCEPT ![p] = i(p)]
            /\ DOMAIN file' = DOMAIN file \cup {i(p)}
            /\ \A j \in DOMAIN file' : file'[j] = IF j = i(p) THEN f ELSE file[j]
            /\ cl'[c].pc = "write" /\ cl'[c].seen = cl[c].seen /\ cl'[c].tc = cl[c].tc
            /\ cl'[c].fd = i(p)
    BY <1>4, OpensFacts
  <2>2. f.state = "empty"
    OBVIOUS
  <2> HIDE DEF i, f
  <2>3. /\ \A j \in DOMAIN file' : j # i(p) => j \in DOMAIN file /\ file'[j] = file[j]
        /\ file'[i(p)].state = "empty"
    BY <2>1, <2>2
  <2> QED
    BY <1>1, <1>2, <2>1, <2>3 DEF TornIfShared
<1>5. CASE Writes(c)
  <2> DEFINE i == cl[c].fd
  <2>1. PICK state \in {"whole", "garbled"} :
            /\ cl[c].pc = "write" /\ i \in DOMAIN file
            /\ state = "garbled" => file[i].state # "empty"
            /\ DOMAIN file' = DOMAIN file
            /\ \A j \in DOMAIN file :
                  file'[j] = IF j = i
                             THEN [id |-> cl[c].tc.id, text |-> cl[c].tc.text,
                                   order |-> cl[c].tc.order, state |-> state]
                             ELSE file[j]
            /\ cl'[c].pc # "write"
    BY <1>5, WritesFacts
  <2>2. file'[i].id = cl[c].tc.id /\ file'[i].state = state
    BY <2>1
  <2>3. ASSUME file'[i].id = id, file'[i].state = "garbled"
        PROVE  Shared(id)
    BY <2>1, <2>2, <2>3 DEF AtHome, TornIfShared
  <2>4. ASSUME file'[i].id = id, NEW d \in Client, cl'[d].pc = "write", cl'[d].fd = i
        PROVE  Shared(id)
    <3>1. d # c /\ cl'[d] = cl[d] /\ cl[d].pc = "write" /\ cl[d].fd = i
      BY <1>1, <2>1, <2>4
    <3>2. cl[c].tc.id = id /\ cl[d].tc.id = id
      BY <2>1, <2>2, <2>4, <3>1 DEF AtHome
    <3>3. c \in Writers(id) /\ d \in Writers(id)
      BY <2>1, <3>1, <3>2, WritingIsWriter
    <3> QED
      BY <3>1, <3>3 DEF Shared
  <2> HIDE DEF i
  <2>5. ASSUME NEW j \in DOMAIN file', file'[j].id = id
        PROVE  /\ file'[j].state = "garbled" => Shared(id)'
               /\ \A d \in Client :
                     cl'[d].pc = "write" /\ cl'[d].fd = j /\ file'[j].state # "empty"
                     => Shared(id)'
    <3>1. CASE j = i
      BY <1>2, <2>3, <2>4, <2>5, <3>1
    <3>2. CASE j # i
      <4>1. j \in DOMAIN file /\ file'[j] = file[j]
        BY <2>1, <3>2
      <4>2. \A d \in Client : cl'[d].pc = "write" => cl'[d] = cl[d]
        BY <1>1, <2>1
      <4> QED
        BY <1>2, <2>5, <4>1, <4>2 DEF TornIfShared
    <3> QED
      BY <3>1, <3>2
  <2> QED
    BY <2>5 DEF TornIfShared
<1> QED
  BY <1>3, <1>4, <1>5 DEF StepKind

LEMMA TornNext == CatalogTypeOK /\ HomeInv /\ TornInv /\ [Next]_vars => TornInv'
<1> SUFFICES ASSUME CatalogTypeOK, HomeInv, TornInv, [Next]_vars,
                    NEW id \in Id, OwnNames(id)
             PROVE  TornIfShared(id)'
  BY DEF TornInv, OwnNames
<1>1. TornIfShared(id) /\ AtHome(id)
  BY DEF TornInv, HomeInv
<1>2. CASE UNCHANGED vars
  <2>1. file' = file /\ cl' = cl
    BY <1>2 DEF vars
  <2>2. Shared(id) => Shared(id)'
    BY <2>1 DEF Shared, Writers
  <2> QED
    BY <1>1, <2>1, <2>2 DEF TornIfShared
<1>3. CASE \E c \in Client : Step(c)
  BY <1>1, <1>3, StepKinds, TornStep
<1> QED
  BY <1>2, <1>3 DEF Next

\* When the requests are over, however many there were and however they interleaved,
\* every test case with a name of its own that no two of them wrote is in a file that
\* the list can read (catalog.go:76, 300).
THEOREM ListStaysReadable == Spec => []ListWorksAtRest
<1>1. CatalogTypeOK /\ WriterComes /\ TornInv => ListWorksAtRest
  <2> SUFFICES ASSUME CatalogTypeOK, WriterComes, TornInv, \A c \in Client : ~Busy(c),
                      NEW p \in Path, at[p] # None, OwnNames(file[at[p]].id),
                      ~Shared(file[at[p]].id)
               PROVE  file[at[p]].state = "whole"
    BY DEF ListWorksAtRest
  <2>1. at[p] \in DOMAIN file /\ file[at[p]] \in File
    BY DEF CatalogTypeOK, FilesOK
  <2>2. file[at[p]].state # "empty"
    BY <2>1 DEF WriterComes, Busy
  <2>3. file[at[p]].state # "garbled"
    BY <2>1 DEF TornInv, TornIfShared, File
  <2> QED
    BY <2>1, <2>2, <2>3 DEF File
<1> QED
  BY <1>1, TypeInit, TypeNext, WriterInit, WriterNext, MadeInit, MadeNext, HomeInit, HomeNext,
     TornInit, TornNext, PTL DEF Spec

-----------------------------------------------------------------------------
(***************************************************************************)
(* Moving, sorting and copying lose nothing                                *)
(***************************************************************************)

\* While nothing else is asked, some place of the test case has a file.
Kept(id) == Harmless => \E p \in Homes(id) : at[p] # None

KeptInv ==
    \A p \in Path : Initial[p] # None /\ OwnNames(Initial[p]) => Kept(Initial[p])

LEMMA KeptInit == Init => KeptInv
<1> SUFFICES ASSUME Init, NEW p \in Path, Initial[p] # None
             PROVE  \E q \in Homes(Initial[p]) : at[q] # None
  BY DEF KeptInv, Kept
<1>1. p # None
  BY CatalogAssumption DEF Inode
<1>2. at[p] = p /\ p \in Homes(Initial[p])
  BY DEF Init, Homes
<1> QED
  BY <1>1, <1>2

LEMMA KeptStep ==
  ASSUME CatalogTypeOK, NEW id \in Id, OwnNames(id), AtHome(id), Kept(id),
         NEW c \in Client, StepKind(c)
  PROVE  Kept(id)'
<1> SUFFICES ASSUME Harmless' PROVE \E p \in Homes(id) : at'[p] # None
  BY DEF Kept, Homes
<1>1. PICK s : Turn(c, s)
  BY FileKept
<1>2. /\ cl'[c] = s /\ s.req # None /\ cl[c].req \in {s.req, None}
      /\ \A d \in Client : d # c => cl'[d] = cl[d]
  BY <1>1, TurnFacts
<1>3. Harmless
  BY <1>2 DEF Harmless
<1>4. PICK q \in Homes(id) : at[q] # None
  BY <1>3 DEF Kept
<1>5. q \in Path /\ at \in [Path -> Inode \cup {None}] /\ None \notin Inode
  BY CatalogAssumption DEF Homes, CatalogTypeOK, FilesOK
<1>6. CASE Quiet(c) \/ Reads(c) \/ Aims(c) \/ Writes(c)
  BY <1>4, <1>6, FileKept
<1>7. CASE Deletes(c) \/ Drops(c)
  <2>1. cl[c].pc # "idle" /\ ClientOK(cl[c])
    BY <1>7 DEF Deletes, Drops, CatalogTypeOK
  <2>2. cl[c].req # None
    BY <2>1 DEF ClientOK
  <2> QED
    BY <1>3, <1>7, <2>2 DEF Harmless, Deletes, Drops
<1>8. CASE Opens(c)
  <2> DEFINE f == [id |-> cl[c].tc.id, text |-> cl[c].tc.text, order |-> cl[c].tc.order,
                   state |-> "empty"]
             i(p) == IF at[p] = None THEN <<c, cl[c].k>> ELSE at[p]
  <2>1. PICK p \in Place(c) :
            /\ p \in Path /\ i(p) \in Inode /\ cl[c].pc = "place"
            /\ at' = [at EXCEPT ![p] = i(p)]
            /\ DOMAIN file' = DOMAIN file \cup {i(p)}
            /\ \A j \in DOMAIN file' : file'[j] = IF j = i(p) THEN f ELSE file[j]
    BY <1>8, OpensFacts
  <2> HIDE DEF i, f
  <2> QED
    BY <1>4, <1>5, <2>1
<1>9. CASE Moves(c)
  <2> DEFINE to == <<cl[c].req.target, cl[c].tc.id>>
             from == cl[c].path
  <2>1. to \in Path /\ from \in Path /\ (from \in Homes(id) <=> to \in Homes(id))
    BY <1>9, HomeRename DEF Moves
  <2>2. at' = [at EXCEPT ![from] = None, ![to] = at[from]] /\ at[from] # None
    BY <1>9 DEF Moves
  <2> HIDE DEF to, from
  <2> QED
    BY <1>4, <1>5, <2>1, <2>2
<1> QED
  BY <1>6, <1>7, <1>8, <1>9 DEF StepKind

LEMMA KeptNext == CatalogTypeOK /\ HomeInv /\ KeptInv /\ [Next]_vars => KeptInv'
<1> SUFFICES ASSUME CatalogTypeOK, HomeInv, KeptInv, [Next]_vars,
                    NEW p \in Path, Initial[p] # None, OwnNames(Initial[p])
             PROVE  Kept(Initial[p])'
  BY DEF KeptInv, OwnNames
<1>1. Initial[p] \in Id
  BY CatalogAssumption
<1>2. AtHome(Initial[p]) /\ Kept(Initial[p])
  BY <1>1 DEF HomeInv, KeptInv
<1>3. CASE UNCHANGED vars
  BY <1>2, <1>3 DEF vars, Kept, Harmless, Homes
<1>4. CASE \E c \in Client : Step(c)
  BY <1>1, <1>2, <1>4, StepKinds, KeptStep
<1> QED
  BY <1>3, <1>4 DEF Next

\* However moves, sortings and copies interleave, a test case that shares its file's
\* name with no other is still there (catalog.go:275).
THEOREM NothingIsLost == Spec => []MovesLoseNothing
<1>1. CatalogTypeOK /\ HomeInv /\ KeptInv => MovesLoseNothing
  <2> SUFFICES ASSUME HomeInv, KeptInv, Harmless, NEW p \in Path, Initial[p] # None,
                      OwnNames(Initial[p])
               PROVE  \E q \in Path : at[q] # None /\ file[at[q]].id = Initial[p]
    BY DEF MovesLoseNothing, Harmless
  <2>1. PICK q \in Homes(Initial[p]) : at[q] # None
    BY DEF KeptInv, Kept
  <2>2. q \in Path /\ Initial[p] \in Id
    BY CatalogAssumption DEF Homes
  <2> QED
    BY <2>1, <2>2 DEF HomeInv, AtHome
<1>2. CatalogTypeOK /\ MadeOnce /\ HomeInv /\ KeptInv /\ [Next]_vars =>
         (CatalogTypeOK /\ MadeOnce /\ HomeInv /\ KeptInv)'
  BY TypeNext, MadeNext, HomeNext, KeptNext
<1>3. Init => CatalogTypeOK /\ MadeOnce /\ HomeInv /\ KeptInv
  BY TypeInit, MadeInit, HomeInit, KeptInit
<1> QED
  BY <1>1, <1>2, <1>3, PTL DEF Spec

-----------------------------------------------------------------------------
(***************************************************************************)
(* What no request names stays as it is                                    *)
(***************************************************************************)

\* What a request at work may touch for its item is not the test case nobody named.
LEMMA NotNamed ==
  ASSUME CatalogTypeOK, NEW c \in Client, InItem(cl[c]), NEW p \in Path, Unnamed(p),
         NEW id \in {Initial[p], p[2]}
  PROVE  /\ Item(c).id = id => Item(c).cat # CategoryOf(p[1])
         /\ cl[c].req.type = "move" /\ Item(c).id = id => cl[c].req.target # CategoryOf(p[1])
         /\ cl[c].req.type = "duplicate" /\ id \in Range(Copies[Item(c).id]) =>
               Item(c).cat # CategoryOf(p[1])
         /\ cl[c].req.type = "dropFolder" => Item(c).cat # CategoryOf(p[1])
<1>1. cl[c].req # None /\ cl[c].k \in DOMAIN cl[c].req.items
  BY ItemFacts DEF CatalogTypeOK
<1>2. ~ Names(c, CategoryOf(p[1]), id)
  BY DEF Unnamed
<1> QED
  BY <1>1, <1>2 DEF Names, Item

\* A category shows what is in the directory of its name.
LEMMA OwnCategory ==
  ASSUME NEW dir \in Category
  PROVE  CategoryOf(dir) = dir
BY DEF Category, CategoryOf

LEMMA MatchNotNamed ==
  ASSUME CatalogTypeOK, NEW c \in Client, InItem(cl[c]), NEW p \in Path, Unnamed(p),
         Untouched(p), NEW q \in Matches(c),
         cl[c].tc.id = Item(c).id
            \/ (cl[c].req.type = "duplicate" /\ cl[c].tc.id \in Range(Copies[Item(c).id]))
  PROVE  q # p
<1> SUFFICES ASSUME q = p PROVE FALSE
  OBVIOUS
<1>1. /\ p \in DOMAIN cl[c].seen /\ cl[c].seen[p].id = cl[c].tc.id
      /\ CategoryOf(p[1]) = Item(c).cat
  BY MatchFacts DEF CatalogTypeOK
<1>2. cl[c].tc.id = Initial[p]
  BY <1>1 DEF Untouched
<1> QED
  BY <1>1, <1>2, NotNamed

LEMMA PlaceNotNamed ==
  ASSUME CatalogTypeOK, NEW c \in Client, cl[c].pc = "place", NEW p \in Path, Unnamed(p),
         Untouched(p), NEW q \in Place(c)
  PROVE  q # p
<1>1. InItem(cl[c]) /\ Phase(cl[c]) = "place" /\ ClientOK(cl[c])
  BY DEF CatalogTypeOK, InItem, Phase
<1>2. cl[c].tc.id = Item(c).id
         \/ (cl[c].req.type = "duplicate" /\ cl[c].tc.id \in Range(Copies[Item(c).id]))
  BY <1>1, ItemFacts DEF InHand
<1>3. CASE q \in Matches(c)
  BY <1>1, <1>2, <1>3, MatchNotNamed
<1>4. CASE q = <<Item(c).cat, cl[c].tc.id>>
  <2> SUFFICES ASSUME q = p PROVE FALSE
    OBVIOUS
  <2>1. Item(c).cat \in Category
    BY <1>1, ItemFacts
  <2>2. CategoryOf(p[1]) = Item(c).cat /\ p[2] = cl[c].tc.id
    BY <1>4, <2>1, OwnCategory
  <2> QED
    BY <1>1, <1>2, <2>2, NotNamed
<1> QED
  BY <1>3, <1>4 DEF Place

LEMMA RenameNotNamed ==
  ASSUME CatalogTypeOK, NEW c \in Client, cl[c].pc = "rename", NEW p \in Path, Unnamed(p)
  PROVE  <<cl[c].req.target, cl[c].tc.id>> # p
<1> SUFFICES ASSUME <<cl[c].req.target, cl[c].tc.id>> = p PROVE FALSE
  OBVIOUS
<1>1. InItem(cl[c]) /\ Phase(cl[c]) = "rename" /\ ClientOK(cl[c])
  BY DEF CatalogTypeOK, InItem, Phase
<1>2. /\ cl[c].tc.id = Item(c).id /\ cl[c].req.type = "move"
      /\ cl[c].req.target \in Dir /\ cl[c].req.target \notin {Root, Unc}
  BY <1>1, ItemFacts DEF InHand, PhaseOf
<1>3. CategoryOf(p[1]) = cl[c].req.target /\ p[2] = cl[c].tc.id
  BY <1>2, OwnCategory DEF Category
<1> QED
  BY <1>1, <1>2, <1>3, NotNamed

LEMMA UntouchedInit == Init => UntouchedInv
<1> SUFFICES ASSUME Init, NEW p \in Path, Initial[p] # None PROVE Untouched(p)
  BY DEF UntouchedInv
<1>1. /\ at[p] = p
      /\ file[p] = [id |-> Initial[p], text |-> p, order |-> 0, state |-> "whole"]
  BY DEF Init
<1>2. \A q \in Path \ {p} : at[q] # p
  BY CatalogAssumption DEF Init, Inode
<1>3. \A c \in Client : cl[c].seen = <<>> /\ cl[c].pc = "idle"
  BY IdleFacts DEF Init
<1> QED
  BY <1>1, <1>2, <1>3, EmptySeen DEF Untouched

LEMMA UntouchedStep ==
  ASSUME CatalogTypeOK, NEW p \in Path, Initial[p] # None, Unnamed(p), Untouched(p),
         NEW c \in Client, StepKind(c)
  PROVE  Untouched(p)'
<1>1. \A d \in Client : d # c => cl'[d] = cl[d]
  BY FileKept, TurnFacts
<1>2. p # None /\ p \in DOMAIN file /\ at \in [Path -> Inode \cup {None}]
  BY CatalogAssumption DEF Untouched, CatalogTypeOK, FilesOK, Inode
<1>3. CASE Quiet(c)
  <2>1. cl'[c].seen \in {cl[c].seen, <<>>} /\ cl'[c].pc \notin {"rename", "write"}
    BY <1>3, TurnFacts DEF Quiet, Calm
  <2> QED
    BY <1>1, <1>3, <2>1, EmptySeen DEF Untouched, Quiet
<1>4. CASE Reads(c)
  <2>1. PICK q \in Path :
            /\ at[q] # None /\ cl'[c].pc = "walk"
            /\ cl'[c].seen = [r \in DOMAIN cl[c].seen \cup {q} |->
                                 IF r = q THEN [id |-> file[at[q]].id, text |-> file[at[q]].text,
                                                order |-> file[at[q]].order]
                                 ELSE cl[c].seen[r]]
    BY <1>4, TurnFacts DEF Reads
  <2>2. p \in DOMAIN cl'[c].seen => cl'[c].seen[p].id = Initial[p]
    BY <2>1 DEF Untouched
  <2> QED
    BY <1>1, <1>4, <2>1, <2>2 DEF Untouched, Reads
<1>5. CASE Aims(c)
  <2>1. PICK q \in Matches(c) : /\ cl'[c].pc = "rename" /\ cl'[c].seen = cl[c].seen
                                /\ cl'[c].path = q
    BY <1>5, TurnFacts DEF Aims
  <2>2. InItem(cl[c]) /\ cl[c].tc.id = Item(c).id
    <3>1. InItem(cl[c]) /\ Phase(cl[c]) = "find" /\ ClientOK(cl[c])
      BY <1>5 DEF Aims, InItem, Phase, CatalogTypeOK
    <3> QED
      BY <3>1, ItemFacts DEF InHand
  <2>3. q # p
    BY <2>2, MatchNotNamed
  <2> QED
    BY <1>1, <1>5, <2>1, <2>3 DEF Untouched, Aims
<1>6. CASE Deletes(c)
  <2>1. cl'[c].seen \in {cl[c].seen, <<>>} /\ cl'[c].pc \notin {"rename", "write"}
    BY <1>6, TurnFacts DEF Deletes, Calm
  <2>2. PICK q \in Matches(c) : at' = [at EXCEPT ![q] = None]
    BY <1>6 DEF Deletes
  <2>3. InItem(cl[c]) /\ cl[c].tc.id = Item(c).id
    <3>1. InItem(cl[c]) /\ Phase(cl[c]) = "find" /\ ClientOK(cl[c])
      BY <1>6 DEF Deletes, InItem, Phase, CatalogTypeOK
    <3> QED
      BY <3>1, ItemFacts DEF InHand
  <2>4. q # p /\ q \in Path
    BY <2>3, MatchNotNamed, MatchFacts DEF CatalogTypeOK
  <2>5. at'[p] = at[p] /\ \A r \in Path \ {p} : at'[r] # p
    BY <1>2, <2>2, <2>4 DEF Untouched
  <2> QED
    BY <1>1, <1>6, <2>1, <2>5, EmptySeen DEF Untouched, Deletes
<1>7. CASE Drops(c)
  <2>1. cl'[c].seen \in {cl[c].seen, <<>>} /\ cl'[c].pc \notin {"rename", "write"}
    BY <1>7, TurnFacts DEF Drops, Calm
  <2>2. InItem(cl[c]) /\ cl[c].req.type = "dropFolder" /\ Item(c).cat \in Category
    <3>1. InItem(cl[c]) /\ ClientOK(cl[c])
      BY <1>7 DEF Drops, InItem, CatalogTypeOK
    <3> QED
      BY <1>7, <3>1, ItemFacts DEF Drops
  <2>3. p[1] # Item(c).cat
    BY <2>2, NotNamed, OwnCategory
  <2>4. at'[p] = at[p] /\ \A r \in Path \ {p} : at'[r] # p
    BY <1>2, <1>7, <2>3 DEF Untouched, Drops
  <2> QED
    BY <1>1, <1>7, <2>1, <2>4, EmptySeen DEF Untouched, Drops
<1>8. CASE Moves(c)
  <2> DEFINE to == <<cl[c].req.target, cl[c].tc.id>>
             from == cl[c].path
  <2>1. cl'[c].seen \in {cl[c].seen, <<>>} /\ cl'[c].pc \notin {"rename", "write"}
    BY <1>8, TurnFacts DEF Moves, Calm
  <2>2. to # p /\ from # p /\ from \in Path
    <3>1. InItem(cl[c]) /\ Phase(cl[c]) = "rename" /\ ClientOK(cl[c])
      BY <1>8 DEF Moves, CatalogTypeOK, InItem, Phase
    <3>2. from \in Path
      BY <3>1, ItemFacts DEF PhaseOf
    <3> QED
      BY <1>8, <3>2, RenameNotNamed DEF Moves, Untouched
  <2>3. at' = [at EXCEPT ![from] = None, ![to] = at[from]] /\ file' = file
    BY <1>8 DEF Moves
  <2> HIDE DEF to, from
  <2>4. at'[p] = at[p] /\ \A r \in Path \ {p} : at'[r] # p
    BY <1>2, <2>2, <2>3 DEF Untouched
  <2>5. file' = file
    BY <2>3
  <2> QED
    BY <1>1, <2>1, <2>4, <2>5, EmptySeen DEF Untouched
<1>9. CASE Opens(c)
  <2> DEFINE f == [id |-> cl[c].tc.id, text |-> cl[c].tc.text, order |-> cl[c].tc.order,
                   state |-> "empty"]
             i(q) == IF at[q] = None THEN <<c, cl[c].k>> ELSE at[q]
  <2>1. PICK q \in Place(c) :
            /\ q \in Path /\ i(q) \in Inode /\ cl[c].pc = "place"
            /\ at' = [at EXCEPT ![q] = i(q)]
            /\ DOMAIN file' = DOMAIN file \cup {i(q)}
            /\ \A j \in DOMAIN file' : file'[j] = IF j = i(q) THEN f ELSE file[j]
            /\ cl'[c].pc = "write" /\ cl'[c].seen = cl[c].seen /\ cl'[c].tc = cl[c].tc
            /\ cl'[c].fd = i(q)
    BY <1>9, OpensFacts
  <2>2. q # p
    BY <2>1, PlaceNotNamed
  <2>3. <<c, cl[c].k>> # p
    BY CatalogAssumption DEF Path
  <2>4. i(q) # p
    BY <2>1, <2>2, <2>3 DEF Untouched
  <2> HIDE DEF i, f
  <2>5. at'[p] = at[p] /\ \A r \in Path \ {p} : at'[r] # p
    BY <1>2, <2>1, <2>2, <2>4 DEF Untouched
  <2>6. file'[p] = file[p]
    BY <1>2, <2>1, <2>4
  <2>7. cl'[c].pc = "write" /\ cl'[c].seen = cl[c].seen /\ cl'[c].fd # p
    BY <2>1, <2>4
  <2> QED
    BY <1>1, <2>5, <2>6, <2>7 DEF Untouched
<1>10. CASE Writes(c)
  <2>1. PICK state \in {"whole", "garbled"} :
            /\ cl[c].pc = "write" /\ cl[c].fd \in DOMAIN file
            /\ \A j \in DOMAIN file :
                  file'[j] = IF j = cl[c].fd
                             THEN [id |-> cl[c].tc.id, text |-> cl[c].tc.text,
                                   order |-> cl[c].tc.order, state |-> state]
                             ELSE file[j]
            /\ cl'[c].pc \notin {"rename", "write"} /\ cl'[c].seen \in {cl[c].seen, <<>>}
    BY <1>10, WritesFacts
  <2>2. file'[p] = file[p]
    BY <1>2, <2>1 DEF Untouched
  <2>3. cl'[c].pc \notin {"rename", "write"} /\ cl'[c].seen \in {cl[c].seen, <<>>}
    BY <2>1
  <2>4. at' = at
    BY <1>10, FileKept
  <2> QED
    BY <1>1, <2>2, <2>3, <2>4, EmptySeen DEF Untouched
<1> QED
  BY <1>3, <1>4, <1>5, <1>6, <1>7, <1>8, <1>9, <1>10 DEF StepKind

\* A request is asked once.
LEMMA UnnamedBefore ==
  ASSUME CatalogTypeOK, NEW c \in Client, StepKind(c), NEW p \in Path, Unnamed(p)'
  PROVE  Unnamed(p)
<1> SUFFICES ASSUME NEW d \in Client, NEW id \in {Initial[p], p[2]}
             PROVE  ~ Names(d, CategoryOf(p[1]), id)
  BY DEF Unnamed
<1>1. PICK s : Turn(c, s)
  BY FileKept
<1>2. cl[d].req \in {cl'[d].req, None}
  BY <1>1, TurnFacts
<1>3. ~ Names(d, CategoryOf(p[1]), id)'
  BY DEF Unnamed, CategoryOf
<1>4. CASE cl[d].req = None
  BY <1>4 DEF Names
<1>5. CASE cl[d].req = cl'[d].req
  BY <1>3, <1>5 DEF Names, CategoryOf
<1> QED
  BY <1>2, <1>4, <1>5

LEMMA UntouchedNext == CatalogTypeOK /\ UntouchedInv /\ [Next]_vars => UntouchedInv'
<1> SUFFICES ASSUME CatalogTypeOK, UntouchedInv, [Next]_vars, NEW p \in Path,
                    Initial[p] # None, Unnamed(p)'
             PROVE  Untouched(p)'
  BY DEF UntouchedInv
<1>1. CASE UNCHANGED vars
  BY <1>1 DEF vars, UntouchedInv, Untouched, Unnamed, Names, CategoryOf
<1>2. ASSUME NEW c \in Client, StepKind(c) PROVE Untouched(p)'
  BY <1>2, UnnamedBefore, UntouchedStep DEF UntouchedInv
<1> QED
  BY <1>1, <1>2, StepKinds DEF Next

\* Whatever is asked of the other test cases at the same time, a test case that nobody
\* names keeps its file and its content (catalog_test.go:11-27).
THEOREM OthersStayUntouched == Spec => []OthersUntouched
<1>1. UntouchedInv => OthersUntouched
  BY DEF UntouchedInv, Untouched, Unnamed, OthersUntouched
<1> QED
  BY <1>1, TypeInit, TypeNext, UntouchedInit, UntouchedNext, PTL DEF Spec

-----------------------------------------------------------------------------
(***************************************************************************)
(* The catalog as its user sees it                                         *)
(***************************************************************************)

Holding(a, f, l) == {p \in Path : a[p] # None /\ CategoryOf(p[1]) = l[1] /\ f[a[p]].id = l[2]}

Shown(f) == [text |-> f.text, order |-> f.order]

ViewOf(a, f) ==
    [l \in Category \X Id |->
        LET S == Holding(a, f, l)
        IN  IF S = {} THEN None ELSE Shown(f[a[CHOOSE p \in S : TRUE]])]

LEMMA ViewIs == View = ViewOf(at, file) /\ View' = ViewOf(at', file')
<1>1. \A l : FilesOf(l[1], l[2]) = Holding(at, file, l)
  BY DEF FilesOf, Holding
<1>2. \A l : FilesOf(l[1], l[2])' = Holding(at', file', l)
  BY DEF FilesOf, Holding, CategoryOf
<1> QED
  BY <1>1, <1>2 DEF View, ViewOf, Shown

LEMMA ViewDomain ==
  ASSUME NEW a, NEW f
  PROVE  ViewOf(a, f) = [l \in Category \X Id |-> ViewOf(a, f)[l]]
BY DEF ViewOf

\* Where there is one file of a test case, it is what is shown.
LEMMA ShownAt ==
  ASSUME NEW a, NEW f, NEW l \in Category \X Id, NEW p \in Holding(a, f, l),
         \A q \in Holding(a, f, l) : q = p
  PROVE  ViewOf(a, f)[l] = Shown(f[a[p]])
<1> DEFINE S == Holding(a, f, l)
<1>1. ViewOf(a, f)[l] = Shown(f[a[CHOOSE q \in S : TRUE]])
  BY DEF ViewOf
<1>2. (CHOOSE q \in S : TRUE) \in S
  <2> HIDE DEF S
  <2>1. \E q : q \in S
    BY DEF S
  <2> QED
    BY <2>1
<1> QED
  BY <1>1, <1>2

LEMMA NotShown ==
  ASSUME NEW a, NEW f, NEW l \in Category \X Id, Holding(a, f, l) = {}
  PROVE  ViewOf(a, f)[l] = None
BY DEF ViewOf

\* What is shown depends on the files that hold it.
LEMMA SameShown ==
  ASSUME NEW a, NEW f, NEW b, NEW g, NEW l \in Category \X Id,
         Holding(a, f, l) = Holding(b, g, l),
         \A p \in Holding(a, f, l) : Shown(f[a[p]]) = Shown(g[b[p]])
  PROVE  ViewOf(a, f)[l] = ViewOf(b, g)[l]
<1> DEFINE S == Holding(a, f, l)
           p == CHOOSE q \in S : TRUE
<1>1. CASE S = {}
  BY <1>1, NotShown
<1>2. CASE S # {}
  <2>1. ViewOf(a, f)[l] = Shown(f[a[p]]) /\ ViewOf(b, g)[l] = Shown(g[b[p]])
    BY <1>2 DEF ViewOf
  <2>2. p \in S
    <3> HIDE DEF S
    <3>1. \E q : q \in S
      BY <1>2
    <3> QED
      BY <3>1
  <2> QED
    BY <2>1, <2>2
<1> QED
  BY <1>1, <1>2

LEMMA ViewKept ==
  ASSUME at' = at, \A p \in Path : at[p] # None => /\ file'[at[p]].id = file[at[p]].id
                                                   /\ Shown(file'[at[p]]) = Shown(file[at[p]])
  PROVE  View' = View
<1>1. ASSUME NEW l \in Category \X Id
      PROVE  ViewOf(at, file)[l] = ViewOf(at', file')[l]
  <2>1. Holding(at, file, l) = Holding(at', file', l)
    BY DEF Holding
  <2>2. \A p \in Holding(at, file, l) : Shown(file[at[p]]) = Shown(file'[at'[p]])
    BY DEF Holding
  <2> QED
    BY <2>1, <2>2, SameShown
<1> HIDE DEF ViewOf
<1>2. ViewOf(at, file) = ViewOf(at', file')
  BY <1>1, ViewDomain
<1> QED
  BY <1>2, ViewIs

LEMMA ViewSame == UNCHANGED <<at, file>> => View' = View
BY ViewKept

\* In a tidy catalog the file of a test case is what is shown of it.
LEMMA HeldIsShown ==
  ASSUME TidyFiles, NEW l \in Category \X Id, NEW p \in Holding(at, file, l)
  PROVE  View[l] = Shown(file[at[p]]) /\ \A q \in Holding(at, file, l) : q = p
<1>1. \A q \in Holding(at, file, l) : q = p
  BY DEF Holding, TidyFiles
<1>2. ViewOf(at, file)[l] = Shown(file[at[p]])
  BY <1>1, ShownAt
<1> QED
  BY <1>1, <1>2, ViewIs

-----------------------------------------------------------------------------
(***************************************************************************)
(* A request that is alone: the steps that change no file                  *)
(***************************************************************************)

\* The effect of the step is the one that the request has on its item, if any.
AloneStep(c) == Alone' /\ (View' # View => Effect(c))

LEMMA GoIs ==
  ASSUME CatalogTypeOK, NEW c \in Client, NEW s, Go(c, s)
  PROVE  cl'[c] = s /\ \A d \in Client : d # c => cl'[d] = cl[d]
BY DEF Go, CatalogTypeOK

LEMMA AtRest ==
  ASSUME NEW c \in Client, cl[c].pc \in {"idle", "item", "folder", "gitkeep", "done"}
  PROVE  WalkOK(c) /\ HandOK(c)
BY DEF WalkOK, HandOK, Found, Phase

\* It is enough to look at the request that takes the step.
LEMMA AloneLooks ==
  ASSUME CatalogTypeOK, Alone, NEW c \in Client, Busy(c), cl[c].pc # "write",
         UNCHANGED <<at, file>>, dirs \subseteq dirs', NEW s, Go(c, s), s.pc # "write",
         (WalkOK(c) /\ HandOK(c))'
  PROVE  AloneStep(c)
<1>1. cl'[c] = s /\ \A d \in Client : d # c => cl'[d] = cl[d]
  BY GoIs
<1>2. \A d \in Client : d # c => ~ Busy(d)
  BY DEF Alone
<1>3. \A d \in Client : d # c => cl'[d].pc \in {"idle", "done"}
  BY <1>1, <1>2 DEF Busy
<1>4. \A d \in Client : (WalkOK(d) /\ HandOK(d))'
  <2>1. ASSUME NEW d \in Client, d # c PROVE (WalkOK(d) /\ HandOK(d))'
    BY <1>3, <2>1 DEF WalkOK, HandOK, Found, Phase
  <2> QED
    BY <2>1
<1>5. TidyFiles'
  BY DEF Alone, TidyFiles, CategoryOf
<1>6. \A d, e \in Client : Busy(d)' /\ Busy(e)' => d = e
  BY <1>3 DEF Busy
<1>7. \A p \in Path : at[p] # None => file[at[p]].state = "whole"
  BY <1>2 DEF Alone, Writing, Busy
<1>8. Alone'
  BY <1>4, <1>5, <1>6, <1>7 DEF Alone
<1> QED
  BY <1>8, ViewSame DEF AloneStep

LEMMA AloneRests ==
  ASSUME CatalogTypeOK, Alone, NEW c \in Client, Busy(c), cl[c].pc # "write",
         UNCHANGED <<at, file>>, dirs \subseteq dirs', NEW s, Go(c, s),
         s.pc \in {"item", "folder", "gitkeep", "done"}
  PROVE  AloneStep(c)
<1>1. cl'[c].pc \in {"item", "folder", "gitkeep", "done"}
  BY GoIs
<1>2. (WalkOK(c) /\ HandOK(c))'
  BY <1>1 DEF WalkOK, HandOK, Found, Phase
<1> QED
  BY <1>2, AloneLooks

LEMMA RestFacts ==
  ASSUME CatalogTypeOK, NEW c \in Client, NEW n \in {0, 1}
  PROVE  NextItem(cl[c], n).pc = "item" /\ Refuse(cl[c]).pc = "done"
BY DEF NextItem, Refuse, CatalogTypeOK, ClientOK, ClientType

\* A walk starts with the root.
LEMMA WalkStarts ==
  ASSUME NEW c \in Client, Root \in dirs', NEW s \in ClientType,
         NEW goal \in {"find", "place", "list", "check"}, cl'[c] = WalkFor(s, goal)
  PROVE  /\ WalkOK(c)' /\ cl'[c].pc = "walk" /\ Phase(cl'[c]) = goal
         /\ cl'[c].req = s.req /\ cl'[c].k = s.k /\ cl'[c].tc = s.tc
<1>1. /\ cl'[c].pc = "walk" /\ cl'[c].goal = goal /\ cl'[c].unread = {Root}
      /\ cl'[c].todo = {} /\ cl'[c].seen = <<>>
      /\ cl'[c].req = s.req /\ cl'[c].k = s.k /\ cl'[c].tc = s.tc
  BY DEF WalkFor, ClientType
<1> QED
  BY <1>1, EmptySeen DEF WalkOK, Found, Phase

LEMMA HandFree ==
  ASSUME NEW c \in Client, Phase(cl'[c]) \in {"find", "check"},
         cl'[c].pc \notin {"rename", "write"}
  PROVE  HandOK(c)'
BY DEF HandOK, Phase

LEMMA BeginItemAlone ==
  ASSUME CatalogTypeOK, Alone, NEW c \in Client, BeginItem(c)
  PROVE  AloneStep(c)
<1> DEFINE me == cl[c]
           named == [me EXCEPT !.tc = [Blank EXCEPT !.id = Item(c).id]]
<1>1. /\ ClientOK(me) /\ me \in ClientType /\ me.pc = "item" /\ me.req # None
      /\ me.req \in Requests /\ me.k \in Nat \ {0} /\ Busy(c)
  BY DEF CatalogTypeOK, BeginItem, ClientOK, ClientType, Busy
<1>2. UNCHANGED <<at, file, dirs>> /\ dirs \subseteq dirs' /\ Root \in dirs'
  BY DEF BeginItem, files, Alone, TidyFiles
<1>3. CASE me.k > Len(me.req.items)
  <2>1. Go(c, Refuse(me))
    BY <1>3 DEF BeginItem
  <2> QED
    BY <1>1, <1>2, <2>1, RestFacts, AloneRests
<1>4. CASE ~ (me.k > Len(me.req.items))
  <2>1. Item(c).id \in Id
    BY <1>1, <1>4, RequestFacts DEF Item
  <2>2. /\ named \in ClientType /\ named.req = me.req /\ named.k = me.k
        /\ named.tc = [id |-> Item(c).id, text |-> None, order |-> 0]
    BY <1>1, <2>1 DEF ClientType, Blank
  <2>3. CASE me.req.type = "save"
    <3> DEFINE s == [named EXCEPT !.pc = "mkdir", !.tc.text = c]
    <3>1. Go(c, s)
      BY <1>4, <2>3 DEF BeginItem
    <3>2. /\ s.pc = "mkdir" /\ s.req = me.req
          /\ s.tc = [id |-> Item(c).id, text |-> c, order |-> 0]
      BY <2>2 DEF ClientType
    <3> HIDE DEF s
    <3>3. cl'[c] = s
      BY <3>1, GoIs
    <3>4. (WalkOK(c) /\ HandOK(c))'
      BY <2>3, <3>2, <3>3 DEF WalkOK, HandOK, Found, Phase
    <3> QED
      BY <1>1, <1>2, <3>1, <3>2, <3>4, AloneLooks
  <2>4. CASE me.req.type \in {"dropFolder", "createFolder"}
    <3>1. Go(c, [me EXCEPT !.pc = "folder"])
      BY <1>4, <2>4 DEF BeginItem
    <3>2. [me EXCEPT !.pc = "folder"].pc = "folder"
      BY <1>1 DEF ClientType
    <3> QED
      BY <1>1, <1>2, <3>1, <3>2, AloneRests
  <2>5. CASE me.req.type \notin {"save", "dropFolder", "createFolder"}
    <3>1. Go(c, WalkFor(named, "find"))
      BY <1>4, <2>5 DEF BeginItem
    <3> HIDE DEF named
    <3>2. WalkOK(c)' /\ cl'[c].pc = "walk" /\ Phase(cl'[c]) = "find"
      BY <1>2, <2>2, <3>1, GoIs, WalkStarts
    <3>3. HandOK(c)'
      BY <3>2, HandFree
    <3>4. WalkFor(named, "find").pc # "write"
      BY <3>1, <3>2, GoIs
    <3> QED
      BY <1>1, <1>2, <3>1, <3>2, <3>3, <3>4, AloneLooks
  <2> QED
    BY <2>3, <2>4, <2>5
<1> QED
  BY <1>3, <1>4

\* What a request has in hand stays right while it walks.
LEMMA HandKept ==
  ASSUME NEW c \in Client, HandOK(c), UNCHANGED <<at, file>>, Phase(cl'[c]) = Phase(cl[c]),
         cl'[c].pc \notin {"rename", "write"},
         cl'[c].req = cl[c].req, cl'[c].k = cl[c].k, cl'[c].tc = cl[c].tc
  PROVE  HandOK(c)'
<1>1. View' = View /\ Item(c)' = Item(c)
  BY ViewSame DEF Item
<1> QED
  BY <1>1 DEF HandOK, Phase

LEMMA ReadDirAlone ==
  ASSUME CatalogTypeOK, Alone, NEW c \in Client, ReadDir(c)
  PROVE  AloneStep(c)
<1> DEFINE me == cl[c]
           d == IF Root \in me.unread THEN Root ELSE CHOOSE e \in me.unread : TRUE
           todo == {p \in Path : p[1] = d /\ at[p] # None}
           unread == (me.unread \ {d}) \cup IF d = Root THEN dirs \ {Root} ELSE {}
           read == [me EXCEPT !.todo = todo, !.unread = unread]
<1>1. /\ me \in ClientType /\ me.pc = "walk" /\ Busy(c) /\ me.todo = {} /\ me.unread # {}
      /\ WalkOK(c) /\ HandOK(c)
  BY DEF CatalogTypeOK, ReadDir, ClientOK, Busy, Alone
<1>2. UNCHANGED <<at, file, dirs>>
  BY DEF ReadDir, files
<1>3. d \in me.unread
  BY <1>1
<1>4. d \in dirs
  BY <1>1, <1>3 DEF WalkOK
<1>5. Go(c, read)
  BY <1>4 DEF ReadDir
<1>6. /\ read.pc = "walk" /\ read.req = me.req /\ read.k = me.k /\ read.tc = me.tc
      /\ read.seen = me.seen /\ read.goal = me.goal /\ read.todo = todo /\ read.unread = unread
  BY <1>1 DEF ClientType
<1>7. cl'[c] = read
  BY <1>5, GoIs
<1> HIDE DEF read
<1>8. unread \subseteq dirs /\ \A p \in todo : at[p] # None
  BY <1>1 DEF WalkOK
<1>9. ASSUME NEW p \in Path, at[p] # None
      PROVE  p \in DOMAIN me.seen \cup todo \/ p[1] \in unread
  <2>1. p \in DOMAIN me.seen \/ p[1] \in me.unread \/ Root \in me.unread
    BY <1>1, <1>9 DEF WalkOK
  <2>2. p[1] \in dirs
    BY <1>9 DEF Alone, TidyFiles
  <2>3. CASE p[1] = d
    BY <1>9, <2>3
  <2>4. CASE d = Root /\ p[1] # d
    BY <2>2, <2>4
  <2>5. CASE d # Root /\ p[1] # d
    BY <2>1, <2>5
  <2> QED
    BY <2>3, <2>4, <2>5
<1> HIDE DEF todo, unread, d
<1>10. WalkOK(c)'
  BY <1>1, <1>2, <1>6, <1>7, <1>8, <1>9 DEF WalkOK, Found
<1>11. HandOK(c)'
  BY <1>1, <1>2, <1>6, <1>7, HandKept DEF Phase
<1> QED
  BY <1>1, <1>2, <1>5, <1>6, <1>10, <1>11, AloneLooks

LEMMA LoadAlone ==
  ASSUME CatalogTypeOK, Alone, NEW c \in Client, Load(c)
  PROVE  AloneStep(c)
<1> DEFINE me == cl[c]
           p == CHOOSE q \in me.todo : TRUE
           f == file[at[p]]
           tc == [id |-> f.id, text |-> f.text, order |-> f.order]
           seen == [q \in DOMAIN me.seen \cup {p} |-> IF q = p THEN tc ELSE me.seen[q]]
           read == [me EXCEPT !.todo = me.todo \ {p}, !.seen = seen]
<1>1. /\ me \in ClientType /\ me.pc = "walk" /\ Busy(c) /\ me.todo # {}
      /\ me.todo \subseteq Path /\ WalkOK(c) /\ HandOK(c)
  BY DEF CatalogTypeOK, Load, ClientOK, ClientType, Busy, Alone
<1>2. UNCHANGED <<at, file, dirs>>
  BY DEF Load, files
<1>3. p \in me.todo
  BY <1>1
<1>4. p \in Path /\ at[p] # None
  BY <1>1, <1>3 DEF WalkOK
<1>5. \A e \in Client : cl[e].pc # "write"
  BY <1>1 DEF Alone, Busy
<1>6. f.state = "whole"
  BY <1>4, <1>5 DEF Alone, Writing
<1>7. Go(c, read)
  BY <1>4, <1>6 DEF Load
<1>8. /\ read.pc = "walk" /\ read.req = me.req /\ read.k = me.k /\ read.tc = me.tc
      /\ read.seen = seen /\ read.goal = me.goal /\ read.todo = me.todo \ {p}
      /\ read.unread = me.unread
  BY <1>1 DEF ClientType
<1>9. cl'[c] = read
  BY <1>7, GoIs
<1> HIDE DEF read, p
<1>10. /\ DOMAIN seen = DOMAIN me.seen \cup {p}
       /\ \A q \in DOMAIN seen : seen[q] = IF q = p THEN tc ELSE me.seen[q]
  OBVIOUS
<1> HIDE DEF seen
<1>11. \A q \in DOMAIN seen :
          /\ at[q] # None
          /\ seen[q] = [id |-> file[at[q]].id, text |-> file[at[q]].text,
                        order |-> file[at[q]].order]
  BY <1>1, <1>4, <1>10 DEF WalkOK
<1>12. WalkOK(c)'
  BY <1>1, <1>2, <1>8, <1>9, <1>10, <1>11 DEF WalkOK, Found
<1>13. HandOK(c)'
  BY <1>1, <1>2, <1>8, <1>9, HandKept DEF Phase
<1> QED
  BY <1>1, <1>2, <1>7, <1>8, <1>12, <1>13, AloneLooks

LEMMA WalkEndAlone ==
  ASSUME CatalogTypeOK, Alone, NEW c \in Client, WalkEnd(c)
  PROVE  AloneStep(c)
<1> DEFINE me == cl[c]
           s == [me EXCEPT !.pc = me.goal]
<1>1. /\ me \in ClientType /\ me.pc = "walk" /\ Busy(c) /\ me.todo = {} /\ me.unread = {}
      /\ WalkOK(c) /\ HandOK(c) /\ Go(c, s)
  BY DEF CatalogTypeOK, WalkEnd, ClientOK, Busy, Alone
<1>2. UNCHANGED <<at, file, dirs>>
  BY DEF WalkEnd, files
<1>3. /\ s.pc = me.goal /\ s.req = me.req /\ s.k = me.k /\ s.tc = me.tc /\ s.seen = me.seen
      /\ me.goal \in {"find", "place", "list", "check"}
  BY <1>1 DEF ClientType
<1>4. cl'[c] = s
  BY <1>1, GoIs
<1> HIDE DEF s
<1>5. WalkOK(c)'
  BY <1>1, <1>2, <1>3, <1>4 DEF WalkOK
<1>6. HandOK(c)'
  BY <1>1, <1>2, <1>3, <1>4, HandKept DEF Phase
<1> QED
  BY <1>1, <1>2, <1>3, <1>5, <1>6, AloneLooks

\* After a walk the request knows where its test case is, or that it is nowhere.
LEMMA MatchAlone ==
  ASSUME CatalogTypeOK, Alone, NEW c \in Client, Found(cl[c]), NEW p \in Matches(c)
  PROVE  /\ p \in Path /\ at[p] # None /\ p[2] = cl[c].tc.id /\ CategoryOf(p[1]) = Item(c).cat
         /\ Item(c).cat \in Category /\ cl[c].tc.id \in Id
         /\ file[at[p]] \in File /\ file[at[p]].id = cl[c].tc.id
         /\ cl[c].seen[p] = [id |-> file[at[p]].id, text |-> file[at[p]].text,
                             order |-> file[at[p]].order]
         /\ p \in Holding(at, file, <<Item(c).cat, cl[c].tc.id>>)
         /\ View[<<Item(c).cat, cl[c].tc.id>>] = Shown(file[at[p]])
<1>1. InItem(cl[c]) /\ ClientOK(cl[c]) /\ WalkOK(c)
  BY DEF Found, InItem, CatalogTypeOK, Alone
<1>2. /\ p \in Path /\ p \in DOMAIN cl[c].seen /\ cl[c].seen[p] \in Case
      /\ cl[c].seen[p].id = cl[c].tc.id /\ CategoryOf(p[1]) = Item(c).cat
  BY <1>1, MatchFacts
<1>3. /\ at[p] # None
      /\ cl[c].seen[p] = [id |-> file[at[p]].id, text |-> file[at[p]].text,
                          order |-> file[at[p]].order]
  BY <1>1, <1>2 DEF WalkOK
<1>4. file[at[p]] \in File
  BY <1>2, <1>3 DEF CatalogTypeOK, FilesOK
<1>5. file[at[p]].id = cl[c].tc.id /\ p[2] = cl[c].tc.id
  BY <1>2, <1>3 DEF Alone, TidyFiles
<1>6. Item(c).cat \in Category /\ cl[c].tc.id \in Id
  BY <1>1, <1>4, <1>5, ItemFacts DEF File
<1>7. p \in Holding(at, file, <<Item(c).cat, cl[c].tc.id>>)
  BY <1>2, <1>3, <1>5 DEF Holding
<1>8. <<Item(c).cat, cl[c].tc.id>> \in Category \X Id
  BY <1>6
<1>9. View[<<Item(c).cat, cl[c].tc.id>>] = Shown(file[at[p]])
  BY <1>7, <1>8, HeldIsShown DEF Alone
<1> QED
  BY <1>2, <1>3, <1>4, <1>5, <1>6, <1>7, <1>9

LEMMA NoMatchAlone ==
  ASSUME Alone, NEW c \in Client, Found(cl[c]), NEW id \in Id, Item(c).cat \in Category,
         \A p \in DOMAIN cl[c].seen :
            ~ (cl[c].seen[p].id = id /\ CategoryOf(p[1]) = Item(c).cat)
  PROVE  /\ Holding(at, file, <<Item(c).cat, id>>) = {}
         /\ View[<<Item(c).cat, id>>] = None
<1>1. WalkOK(c)
  BY DEF Alone
<1>2. ASSUME NEW p \in Holding(at, file, <<Item(c).cat, id>>) PROVE FALSE
  <2>1. p \in Path /\ at[p] # None /\ CategoryOf(p[1]) = Item(c).cat /\ file[at[p]].id = id
    BY DEF Holding
  <2>2. p \in DOMAIN cl[c].seen
    BY <1>1, <2>1 DEF WalkOK
  <2>3. cl[c].seen[p] = [id |-> file[at[p]].id, text |-> file[at[p]].text,
                         order |-> file[at[p]].order]
    BY <1>1, <2>2 DEF WalkOK
  <2>4. cl[c].seen[p].id = id
    BY <2>1, <2>3
  <2> QED
    BY <2>1, <2>2, <2>4
<1>3. <<Item(c).cat, id>> \in Category \X Id
  OBVIOUS
<1> QED
  BY <1>2, <1>3, NotShown, ViewIs

LEMMA NotFoundAlone ==
  ASSUME CatalogTypeOK, Alone, NEW c \in Client,
         NotFound(c) \/ MoveRefused(c) \/ DuplicateChecked(c) \/ WriteGitkeep(c)
  PROVE  AloneStep(c)
<1>1. UNCHANGED <<at, file, dirs>>
  BY DEF NotFound, MoveRefused, DuplicateChecked, WriteGitkeep, files
<1>2. Busy(c) /\ cl[c].pc # "write"
  BY DEF NotFound, MoveRefused, DuplicateChecked, WriteGitkeep, At, Busy
<1>3. Go(c, NextItem(cl[c], 0)) \/ Go(c, NextItem(cl[c], 1)) \/ Go(c, Refuse(cl[c]))
  BY DEF NotFound, MoveRefused, DuplicateChecked, WriteGitkeep
<1> QED
  BY <1>1, <1>2, <1>3, RestFacts, AloneRests

LEMMA CreateFolderAlone ==
  ASSUME CatalogTypeOK, Alone, NEW c \in Client, CreateFolder(c)
  PROVE  AloneStep(c)
<1>1. UNCHANGED <<at, file>> /\ dirs \subseteq dirs'
  BY DEF CreateFolder
<1>2. Busy(c) /\ cl[c].pc # "write"
  BY DEF CreateFolder, At, Busy
<1>3. Go(c, [cl[c] EXCEPT !.pc = "gitkeep"]) \/ Go(c, Refuse(cl[c]))
  BY DEF CreateFolder
<1>4. [cl[c] EXCEPT !.pc = "gitkeep"].pc = "gitkeep"
  BY DEF CatalogTypeOK, ClientOK, ClientType
<1> QED
  BY <1>1, <1>2, <1>3, <1>4, RestFacts, AloneRests

LEMMA MoveMkdirAlone ==
  ASSUME CatalogTypeOK, Alone, NEW c \in Client, MoveMkdir(c)
  PROVE  AloneStep(c)
<1> DEFINE me == cl[c]
<1>1. me.pc = "find" /\ Busy(c) /\ Found(me) /\ me \in ClientType
  BY DEF MoveMkdir, At, Busy, Found, CatalogTypeOK, ClientOK
<1>2. UNCHANGED <<at, file>> /\ dirs \subseteq dirs'
  BY DEF MoveMkdir
<1>3. PICK p \in Matches(c) :
          Go(c, IF p = <<me.req.target, me.tc.id>> THEN NextItem(me, 1)
                ELSE [me EXCEPT !.pc = "rename", !.path = p])
  BY DEF MoveMkdir
<1>4. CASE Go(c, NextItem(me, 1))
  BY <1>1, <1>2, <1>4, RestFacts, AloneRests
<1>5. CASE /\ Go(c, [me EXCEPT !.pc = "rename", !.path = p])
           /\ p # <<me.req.target, me.tc.id>>
  <2> DEFINE s == [me EXCEPT !.pc = "rename", !.path = p]
  <2>1. at[p] # None /\ p[2] = me.tc.id
    BY <1>1, MatchAlone
  <2>2. s.pc = "rename" /\ s.path = p /\ s.tc = me.tc /\ s.req = me.req
    BY <1>1 DEF ClientType
  <2>3. cl'[c] = s
    BY <1>5, GoIs
  <2> HIDE DEF s
  <2>4. WalkOK(c)'
    BY <2>2, <2>3 DEF WalkOK, Found
  <2>5. HandOK(c)'
    BY <1>2, <1>5, <2>1, <2>2, <2>3 DEF HandOK, Phase
  <2> QED
    BY <1>1, <1>2, <1>5, <2>2, <2>4, <2>5, AloneLooks DEF s
<1> QED
  BY <1>3, <1>4, <1>5

LEMMA MkdirAlone ==
  ASSUME CatalogTypeOK, Alone, NEW c \in Client, Mkdir(c)
  PROVE  AloneStep(c)
<1> DEFINE me == cl[c]
<1>1. me.pc = "mkdir" /\ Busy(c) /\ me \in ClientType /\ HandOK(c)
  BY DEF Mkdir, Busy, CatalogTypeOK, ClientOK, Alone
<1>2. UNCHANGED <<at, file>> /\ dirs \subseteq dirs' /\ Root \in dirs'
  BY DEF Mkdir, Alone, TidyFiles
<1>3. Go(c, WalkFor(me, "place"))
  BY DEF Mkdir
<1>4. /\ WalkOK(c)' /\ cl'[c].pc = "walk" /\ Phase(cl'[c]) = "place"
      /\ cl'[c].req = me.req /\ cl'[c].k = me.k /\ cl'[c].tc = me.tc
  BY <1>1, <1>2, <1>3, GoIs, WalkStarts
<1>5. View' = View /\ Item(c)' = Item(c)
  BY <1>2, <1>4, ViewSame DEF Item
<1>6. HandOK(c)'
  BY <1>1, <1>4, <1>5 DEF HandOK, Phase
<1>7. WalkFor(me, "place").pc # "write"
  BY <1>3, <1>4, GoIs
<1> QED
  BY <1>1, <1>2, <1>3, <1>4, <1>6, <1>7, AloneLooks

LEMMA ReorderAlone ==
  ASSUME CatalogTypeOK, Alone, NEW c \in Client, Reorder(c)
  PROVE  AloneStep(c)
<1> DEFINE me == cl[c]
<1>1. /\ me.pc = "find" /\ me.req.type = "reorder" /\ Busy(c) /\ Found(me)
      /\ me \in ClientType /\ InItem(me) /\ ClientOK(me) /\ Phase(me) = "find"
  BY DEF Reorder, At, Busy, Found, CatalogTypeOK, ClientOK, InItem, Phase
<1>2. UNCHANGED <<at, file, dirs>>
  BY DEF Reorder, files
<1>3. PICK p \in Matches(c) :
          LET tc == me.seen[p]
          IN  Go(c, IF tc.order = me.k - 1 THEN NextItem(me, 0)
                    ELSE [me EXCEPT !.pc = "mkdir", !.tc = [tc EXCEPT !.order = me.k - 1]])
  BY DEF Reorder
<1>4. CASE Go(c, NextItem(me, 0))
  BY <1>1, <1>2, <1>4, RestFacts, AloneRests
<1>5. CASE Go(c, [me EXCEPT !.pc = "mkdir", !.tc = [me.seen[p] EXCEPT !.order = me.k - 1]])
  <2> DEFINE tc == [me.seen[p] EXCEPT !.order = me.k - 1]
             s == [me EXCEPT !.pc = "mkdir", !.tc = tc]
             f == file[at[p]]
  <2>1. /\ f \in File /\ me.seen[p] = [id |-> f.id, text |-> f.text, order |-> f.order]
        /\ View[<<Item(c).cat, me.tc.id>>] = Shown(f)
        /\ Item(c).cat \in Category /\ me.tc.id \in Id
    BY <1>1, MatchAlone
  <2>2. me.tc.id = Item(c).id
    BY <1>1, ItemFacts DEF InHand
  <2>3. Shown(f) = [text |-> f.text, order |-> f.order] /\ Shown(f) # None
    BY <2>1, CatalogAssumption DEF Shown, File
  <2>4. tc.text = f.text /\ tc.order = me.k - 1
    BY <2>1
  <2> HIDE DEF tc
  <2>5. s.pc = "mkdir" /\ s.req = me.req /\ s.k = me.k /\ s.tc = tc
    BY <1>1 DEF ClientType
  <2>6. cl'[c] = s
    BY <1>5, GoIs DEF tc
  <2> HIDE DEF s, f
  <2>7. View' = View /\ Item(c)' = Item(c)
    BY <1>2, <2>5, <2>6, ViewSame DEF Item
  <2>8. WalkOK(c)'
    BY <2>5, <2>6 DEF WalkOK, Found
  <2>9. View[<<Item(c).cat, Item(c).id>>] = [text |-> f.text, order |-> f.order]
        /\ View[<<Item(c).cat, Item(c).id>>] # None
    BY <2>1, <2>2, <2>3
  <2>10. HandOK(c)'
    BY <1>1, <2>4, <2>5, <2>6, <2>7, <2>9 DEF HandOK, Phase
  <2>11. Go(c, s)
    BY <1>5 DEF s, tc
  <2> QED
    BY <1>1, <1>2, <2>5, <2>8, <2>10, <2>11, AloneLooks
<1> QED
  BY <1>3, <1>4, <1>5

LEMMA DuplicateFoundAlone ==
  ASSUME CatalogTypeOK, Alone, NEW c \in Client, DuplicateFound(c)
  PROVE  AloneStep(c)
<1> DEFINE me == cl[c]
<1>1. /\ me.pc = "find" /\ Busy(c) /\ Found(me)
      /\ me \in ClientType /\ InItem(me) /\ ClientOK(me) /\ Phase(me) = "find"
  BY DEF DuplicateFound, At, Busy, Found, CatalogTypeOK, ClientOK, InItem, Phase
<1>2. UNCHANGED <<at, file, dirs>> /\ Root \in dirs'
  BY DEF DuplicateFound, files, Alone, TidyFiles
<1>3. PICK p \in Matches(c) : Go(c, WalkFor([me EXCEPT !.tc = me.seen[p]], "list"))
  BY DEF DuplicateFound
<1> DEFINE s == [me EXCEPT !.tc = me.seen[p]]
           f == file[at[p]]
<1>4. /\ f \in File /\ me.seen[p] = [id |-> f.id, text |-> f.text, order |-> f.order]
      /\ View[<<Item(c).cat, me.tc.id>>] = Shown(f)
  BY <1>1, MatchAlone
<1>5. me.tc.id = Item(c).id
  BY <1>1, ItemFacts DEF InHand
<1>6. s \in ClientType /\ s.req = me.req /\ s.k = me.k /\ s.tc = me.seen[p]
  BY <1>1, <1>4 DEF ClientType, File
<1>7. View[<<Item(c).cat, Item(c).id>>] = [text |-> s.tc.text, order |-> s.tc.order]
  BY <1>4, <1>5, <1>6 DEF Shown
<1>8. Go(c, WalkFor(s, "list"))
  BY <1>3
<1> HIDE DEF s
<1>9. /\ WalkOK(c)' /\ cl'[c].pc = "walk" /\ Phase(cl'[c]) = "list"
      /\ cl'[c].req = s.req /\ cl'[c].k = s.k /\ cl'[c].tc = s.tc
  BY <1>2, <1>6, <1>8, GoIs, WalkStarts
<1>10. View' = View /\ Item(c)' = Item(c)
  BY <1>2, <1>6, <1>9, ViewSame DEF Item
<1>11. HandOK(c)'
  BY <1>7, <1>9, <1>10 DEF HandOK, Phase
<1>12. WalkFor(s, "list").pc # "write"
  BY <1>8, <1>9, GoIs
<1> QED
  BY <1>1, <1>2, <1>8, <1>9, <1>11, <1>12, AloneLooks

LEMMA DuplicateNamedAlone ==
  ASSUME CatalogTypeOK, Alone, NEW c \in Client, DuplicateNamed(c)
  PROVE  AloneStep(c)
<1> DEFINE me == cl[c]
           taken == {me.seen[p].id : p \in {q \in DOMAIN me.seen : CategoryOf(q[1]) = Item(c).cat}}
           new == FreeCopy(me.tc.id, taken)
           s == [me EXCEPT !.pc = "mkdir", !.tc.id = new]
<1>1. /\ me.pc = "list" /\ Busy(c) /\ Found(me) /\ HandOK(c)
      /\ me \in ClientType /\ InItem(me) /\ ClientOK(me) /\ Phase(me) = "list"
  BY DEF DuplicateNamed, Busy, Found, CatalogTypeOK, ClientOK, InItem, Phase, Alone
<1>2. UNCHANGED <<at, file, dirs>>
  BY DEF DuplicateNamed, files
<1>3. ~ (Range(Copies[me.tc.id]) \subseteq taken) /\ Go(c, s)
  BY DEF DuplicateNamed
<1>4. /\ me.tc \in Case /\ me.tc.id = Item(c).id /\ me.req.type = "duplicate"
      /\ Item(c).cat \in Category
  BY <1>1, ItemFacts DEF InHand, PhaseOf
<1>5. new \in Range(Copies[Item(c).id]) /\ new \in Id /\ new \notin taken
  <2> HIDE DEF taken
  <2> QED
    BY <1>3, <1>4, FreeCopyFacts DEF Case
<1>6. View[<<Item(c).cat, new>>] = None
  <2>1. \A p \in DOMAIN me.seen : ~ (me.seen[p].id = new /\ CategoryOf(p[1]) = Item(c).cat)
    BY <1>5
  <2> HIDE DEF new
  <2> QED
    BY <1>1, <1>4, <1>5, <2>1, NoMatchAlone
<1> HIDE DEF new, taken
<1>7. /\ s.pc = "mkdir" /\ s.req = me.req /\ s.k = me.k
      /\ s.tc.id = new /\ s.tc.text = me.tc.text /\ s.tc.order = me.tc.order
  BY <1>1 DEF ClientType
<1>8. cl'[c] = s
  BY <1>3, GoIs
<1> HIDE DEF s
<1>9. View' = View /\ Item(c)' = Item(c)
  BY <1>2, <1>7, <1>8, ViewSame DEF Item
<1>10. WalkOK(c)'
  BY <1>7, <1>8 DEF WalkOK, Found
<1>11. View[<<Item(c).cat, Item(c).id>>] = [text |-> me.tc.text, order |-> me.tc.order]
  BY <1>1 DEF HandOK
<1>12. HandOK(c)'
  BY <1>4, <1>5, <1>6, <1>7, <1>8, <1>9, <1>11 DEF HandOK, Phase
<1> QED
  BY <1>1, <1>2, <1>3, <1>7, <1>10, <1>12, AloneLooks

\* A request that finds another in progress makes the two overlap.
LEMMA StartAlone ==
  ASSUME CatalogTypeOK, Alone, NEW c \in Client, NEW req \in Requests, Start(c, req),
         ~ overlapped'
  PROVE  AloneStep(c)
<1> DEFINE s == [Idle EXCEPT !.pc = "item", !.req = req]
<1>1. \A d \in Client : ~ Busy(d)
  BY DEF Start
<1>2. cl'[c] = s /\ \A d \in Client : d # c => cl'[d] = cl[d]
  BY GoIs DEF Start
<1>3. s.pc = "item"
  BY DEF Idle
<1>4. \A d \in Client : cl'[d].pc \in {"item", "idle", "done"}
  BY <1>1, <1>2, <1>3 DEF Busy
<1>5. \A d \in Client : (WalkOK(d) /\ HandOK(d))'
  BY <1>4 DEF WalkOK, HandOK, Found, Phase
<1>6. \A d, e \in Client : Busy(d)' /\ Busy(e)' => d = e
  BY <1>1, <1>2 DEF Busy
<1>7. UNCHANGED <<at, file, dirs>>
  BY DEF Start, files
<1>8. TidyFiles'
  BY <1>7 DEF Alone, TidyFiles, CategoryOf
<1>9. \A p \in Path : at[p] # None => file[at[p]].state = "whole"
  BY <1>1 DEF Alone, Writing, Busy
<1>10. Alone'
  BY <1>5, <1>6, <1>7, <1>8, <1>9 DEF Alone
<1> QED
  BY <1>7, <1>10, ViewSame DEF AloneStep

-----------------------------------------------------------------------------
(***************************************************************************)
(* A request that is alone: the steps that change files                    *)
(***************************************************************************)

\* Nobody else is at work, so nobody else can be disturbed.
LEMMA OthersRest ==
  ASSUME CatalogTypeOK, Alone, NEW c \in Client, Busy(c),
         \A d \in Client : d # c => cl'[d] = cl[d]
  PROVE  /\ \A d \in Client : d # c => (WalkOK(d) /\ HandOK(d))'
         /\ \A d, e \in Client : Busy(d)' /\ Busy(e)' => d = e
         /\ \A d \in Client : d # c => cl[d].pc # "write" /\ cl'[d].pc # "write"
<1>1. \A d \in Client : d # c => cl'[d].pc \in {"idle", "done"} /\ cl[d].pc \in {"idle", "done"}
  BY DEF Alone, Busy
<1>2. \A d, e \in Client : Busy(d)' /\ Busy(e)' => d = e
  BY <1>1 DEF Busy
<1>3. ASSUME NEW d \in Client, d # c PROVE (WalkOK(d) /\ HandOK(d))'
  BY <1>1, <1>3 DEF WalkOK, HandOK, Found, Phase
<1> QED
  BY <1>1, <1>2, <1>3

\* The files are whole until the request writes.
LEMMA WholeAlone ==
  ASSUME Alone, NEW c \in Client, Busy(c), cl[c].pc # "write"
  PROVE  \A p \in Path : at[p] # None => file[at[p]].state = "whole"
BY DEF Alone, Writing, Busy

LEMMA DeleteAlone ==
  ASSUME CatalogTypeOK, Alone, NEW c \in Client, Delete(c)
  PROVE  AloneStep(c)
<1> DEFINE me == cl[c]
           l == <<Item(c).cat, me.tc.id>>
<1>1. /\ me.pc = "find" /\ me.req.type = "delete" /\ Busy(c) /\ Found(me) /\ InItem(me)
      /\ ClientOK(me) /\ Phase(me) = "find"
  BY DEF Delete, At, Busy, Found, InItem, CatalogTypeOK, Phase
<1>2. PICK p \in Matches(c) :
          IF at[p] = None
          THEN Go(c, Refuse(cl[c])) /\ UNCHANGED files
          ELSE /\ at' = [at EXCEPT ![p] = None]
               /\ trash' = trash \cup {at[p]}
               /\ Go(c, NextItem(cl[c], 1))
               /\ UNCHANGED <<dirs, file>>
  BY DEF Delete
<1>3. /\ p \in Path /\ at[p] # None /\ Item(c).cat \in Category /\ me.tc.id \in Id
      /\ p \in Holding(at, file, l) /\ View[l] = Shown(file[at[p]]) /\ file[at[p]] \in File
  BY <1>1, MatchAlone
<1>4. at' = [at EXCEPT ![p] = None] /\ Go(c, NextItem(cl[c], 1)) /\ UNCHANGED <<dirs, file>>
  BY <1>2, <1>3
<1>5. at \in [Path -> Inode \cup {None}]
  BY DEF CatalogTypeOK, FilesOK
<1>6. \A q \in Path : at'[q] = IF q = p THEN None ELSE at[q]
  BY <1>3, <1>4, <1>5
<1>7. l \in Category \X Id /\ l = <<Item(c).cat, Item(c).id>>
  BY <1>1, <1>3, ItemFacts DEF InHand
<1>8. \A q \in Holding(at, file, l) : q = p
  BY <1>3, <1>7, HeldIsShown DEF Alone
<1> HIDE DEF l
<1>9. ASSUME NEW m \in Category \X Id
      PROVE  View'[m] = IF m = l THEN None ELSE View[m]
  <2>1. CASE m = l
    <3>1. Holding(at', file', l) = {}
      BY <1>4, <1>6, <1>8 DEF Holding
    <3> QED
      BY <1>7, <2>1, <3>1, NotShown, ViewIs
  <2>2. CASE m # l
    <3>1. p \notin Holding(at, file, m)
      BY <1>3, <2>2 DEF Holding, l
    <3>2. Holding(at', file', m) = Holding(at, file, m)
      BY <1>4, <1>6, <3>1 DEF Holding
    <3>3. \A q \in Holding(at, file, m) : Shown(file[at[q]]) = Shown(file'[at'[q]])
      BY <1>4, <1>6, <3>1 DEF Holding
    <3> QED
      BY <2>2, <3>2, <3>3, SameShown, ViewIs
  <2> QED
    BY <2>1, <2>2
<1>10. View' = [View EXCEPT ![l] = None]
  BY <1>7, <1>9, ViewIs, ViewDomain
<1>11. View[l] # None
  BY <1>3, CatalogAssumption DEF Shown, File
<1>12. Effect(c)
  BY <1>1, <1>7, <1>10, <1>11 DEF Effect, Atomic!Delete, Atomic!Known, Atomic!Set
<1>13. cl'[c] = NextItem(me, 1) /\ \A d \in Client : d # c => cl'[d] = cl[d]
  BY <1>4, GoIs
<1>14. cl'[c].pc = "item"
  BY <1>13, RestFacts
<1>15. \A d \in Client : (WalkOK(d) /\ HandOK(d))'
  <2>1. (WalkOK(c) /\ HandOK(c))'
    BY <1>14 DEF WalkOK, HandOK, Found, Phase
  <2> QED
    BY <1>1, <1>13, <2>1, OthersRest
<1>16. TidyFiles'
  BY <1>4, <1>6 DEF Alone, TidyFiles, CategoryOf
<1>17. \A q \in Path : at'[q] # None => file'[at'[q]].state = "whole"
  BY <1>1, <1>4, <1>6, WholeAlone
<1>18. Alone'
  BY <1>1, <1>13, <1>15, <1>16, <1>17, OthersRest DEF Alone
<1> QED
  BY <1>12, <1>18 DEF AloneStep

LEMMA DropFolderAlone ==
  ASSUME CatalogTypeOK, Alone, NEW c \in Client, DropFolder(c)
  PROVE  AloneStep(c)
<1> DEFINE me == cl[c]
           cat == Item(c).cat
<1>1. /\ me.pc = "folder" /\ me.req.type = "dropFolder" /\ Busy(c) /\ InItem(me)
      /\ ClientOK(me)
  BY DEF DropFolder, At, Busy, InItem, CatalogTypeOK
<1>2. CASE cat = Unc \/ cat \notin dirs
  <2>1. Go(c, Refuse(me)) /\ UNCHANGED files
    BY <1>2 DEF DropFolder
  <2> QED
    BY <1>1, <2>1, RestFacts, AloneRests DEF files
<1>3. CASE ~ (cat = Unc \/ cat \notin dirs)
  <2>1. /\ dirs' = dirs \ {cat}
        /\ at' = [p \in Path |-> IF p[1] = cat THEN None ELSE at[p]]
        /\ Go(c, NextItem(cl[c], 1)) /\ UNCHANGED file
    BY <1>3 DEF DropFolder
  <2>2. cat \in Category /\ cat # Unc
    BY <1>1, <1>3, ItemFacts
  <2>3. \A q \in Path : at'[q] = IF q[1] = cat THEN None ELSE at[q]
    BY <2>1
  <2>4. \A q \in Path : CategoryOf(q[1]) = cat <=> q[1] = cat
    BY <2>2 DEF CategoryOf, Category
  <2> HIDE DEF cat
  <2>5. ASSUME NEW m \in Category \X Id
        PROVE  View'[m] = IF m[1] = cat THEN None ELSE View[m]
    <3>1. CASE m[1] = cat
      <4>1. Holding(at', file', m) = {}
        BY <2>3, <2>4, <3>1 DEF Holding
      <4> QED
        BY <3>1, <4>1, NotShown, ViewIs
    <3>2. CASE m[1] # cat
      <4>1. \A q \in Holding(at, file, m) : q[1] # cat
        BY <2>4, <3>2 DEF Holding
      <4>2. Holding(at', file', m) = Holding(at, file, m)
        BY <2>1, <2>3, <4>1 DEF Holding
      <4>3. \A q \in Holding(at, file, m) : Shown(file[at[q]]) = Shown(file'[at'[q]])
        BY <2>1, <2>3, <4>1 DEF Holding
      <4> QED
        BY <3>2, <4>2, <4>3, SameShown, ViewIs
    <3> QED
      BY <3>1, <3>2
  <2>6. DOMAIN View = Category \X Id /\ DOMAIN View' = Category \X Id
    BY DEF View
  <2>7. View' = [m \in DOMAIN View |-> IF m[1] = cat THEN None ELSE View[m]]
    BY <2>5, <2>6, ViewIs, ViewDomain
  <2>8. Effect(c)
    BY <1>1, <2>7 DEF Effect, Atomic!Drop, cat
  <2>9. cl'[c] = NextItem(me, 1) /\ \A d \in Client : d # c => cl'[d] = cl[d]
    BY <2>1, GoIs
  <2>10. cl'[c].pc = "item"
    BY <2>9, RestFacts
  <2>11. \A d \in Client : (WalkOK(d) /\ HandOK(d))'
    <3>1. (WalkOK(c) /\ HandOK(c))'
      BY <2>10 DEF WalkOK, HandOK, Found, Phase
    <3> QED
      BY <1>1, <2>9, <3>1, OthersRest
  <2>12. TidyFiles'
    BY <2>1, <2>2, <2>3 DEF Alone, TidyFiles, CategoryOf, Category
  <2>13. \A q \in Path : at'[q] # None => file'[at'[q]].state = "whole"
    BY <1>1, <2>1, <2>3, WholeAlone
  <2>14. Alone'
    BY <1>1, <2>9, <2>11, <2>12, <2>13, OthersRest DEF Alone
  <2> QED
    BY <2>8, <2>14 DEF AloneStep
<1> QED
  BY <1>2, <1>3

LEMMA MoveRenameAlone ==
  ASSUME CatalogTypeOK, Alone, NEW c \in Client, MoveRename(c)
  PROVE  AloneStep(c)
<1> DEFINE me == cl[c]
           from == me.path
           to == <<me.req.target, me.tc.id>>
           l == <<Item(c).cat, Item(c).id>>
<1>1. me.pc = "rename" /\ Busy(c) /\ InItem(me) /\ ClientOK(me) /\ Phase(me) = "rename" /\ HandOK(c)
  BY DEF MoveRename, Busy, InItem, CatalogTypeOK, Phase, Alone
<1>2. CASE Go(c, NextItem(me, 0)) /\ UNCHANGED <<at, file, dirs>>
  BY <1>1, <1>2, RestFacts, AloneRests
<1>3. CASE /\ at' = [at EXCEPT ![from] = None, ![to] = at[from]] /\ to[1] \in dirs
           /\ Go(c, NextItem(me, 1)) /\ UNCHANGED <<file, dirs>>
  <2>1. /\ me.tc.id = Item(c).id /\ me.req.type = "move" /\ Item(c).id \in Id
        /\ me.req.target \in Dir /\ me.req.target \notin {Root, Unc}
        /\ from \in Path /\ CategoryOf(from[1]) = Item(c).cat /\ Item(c).cat \in Category
    BY <1>1, ItemFacts DEF InHand, PhaseOf
  <2>2. at[from] # None /\ from[2] = me.tc.id /\ from # to
    BY <1>1 DEF HandOK
  <2>3. /\ to \in Path /\ to[1] = me.req.target /\ to[2] = me.tc.id
        /\ CategoryOf(to[1]) = me.req.target /\ me.req.target \in Category
    BY <2>1, CatalogAssumption DEF Path, CategoryOf, Category
  <2>4. file[at[from]].id = Item(c).id /\ file[at[from]] \in File
    BY <2>1, <2>2 DEF Alone, TidyFiles, CatalogTypeOK, FilesOK
  <2>5. at \in [Path -> Inode \cup {None}]
    BY DEF CatalogTypeOK, FilesOK
  <2> DEFINE n == <<me.req.target, Item(c).id>>
  <2>6. \A q \in Path : at'[q] = IF q = to THEN at[from] ELSE IF q = from THEN None ELSE at[q]
    BY <1>3, <2>1, <2>3, <2>5
  <2>7. Item(c).cat # me.req.target
    BY <2>1, <2>2, <2>3 DEF Path, CategoryOf
  <2>8. l \in Category \X Id /\ n \in Category \X Id /\ l # n
    BY <2>1, <2>3, <2>7
  <2>9. /\ \A q \in Path : (at[q] # None => file[at[q]].id = q[2])
        /\ \A q \in Path : at[q] # None /\ q[2] = Item(c).id /\ CategoryOf(q[1]) = Item(c).cat => q = from
        /\ \A q \in Path : q[2] = Item(c).id /\ CategoryOf(q[1]) = me.req.target => q = to
    <3>1. ASSUME NEW q \in Path, q[2] = Item(c).id, CategoryOf(q[1]) = me.req.target
          PROVE  q = to
      <4>1. q[1] = me.req.target
        BY <2>1, <3>1 DEF CategoryOf
      <4> QED
        BY <2>1, <3>1, <4>1 DEF Path
    <3> QED
      BY <2>1, <2>2, <3>1 DEF Alone, TidyFiles
  <2>10. from \in Holding(at, file, l)
    BY <2>1, <2>2, <2>4 DEF Holding
  <2>11. View[l] = Shown(file[at[from]])
    BY <2>8, <2>10, HeldIsShown DEF Alone
  <2>12. file' = file
    BY <1>3
  <2> HIDE DEF from, to
  <2>13. ASSUME NEW m \in Category \X Id
         PROVE  View'[m] = IF m = n THEN View[l] ELSE IF m = l THEN None ELSE View[m]
    <3>1. CASE m = n
      <4>1. to \in Holding(at', file', n)
        BY <2>2, <2>3, <2>4, <2>6, <2>12 DEF Holding
      <4>2. \A q \in Holding(at', file', n) : q = to
        <5>1. ASSUME NEW q \in Path, at'[q] # None, CategoryOf(q[1]) = n[1],
                     file[at'[q]].id = n[2], q # to
              PROVE  FALSE
          <6>1. at'[q] = at[q]
            BY <2>6, <5>1
          <6> QED
            BY <2>9, <5>1, <6>1
        <5> QED
          BY <2>12, <5>1 DEF Holding
      <4>3. ViewOf(at', file')[n] = Shown(file'[at'[to]])
        BY <2>8, <4>1, <4>2, ShownAt
      <4> QED
        BY <2>3, <2>6, <2>11, <2>12, <3>1, <4>3, ViewIs
    <3>2. CASE m = l
      <4>1. ASSUME NEW q \in Holding(at', file', l) PROVE FALSE
        <5>1. q \in Path /\ at'[q] # None /\ CategoryOf(q[1]) = Item(c).cat /\ file[at'[q]].id = Item(c).id
          BY <2>12 DEF Holding
        <5>2. q # to
          BY <2>3, <2>7, <5>1
        <5>3. at'[q] = at[q] /\ q # from
          BY <2>6, <5>1, <5>2
        <5> QED
          BY <2>9, <5>1, <5>3
      <4> QED
        BY <2>8, <3>2, <4>1, NotShown, ViewIs
    <3>3. CASE m # n /\ m # l
      <4>1. from \notin Holding(at, file, m) /\ to \notin Holding(at, file, m)
        BY <2>1, <2>3, <2>4, <2>9, <3>3 DEF Holding
      <4>2. to \notin Holding(at', file', m) /\ from \notin Holding(at', file', m)
        BY <2>1, <2>2, <2>3, <2>4, <2>6, <2>12, <3>3 DEF Holding
      <4>3. Holding(at', file', m) = Holding(at, file, m)
        BY <2>6, <2>12, <4>1, <4>2 DEF Holding
      <4>4. \A q \in Holding(at, file, m) : Shown(file[at[q]]) = Shown(file'[at'[q]])
        BY <2>6, <2>12, <4>1 DEF Holding
      <4> QED
        BY <3>3, <4>3, <4>4, SameShown, ViewIs
    <3> QED
      BY <3>1, <3>2, <3>3
  <2>14. View' = [View EXCEPT ![l] = None, ![n] = View[l]]
    BY <2>8, <2>13, ViewIs, ViewDomain
  <2>15. View[l] # None
    BY <2>4, <2>11, CatalogAssumption DEF Shown, File
  <2>16. Effect(c)
    BY <2>1, <2>14, <2>15 DEF Effect, Atomic!Move, Atomic!Known
  <2>17. cl'[c] = NextItem(me, 1) /\ \A d \in Client : d # c => cl'[d] = cl[d]
    BY <1>3, GoIs
  <2>18. cl'[c].pc = "item"
    BY <2>17, RestFacts
  <2>19. \A d \in Client : (WalkOK(d) /\ HandOK(d))'
    <3>1. (WalkOK(c) /\ HandOK(c))'
      BY <2>18 DEF WalkOK, HandOK, Found, Phase
    <3> QED
      BY <1>1, <2>17, <3>1, OthersRest
  <2>20. \A q \in Path : at'[q] # None => file'[at'[q]].state = "whole"
    BY <1>1, <2>1, <2>3, <2>6, <2>12, WholeAlone
  <2>21. TidyFiles'
    <3>1. dirs' = dirs /\ to[1] \in dirs /\ TidyFiles
      BY <1>3 DEF Alone
    <3>2. \A q \in Path : at'[q] # None => q[1] \in dirs' /\ file'[at'[q]].id = q[2]
      BY <2>1, <2>3, <2>4, <2>6, <2>9, <2>12, <3>1 DEF TidyFiles
    <3>3. ASSUME NEW p \in Path, NEW q \in Path, at'[p] # None, at'[q] # None,
                 at'[p] = at'[q] \/ (p[2] = q[2] /\ CategoryOf(p[1]) = CategoryOf(q[1]))
          PROVE  p = q
      <4>1. CASE p # to /\ q # to
        <5>1. at'[p] = at[p] /\ at'[q] = at[q]
          BY <2>6, <3>3, <4>1
        <5> QED
          BY <3>1, <3>3, <5>1 DEF TidyFiles
      <4>2. ASSUME NEW e \in Path, e # to, at'[e] # None
            PROVE  /\ at'[e] # at'[to]
                   /\ ~ (e[2] = to[2] /\ CategoryOf(e[1]) = CategoryOf(to[1]))
        <5>1. at'[e] = at[e] /\ e # from /\ at'[to] = at[from]
          BY <2>3, <2>6, <4>2
        <5> QED
          BY <2>1, <2>2, <2>3, <2>9, <3>1, <4>2, <5>1 DEF TidyFiles
      <4> QED
        BY <3>3, <4>1, <4>2
    <3> QED
      BY <3>1, <3>2, <3>3 DEF TidyFiles, CategoryOf
  <2>22. Alone'
    BY <1>1, <2>17, <2>19, <2>20, <2>21, OthersRest DEF Alone
  <2> QED
    BY <2>16, <2>22 DEF AloneStep
<1> QED
  BY <1>2, <1>3 DEF MoveRename

LEMMA OpenFileAlone ==
  ASSUME CatalogTypeOK, MadeOnce, Alone, NEW c \in Client, OpenFile(c)
  PROVE  AloneStep(c)
<1> DEFINE me == cl[c]
           tc == me.tc
           l == <<Item(c).cat, tc.id>>
           f == [id |-> tc.id, text |-> tc.text, order |-> tc.order, state |-> "empty"]
           i(p) == IF at[p] = None THEN <<c, me.k>> ELSE at[p]
<1>1. /\ me.pc = "place" /\ Busy(c) /\ Found(me) /\ InItem(me) /\ ClientOK(me)
      /\ Phase(me) = "place" /\ HandOK(c)
  BY DEF OpenFile, Busy, Found, InItem, CatalogTypeOK, Phase, Alone
<1>2. /\ me \in ClientType /\ me.req.type \in Saving /\ tc \in Case /\ Item(c).cat \in Category
      /\ Item(c).id \in Id /\ me.k \in Nat \ {0}
      /\ tc.id = Item(c).id \/ me.req.type = "duplicate"
  BY <1>1, ItemFacts DEF InHand, PhaseOf
<1>3. PICK p \in Place(c) :
          IF p[1] \notin dirs
          THEN Go(c, SaveFailed(c)) /\ UNCHANGED files
          ELSE /\ at' = [at EXCEPT ![p] = i(p)]
               /\ file' = [j \in DOMAIN file \cup {i(p)} |-> IF j = i(p) THEN f ELSE file[j]]
               /\ Go(c, [me EXCEPT !.pc = "write", !.fd = i(p)])
               /\ UNCHANGED <<dirs, trash>>
  BY DEF OpenFile
<1>4. CASE p[1] \notin dirs
  <2>1. UNCHANGED <<at, file, dirs>>
    BY <1>3, <1>4 DEF files
  <2>2. Go(c, NextItem(me, 1)) \/ Go(c, Refuse(me))
    BY <1>3, <1>4 DEF SaveFailed
  <2> QED
    BY <1>1, <2>1, <2>2, RestFacts, AloneRests
<1>5. CASE p[1] \in dirs
  <2> DEFINE s == [me EXCEPT !.pc = "write", !.fd = i(p)]
  <2>1. /\ at' = [at EXCEPT ![p] = i(p)]
        /\ file' = [j \in DOMAIN file \cup {i(p)} |-> IF j = i(p) THEN f ELSE file[j]]
        /\ Go(c, s) /\ dirs' = dirs
    BY <1>3, <1>5
  <2>2. /\ at \in [Path -> Inode \cup {None}] /\ None \notin Inode
        /\ \A q \in Path : at[q] # None => at[q] \in DOMAIN file
    BY CatalogAssumption DEF CatalogTypeOK, FilesOK
  <2>3. p \in Path /\ p[2] = tc.id /\ CategoryOf(p[1]) = Item(c).cat /\ tc.id \in Id
    <3>1. tc.id \in Id /\ CategoryOf(Item(c).cat) = Item(c).cat
      BY <1>2, OwnCategory DEF Case
    <3>2. CASE p \in Matches(c)
      BY <1>1, <3>1, <3>2, MatchAlone
    <3>3. CASE p = <<Item(c).cat, tc.id>>
      BY <1>1, <3>1, <3>3, PlaceFacts
    <3> QED
      BY <3>2, <3>3 DEF Place
  <2>4. \A q \in Path : at[q] # None /\ q[2] = tc.id /\ CategoryOf(q[1]) = Item(c).cat => q = p
    <3>1. CASE Matches(c) # {}
      <4>1. at[p] # None
        BY <1>1, <3>1, MatchAlone DEF Place
      <4> QED
        BY <2>3, <4>1 DEF Alone, TidyFiles
    <3>2. CASE Matches(c) = {}
      <4>1. \A q \in DOMAIN me.seen : ~ (me.seen[q].id = tc.id /\ CategoryOf(q[1]) = Item(c).cat)
        BY <3>2 DEF Matches
      <4>2. Holding(at, file, l) = {}
        BY <1>1, <1>2, <2>3, <4>1, NoMatchAlone
      <4>3. ASSUME NEW q \in Path, at[q] # None, q[2] = tc.id, CategoryOf(q[1]) = Item(c).cat
            PROVE  q \in Holding(at, file, l)
        BY <4>3 DEF Holding, Alone, TidyFiles
      <4> QED
        BY <4>2, <4>3
    <3> QED
      BY <3>1, <3>2
  <2>5. i(p) \in Inode /\ \A q \in Path : at[q] # None /\ at[q] = i(p) => q = p
    <3>1. CASE at[p] = None
      <4>1. <<c, me.k>> \notin DOMAIN file /\ <<c, me.k>> \in Inode
        BY <1>1, <1>2, NewInode DEF Inode
      <4> QED
        BY <2>2, <3>1, <4>1
    <3>2. CASE at[p] # None
      BY <2>2, <2>3, <3>2 DEF Alone, TidyFiles
    <3> QED
      BY <3>1, <3>2
  <2>6. s.pc = "write" /\ s.fd = i(p) /\ s.tc = tc
    BY <1>2 DEF ClientType
  <2> HIDE DEF i
  <2>7. \A q \in Path : at'[q] = IF q = p THEN i(p) ELSE at[q]
    BY <2>1, <2>2, <2>3
  <2>8. file'[i(p)] = f /\ \A j \in DOMAIN file : j # i(p) => file'[j] = file[j]
    BY <2>1
  <2>9. \A q \in Path : q # p /\ at[q] # None => at'[q] = at[q] /\ file'[at'[q]] = file[at[q]]
    BY <2>2, <2>5, <2>7, <2>8
  <2>10. at'[p] # None /\ file'[at'[p]] = f
    BY <2>2, <2>3, <2>5, <2>7, <2>8
  <2>11. f.id = tc.id /\ Shown(f) = [text |-> tc.text, order |-> tc.order]
    BY DEF Shown
  <2>12. l \in Category \X Id
    BY <1>2, <2>3
  <2> HIDE DEF f
  <2>13. ASSUME NEW m \in Category \X Id
         PROVE  View'[m] = IF m = l THEN Shown(f) ELSE View[m]
    <3>1. CASE m = l
      <4>1. p \in Holding(at', file', l)
        BY <2>3, <2>10, <2>11 DEF Holding
      <4>2. ASSUME NEW q \in Holding(at', file', l) PROVE q = p
        <5>1. SUFFICES ASSUME q # p PROVE FALSE
          OBVIOUS
        <5>2. q \in Path /\ at'[q] # None /\ CategoryOf(q[1]) = Item(c).cat /\ file'[at'[q]].id = tc.id
          BY DEF Holding
        <5>3. at[q] # None /\ file[at[q]].id = tc.id
          BY <2>7, <2>9, <5>1, <5>2
        <5>4. q[2] = tc.id
          BY <5>2, <5>3 DEF Alone, TidyFiles
        <5> QED
          BY <2>4, <5>1, <5>2, <5>3, <5>4
      <4>3. ViewOf(at', file')[l] = Shown(file'[at'[p]])
        BY <2>12, <4>1, <4>2, ShownAt
      <4> QED
        BY <2>10, <3>1, <4>3, ViewIs
    <3>2. CASE m # l
      <4>1. p \notin Holding(at, file, m)
        BY <2>3, <3>2 DEF Holding, Alone, TidyFiles
      <4>2. p \notin Holding(at', file', m)
        BY <2>3, <2>10, <2>11, <3>2 DEF Holding
      <4>3. Holding(at', file', m) = Holding(at, file, m)
        BY <2>7, <2>9, <4>1, <4>2 DEF Holding
      <4>4. \A q \in Holding(at, file, m) : Shown(file[at[q]]) = Shown(file'[at'[q]])
        BY <2>9, <4>1 DEF Holding
      <4> QED
        BY <3>2, <4>3, <4>4, SameShown, ViewIs
    <3> QED
      BY <3>1, <3>2
  <2>14. View' = [View EXCEPT ![l] = [text |-> tc.text, order |-> tc.order]]
    BY <2>11, <2>12, <2>13, ViewIs, ViewDomain
  <2>15. Effect(c)
    <3> DEFINE shown == View[<<Item(c).cat, Item(c).id>>]
    <3>1. CASE me.req.type = "save"
      <4>1. tc.id = Item(c).id /\ tc.text \in Client /\ tc.order = 0
        BY <1>1, <1>2, <3>1 DEF HandOK
      <4> QED
        BY <2>14, <3>1, <4>1 DEF Effect, Atomic!Save, Atomic!Set
    <3>2. CASE me.req.type = "reorder"
      <4>1. /\ tc.id = Item(c).id /\ tc.order = me.k - 1
            /\ shown # None /\ shown = [text |-> tc.text, order |-> shown.order]
        BY <1>1, <1>2, <3>2 DEF HandOK
      <4>2. [shown EXCEPT !.order = me.k - 1] = [text |-> tc.text, order |-> tc.order]
        BY <4>1
      <4> QED
        BY <2>14, <3>2, <4>1, <4>2 DEF Effect, Atomic!Reorder, Atomic!Known, Atomic!Set
    <3>3. CASE me.req.type = "duplicate"
      <4>1. /\ shown = [text |-> tc.text, order |-> tc.order]
            /\ tc.id \in Range(Copies[Item(c).id]) /\ View[l] = None
        BY <1>1, <3>3 DEF HandOK
      <4>2. shown # None
        BY <1>2, <4>1, CatalogAssumption DEF Case
      <4>3. tc.id \in CopySets[Item(c).id]
        BY <1>2, <4>1 DEF CopySets
      <4> QED
        BY <2>14, <3>3, <4>1, <4>2, <4>3 DEF Effect, Atomic!Copy, Atomic!Known, Atomic!Set
    <3> QED
      BY <1>2, <3>1, <3>2, <3>3 DEF Saving
  <2> HIDE DEF s
  <2>16. cl'[c] = s /\ \A d \in Client : d # c => cl'[d] = cl[d]
    BY <2>1, GoIs
  <2>17. \A d \in Client : (WalkOK(d) /\ HandOK(d))'
    <3>1. WalkOK(c)'
      BY <2>6, <2>16 DEF WalkOK, Found
    <3>2. HandOK(c)'
      BY <2>6, <2>8, <2>16 DEF HandOK, Phase, f
    <3> QED
      BY <1>1, <2>16, <3>1, <3>2, OthersRest
  <2>18. \A q \in Path : at'[q] # None =>
            \/ file'[at'[q]].state = "whole"
            \/ \E d \in Client : cl'[d].pc = "write" /\ cl'[d].fd = at'[q]
    <3>1. \A q \in Path : at[q] # None => file[at[q]].state = "whole"
      BY <1>1, WholeAlone
    <3>2. ASSUME NEW q \in Path, at'[q] # None, q # p PROVE file'[at'[q]].state = "whole"
      BY <2>7, <2>9, <3>1, <3>2
    <3>3. cl'[c].pc = "write" /\ cl'[c].fd = at'[p]
      BY <2>3, <2>6, <2>7, <2>16
    <3> QED
      BY <3>2, <3>3
  <2>19. TidyFiles'
    <3>1. ASSUME NEW q \in Path, at'[q] # None
          PROVE  q[1] \in dirs' /\ file'[at'[q]].id = q[2]
      <4>1. CASE q = p
        BY <1>5, <2>1, <2>3, <2>10, <2>11, <4>1
      <4>2. CASE q # p
        <5>1. at[q] # None /\ file'[at'[q]] = file[at[q]]
          BY <2>7, <2>9, <3>1, <4>2
        <5> QED
          BY <2>1, <5>1 DEF Alone, TidyFiles
      <4> QED
        BY <4>1, <4>2
    <3>2. ASSUME NEW q \in Path, NEW r \in Path, at'[q] # None, at'[r] # None,
                 at'[q] = at'[r] \/ (q[2] = r[2] /\ CategoryOf(q[1]) = CategoryOf(r[1]))
          PROVE  q = r
      <4>1. CASE q # p /\ r # p
        BY <2>7, <3>2, <4>1 DEF Alone, TidyFiles
      <4>2. ASSUME NEW e \in Path, e # p, at'[e] # None
            PROVE  at'[e] # at'[p] /\ ~ (e[2] = p[2] /\ CategoryOf(e[1]) = CategoryOf(p[1]))
        BY <2>3, <2>4, <2>5, <2>7, <4>2
      <4> QED
        BY <3>2, <4>1, <4>2
    <3> QED
      BY <2>1, <3>1, <3>2 DEF Alone, TidyFiles, CategoryOf
  <2>20. Alone'
    <3>1. \A d, e \in Client : Busy(d)' /\ Busy(e)' => d = e
      BY <1>1, <2>16, OthersRest
    <3> QED
      BY <2>17, <2>18, <2>19, <3>1 DEF Alone, Writing
  <2> QED
    BY <2>15, <2>20 DEF AloneStep
<1> QED
  BY <1>4, <1>5

LEMMA WriteAlone ==
  ASSUME CatalogTypeOK, Alone, NEW c \in Client, Write(c)
  PROVE  AloneStep(c)
<1> DEFINE me == cl[c]
           i == me.fd
           f == [id |-> me.tc.id, text |-> me.tc.text, order |-> me.tc.order, state |-> "whole"]
<1>1. /\ me.pc = "write" /\ Busy(c) /\ me \in ClientType /\ HandOK(c) /\ i \in DOMAIN file
  BY DEF Write, Busy, CatalogTypeOK, ClientOK, Alone
<1>2. file[i] = [id |-> me.tc.id, text |-> me.tc.text, order |-> me.tc.order, state |-> "empty"]
  BY <1>1 DEF HandOK
<1>3. file' = [file EXCEPT ![i] = f] /\ UNCHANGED <<dirs, at>>
  BY <1>2 DEF Write
<1>4. DOMAIN file' = DOMAIN file /\ \A j \in DOMAIN file : file'[j] = IF j = i THEN f ELSE file[j]
  BY <1>1, <1>3 DEF CatalogTypeOK, FilesOK
<1>5. \A j \in DOMAIN file : file'[j].id = file[j].id /\ Shown(file'[j]) = Shown(file[j])
  BY <1>1, <1>2, <1>4 DEF Shown
<1>6. \A p \in Path : at[p] # None => at[p] \in DOMAIN file
  BY DEF CatalogTypeOK, FilesOK
<1>7. View' = View
  BY <1>3, <1>5, <1>6, ViewKept
<1>8. \E s : Go(c, s)
  BY DEF Write
<1>9. \A d \in Client : d # c => cl'[d] = cl[d]
  BY <1>8, GoIs
<1>10. (WalkOK(c) /\ HandOK(c))'
  <2>1. CASE me.req.type = "duplicate"
    <3>1. cl'[c] = WalkFor(me, "check")
      BY <2>1, GoIs DEF Write
    <3>2. Root \in dirs'
      BY <1>3 DEF Alone, TidyFiles
    <3>3. WalkOK(c)' /\ cl'[c].pc = "walk" /\ Phase(cl'[c]) = "check"
      BY <1>1, <3>1, <3>2, WalkStarts
    <3> QED
      BY <3>3, HandFree
  <2>2. CASE me.req.type # "duplicate"
    <3>1. cl'[c] = NextItem(me, 1)
      BY <2>2, GoIs DEF Write
    <3>2. cl'[c].pc = "item"
      BY <3>1, RestFacts
    <3> QED
      BY <3>2 DEF WalkOK, HandOK, Found, Phase
  <2> QED
    BY <2>1, <2>2
<1>11. \A d \in Client : (WalkOK(d) /\ HandOK(d))'
  BY <1>1, <1>9, <1>10, OthersRest
<1>12. TidyFiles'
  BY <1>3, <1>5, <1>6 DEF Alone, TidyFiles, CategoryOf
<1>13. \A p \in Path : at'[p] # None => file'[at'[p]].state = "whole"
  <2>1. \A p \in Path : at[p] # None /\ at[p] # i => file[at[p]].state = "whole"
    BY <1>1 DEF Alone, Writing, Busy
  <2> QED
    BY <1>3, <1>4, <1>6, <2>1
<1>14. Alone'
  BY <1>1, <1>9, <1>11, <1>12, <1>13, OthersRest DEF Alone
<1> QED
  BY <1>7, <1>14 DEF AloneStep

-----------------------------------------------------------------------------
(***************************************************************************)
(* One request at a time is atomic                                         *)
(***************************************************************************)

LEMMA AloneInit == Tidy /\ Init => AloneInv
<1> SUFFICES ASSUME Tidy, Init PROVE Alone
  BY DEF AloneInv
<1>1. \A p \in Path : p # None /\ at[p] = IF Initial[p] = None THEN None ELSE p
  BY CatalogAssumption DEF Init, Inode
<1>2. \A p \in Path : Initial[p] # None =>
         file[p] = [id |-> Initial[p], text |-> p, order |-> 0, state |-> "whole"]
  BY DEF Init
<1>3. TidyFiles
  <2>1. \A p \in Path : at[p] # None => p[1] \in dirs /\ file[at[p]].id = p[2]
    BY <1>1, <1>2 DEF Tidy, Init
  <2>2. ASSUME NEW p \in Path, NEW q \in Path, at[p] # None, at[q] # None,
               at[p] = at[q] \/ (p[2] = q[2] /\ CategoryOf(p[1]) = CategoryOf(q[1]))
        PROVE  p = q
    BY <1>1, <2>2 DEF Tidy
  <2> QED
    BY <2>1, <2>2 DEF TidyFiles, Init
<1>4. \A c \in Client : cl[c].pc = "idle"
  BY IdleFacts DEF Init
<1>5. \A c \in Client : WalkOK(c) /\ HandOK(c)
  BY <1>4, AtRest
<1>6. ASSUME NEW p \in Path, at[p] # None PROVE file[at[p]].state = "whole"
  <2>1. at[p] = p /\ Initial[p] # None
    BY <1>1, <1>6
  <2>2. file[p] = [id |-> Initial[p], text |-> p, order |-> 0, state |-> "whole"]
    BY <1>2, <2>1
  <2> QED
    BY <2>1, <2>2
<1> QED
  BY <1>3, <1>4, <1>5, <1>6 DEF Alone, Busy

LEMMA AloneSteps ==
  ASSUME CatalogTypeOK, MadeOnce, Alone, ~ overlapped', NEW c \in Client, Step(c)
  PROVE  AloneStep(c)
BY StartAlone, BeginItemAlone, ReadDirAlone, LoadAlone, WalkEndAlone, NotFoundAlone,
   DeleteAlone, MoveMkdirAlone, MoveRenameAlone, MkdirAlone, OpenFileAlone, WriteAlone,
   ReorderAlone, DuplicateFoundAlone, DuplicateNamedAlone, DropFolderAlone, CreateFolderAlone
   DEF Step

\* Only a start may make requests overlap, and all other steps are those of a request
\* in progress.
LEMMA WorkingStep ==
  ASSUME NEW c \in Client, Step(c), \A req \in Requests : ~ Start(c, req)
  PROVE  Busy(c) /\ overlapped' = overlapped
<1>1. CASE BeginItem(c) \/ ReadDir(c) \/ Load(c) \/ WalkEnd(c) \/ NotFound(c)
  BY <1>1 DEF Busy, BeginItem, ReadDir, Load, WalkEnd, NotFound, At
<1>2. CASE Delete(c) \/ MoveRefused(c) \/ MoveMkdir(c) \/ MoveRename(c) \/ Mkdir(c)
  BY <1>2 DEF Busy, Delete, MoveRefused, MoveMkdir, MoveRename, Mkdir, At
<1>3. CASE OpenFile(c) \/ Write(c) \/ Reorder(c) \/ DuplicateFound(c)
  BY <1>3 DEF Busy, OpenFile, Write, Reorder, DuplicateFound, At
<1>4. CASE DuplicateNamed(c) \/ DuplicateChecked(c) \/ DropFolder(c) \/ CreateFolder(c)
           \/ WriteGitkeep(c)
  BY <1>4 DEF Busy, DuplicateNamed, DuplicateChecked, DropFolder, CreateFolder, WriteGitkeep, At
<1> QED
  BY <1>1, <1>2, <1>3, <1>4 DEF Step

\* Once two requests overlapped, they did.
LEMMA OverlapStays ==
  ASSUME NEW c \in Client, Step(c), overlapped
  PROVE  overlapped'
BY WorkingStep DEF Start

LEMMA AloneNext == CatalogTypeOK /\ MadeOnce /\ AloneInv /\ [Next]_vars => AloneInv'
<1> SUFFICES ASSUME CatalogTypeOK, MadeOnce, AloneInv, [Next]_vars, ~ overlapped'
             PROVE  Alone'
  BY DEF AloneInv
<1>1. CASE UNCHANGED vars
  <2>1. View' = View /\ \A c \in Client : Item(c)' = Item(c)
    BY <1>1, ViewSame DEF vars, Item
  <2>2. Alone
    BY <1>1 DEF AloneInv, vars
  <2>3. TidyFiles' /\ \A c, d \in Client : Busy(c)' /\ Busy(d)' => c = d
    BY <1>1, <2>2 DEF vars, Alone, TidyFiles, Busy, CategoryOf
  <2>4. \A c \in Client : (WalkOK(c) /\ HandOK(c))'
    BY <1>1, <2>1, <2>2 DEF vars, Alone, WalkOK, HandOK
  <2> QED
    BY <1>1, <2>2, <2>3, <2>4 DEF vars, Alone, Writing
<1>2. ASSUME NEW c \in Client, Step(c) PROVE Alone'
  <2>1. Alone
    BY <1>2, OverlapStays DEF AloneInv
  <2> QED
    BY <1>2, <2>1, AloneSteps DEF AloneStep
<1> QED
  BY <1>1, <1>2 DEF Next

\* In a tidy catalog, requests that come one after another implement AtomicCatalog:
\* however many calls a request makes, what the user sees changes at one of them for
\* each item, by the effect of the operation on it (catalog.go:86-330).
THEOREM RequestsAreAtomic == Tidy => (Spec => AtomicWhileAlone)
<1>1. ASSUME CatalogTypeOK, MadeOnce, AloneInv, [Next]_vars
      PROVE  [(~overlapped /\ View' # View) => \E c \in Client : Busy(c) /\ Effect(c)]_vars
  <2> SUFFICES ASSUME ~ overlapped, View' # View
               PROVE  \E c \in Client : Busy(c) /\ Effect(c)
    OBVIOUS
  <2>1. ~ UNCHANGED vars
    BY ViewSame DEF vars
  <2>2. PICK c \in Client : Step(c)
    BY <1>1, <2>1 DEF Next
  <2>3. \A req \in Requests : ~ Start(c, req)
    BY ViewSame DEF Start, files
  <2>4. Busy(c) /\ ~ overlapped'
    BY <2>2, <2>3, WorkingStep
  <2>5. AloneStep(c)
    BY <1>1, <2>2, <2>4, AloneSteps DEF AloneInv
  <2> QED
    BY <2>4, <2>5 DEF AloneStep
<1>2. CatalogTypeOK /\ MadeOnce /\ AloneInv /\ [Next]_vars =>
         (CatalogTypeOK /\ MadeOnce /\ AloneInv)'
  BY TypeNext, MadeNext, AloneNext
<1>3. Tidy /\ Init => CatalogTypeOK /\ MadeOnce /\ AloneInv
  BY TypeInit, MadeInit, AloneInit
<1> QED
  BY <1>1, <1>2, <1>3, PTL DEF Spec, AtomicWhileAlone
=============================================================================
