------------------------------ MODULE TibxPages ------------------------------
(***************************************************************************)
(* The pages of a split .tibx archive and the walk of a tree over them:    *)
(* TibxReader of tibread/tibx/reader.py, MultiSliceTibxReader and          *)
(* _ConcatSlices of tibread/tibx/multislice.py, walk_lsm_tree of           *)
(* tibread/tibx/lsm.py.                                                    *)
(*                                                                         *)
(* The pages of all slices are numbered through, and a tree refers to its  *)
(* pages by these global numbers.  A slice holds a window of them, and the *)
(* number of its first page is in a header near its end.  Slices may have  *)
(* been pruned, and headers may be unreadable: then the place of a slice   *)
(* is guessed.  A page is its global number here, so that a reader that    *)
(* gets another page than it asked for is seen.                            *)
(***************************************************************************)
EXTENDS Integers, FiniteSetsExt, SequencesExt

CONSTANTS Archives,   \* records [slices, page, root, limit], see below
          NoPage,     \* a read that raises
          MaxDepth    \* recursion limit of the interpreter

(* slices  records [start, pages], in order                                  *)
(* page    the global numbers in the trees |-> records [type, kids]; a       *)
(*         type is "ldir", "leaf", "other", "bad" for no page at all, or     *)
(*         "sealed" for a page of a tree that does not decode                *)
(* root    global number of the root                                         *)
(* limit   max_pages of the walk                                             *)

(* Slices have pages, and each begins where the one before it ends.          *)
ASSUME SlicesAssumption ==
    \A a \in Archives :
        /\ a.slices \in Seq([start : Nat, pages : Nat \ {0}])
        /\ \A s \in 1..(Len(a.slices) - 1) :
              a.slices[s + 1].start = a.slices[s].start + a.slices[s].pages

(* Trees refer to the pages of an archive, and no number of a page is taken  *)
(* for a failed read.                                                        *)
ASSUME TreesAssumption ==
    /\ MaxDepth \in Nat /\ NoPage \notin Nat
    /\ \A a \in Archives :
          /\ a.limit \in Nat
          /\ DOMAIN a.page \subseteq Nat /\ a.root \in DOMAIN a.page
          /\ \A g \in DOMAIN a.page : a.page[g].kids \in Seq(DOMAIN a.page)

VARIABLES archive,
          present,   \* slices that are there and open
          told,      \* slices whose header is found
          alone,     \* the slice that is opened by itself, 0 for all together
          phase,
          todo,      \* slices whose place is still to be guessed
          base,      \* base[s]: where slice s was placed
          stack,     \* pages to visit, records [page, depth]
          walked,
          yielded    \* leaves whose cells were yielded

vars == <<archive, present, told, alone, phase, todo, base, stack, walked, yielded>>

Slices   == 1..Len(archive.slices)
Start(s) == archive.slices[s].start
Pages(s) == archive.slices[s].pages
Window(s) == Start(s)..(Start(s) + Pages(s) - 1)

Init == /\ archive \in Archives
        /\ present \in SUBSET Slices
        /\ told    \in SUBSET present
        /\ alone   \in {0} \cup present
        /\ phase   = "open"
        /\ todo    = {}
        /\ base    = << >>
        /\ stack   = << >>
        /\ walked  = 0
        /\ yielded = << >>

-----------------------------------------------------------------------------
(* Places *)

(* global_base of a slice, 0 when it is not found. *)
GlobalBase(s) == IF s \in told THEN Start(s) ELSE 0

End(s) == base[s] + Pages(s)

(* The order of the tuples in known. *)
Before(r, s) == \/ base[r] < base[s]
                \/ base[r] = base[s] /\ Pages(r) < Pages(s)
                \/ base[r] = base[s] /\ Pages(r) = Pages(s) /\ r <= s

Lowest(S)  == CHOOSE s \in S : \A r \in S : Before(s, r)
Highest(S) == CHOOSE s \in S : \A r \in S : Before(r, s)

(* Is there a slice behind s that begins as far behind its end as n pages?   *)
GapBehindAny(s, n) == \E r \in DOMAIN base : base[r] > End(s)
GapBehind(s, n)    == LET nexts == {base[r] : r \in DOMAIN base} \ 0..End(s)
                      IN  nexts # {} /\ Min(nexts) - End(s) = n

Place(u) == LET gaps == {s \in DOMAIN base : GapBehind(s, Pages(u))}
            IN  IF gaps # {} THEN End(Lowest(gaps)) ELSE End(Highest(DOMAIN base))

Opening == UNCHANGED <<archive, present, told, alone, walked, yielded>>

Walking == phase' = "walk" /\ stack' = <<[page |-> archive.root, depth |-> 1]>>

OpenAlone == /\ phase = "open" /\ alone # 0
             /\ base' = [s \in {alone} |-> GlobalBase(s)]
             /\ Walking /\ UNCHANGED todo /\ Opening

OpenAll == /\ phase = "open" /\ alone = 0
           /\ LET known == {s \in present : GlobalBase(s) # 0}
              IN  /\ phase' = IF known = {} THEN "failed" ELSE "resolve"
                  /\ base'  = [s \in known |-> GlobalBase(s)]
                  /\ todo'  = present \ known
           /\ UNCHANGED stack /\ Opening

Resolve == /\ phase = "resolve" /\ todo # {}
           /\ LET u == Min(todo)
              IN  /\ base' = [s \in DOMAIN base \cup {u} |-> IF s = u THEN Place(u) ELSE base[s]]
                  /\ todo' = todo \ {u}
           /\ UNCHANGED <<phase, stack>> /\ Opening

Concatenate == phase = "resolve" /\ todo = {} /\ Walking /\ UNCHANGED <<base, todo>> /\ Opening

-----------------------------------------------------------------------------
(* Pages *)

PageCount == IF alone # 0 THEN Pages(alone) ELSE Max({End(s) : s \in DOMAIN base})

LocalAbove(g) == IF alone # 0 /\ base[alone] # 0 /\ g > base[alone] THEN g - base[alone] ELSE g
Local(g)      == IF alone # 0 /\ base[alone] # 0 /\ g >= base[alone] THEN g - base[alone] ELSE g

(* A slice by itself has its own handle.  The handle of all of them reads    *)
(* from the first that does not end before the position, if that one has     *)
(* begun there, and nothing in a hole.                                       *)
ReadPage(g) ==
    LET p == Local(g)
        behind == {s \in DOMAIN base : End(s) > p}
    IN  IF p \notin 0..(PageCount - 1) THEN NoPage
        ELSE IF alone # 0 THEN Start(alone) + p
        ELSE IF base[Lowest(behind)] > p THEN NoPage
        ELSE Start(Lowest(behind)) + p - base[Lowest(behind)]

Page(g) == IF g \in DOMAIN archive.page THEN archive.page[g] ELSE [type |-> "other", kids |-> << >>]

-----------------------------------------------------------------------------
(* walk_lsm_tree *)

Pending(s, kids) == [k \in 1..Len(kids) |-> [page |-> kids[k], depth |-> s.depth + 1]]

Visiting == phase = "walk" /\ stack # << >>
Fixed    == UNCHANGED <<archive, present, told, alone, todo, base>>
InRange(g) == Local(g) \in 0..(PageCount - 1)
Entered == InRange(Head(stack).page) /\ walked < archive.limit /\ Head(stack).depth <= MaxDepth
Found    == ReadPage(Head(stack).page)

(* Past the limit, outside the file, or not readable. *)
SkipAgain == stack' = stack          \* the page is tried again
Skip      == stack' = Tail(stack)

VisitNone ==
    /\ Visiting /\ Head(stack).depth <= MaxDepth /\ ~ Entered
    /\ Skip /\ UNCHANGED <<phase, walked, yielded>> /\ Fixed

Count == walked' = walked + 1

VisitUnread ==
    /\ Visiting /\ Entered /\ (Found = NoPage \/ Page(Found).type \in {"bad", "other"})
    /\ Skip /\ Count /\ UNCHANGED <<phase, yielded>> /\ Fixed

DescendLater(kids) == stack' = Tail(stack) \o Pending(Head(stack), kids)
Descend(kids)      == stack' = Pending(Head(stack), kids) \o Tail(stack)

VisitDir ==
    /\ Visiting /\ Entered /\ Found # NoPage /\ Page(Found).type = "ldir"
    /\ Descend(Page(Found).kids)
    /\ Count /\ UNCHANGED <<phase, yielded>> /\ Fixed

VisitLeaf ==
    /\ Visiting /\ Entered /\ Found # NoPage /\ Page(Found).type = "leaf"
    /\ yielded' = Append(yielded, Found)
    /\ stack' = Tail(stack) /\ Count /\ UNCHANGED phase /\ Fixed

(* What does not decode ends the walk, and so does a path that is too deep.  *)
VisitRaise ==
    /\ Visiting
    /\ \/ Head(stack).depth > MaxDepth /\ UNCHANGED walked
       \/ Entered /\ Found # NoPage /\ Page(Found).type = "sealed" /\ Count
    /\ phase' = "raised" /\ UNCHANGED <<stack, yielded>> /\ Fixed

Finish == /\ phase = "walk" /\ stack = << >>
          /\ phase' = "done" /\ UNCHANGED <<stack, walked, yielded>> /\ Fixed

Next == \/ OpenAlone \/ OpenAll \/ Resolve \/ Concatenate
        \/ VisitNone \/ VisitUnread \/ VisitDir \/ VisitLeaf \/ VisitRaise \/ Finish

Spec == Init /\ [][Next]_vars /\ WF_vars(Next)

-----------------------------------------------------------------------------
(* Properties *)

AllTold == \A s \in present : GlobalBase(s) # 0
Opened  == phase \in {"walk", "done", "raised"}

(* A page of the archive is read as itself or not at all.  All slices        *)
(* together, when each has its header, read what is in one of them           *)
(* (_ConcatSlices); one by itself reads its window (_raw_read_page).         *)
ReadIsOwn ==
    Opened /\ AllTold =>
        \A g \in UNION {Window(s) : s \in Slices} :
            IF alone = 0
            THEN ReadPage(g) = IF \E s \in present : g \in Window(s) THEN g ELSE NoPage
            ELSE g >= base[alone] => ReadPage(g) = IF g \in Window(alone) THEN g ELSE NoPage

(* One slice without a header does no harm to the others: what is in them is *)
(* read as itself.  It is read too when the slices beside it are there and   *)
(* no other gap is as long as it is (MultiSliceTibxReader).  Known slices    *)
(* that adjoin are another matter: see GapIsGap.                             *)
Known   == {s \in present : GlobalBase(s) # 0}
Adjoin  == \E r, s \in Known : Start(s) = Start(r) + Pages(r)
Gap(r, s) == r < s /\ \A q \in Known : q <= r \/ s <= q
Room(r, s) == Start(s) - Start(r) - Pages(r)
Placeable(u) == /\ u - 1 \in present /\ (u + 1 \in present \/ u = Len(archive.slices))
                /\ \A r, s \in Known : Gap(r, s) /\ Room(r, s) = Pages(u) => r = u - 1

GuessIsSafe ==
    Opened /\ alone = 0 /\ ~ Adjoin =>
        \A u \in present : Known = present \ {u} =>
            \A s \in present : s # u \/ Placeable(u) => \A g \in Window(s) : ReadPage(g) = g

(* "Resolve any unresolved slice by slotting it into a gap between known     *)
(* contiguous ranges (its page_count must match the gap)" (multislice.py):   *)
(* no two slices are put in one place.                                       *)
GapIsGap ==
    Opened /\ alone = 0 =>
        \A r, s \in DOMAIN base : r # s => End(r) <= base[s] \/ End(s) <= base[r]

(* The leaves of a tree in order, those left out that are not there, or are  *)
(* under a page that is not.                                                 *)
Has(g) == IF alone = 0 THEN \E s \in present : g \in Window(s) ELSE g \in Window(alone)

LeavesAbove(b) ==    \* when those of the pages one step down are b
    [g \in DOMAIN archive.page |->
        IF ~ Has(g) THEN << >>
        ELSE CASE Page(g).type = "leaf" -> <<g>>
               [] Page(g).type = "ldir" ->
                    FlattenSeq([k \in 1..Len(Page(g).kids) |-> b[Page(g).kids[k]]])
               [] OTHER -> << >>]

Leaves ==
    LET none == [g \in DOMAIN archive.page |-> << >>]
        below[n \in 0..MaxDepth] == IF n = 0 THEN none ELSE LeavesAbove(below[n - 1])
    IN  below[MaxDepth][archive.root]

(* A walk that ends yields the cells of each leaf that is there, in key      *)
(* order, as often as the tree refers to it (walk_lsm_tree).                 *)
WalkYieldsTree ==
    /\ walked <= archive.limit
    /\ (/\ phase = "done" /\ AllTold /\ walked < archive.limit
        /\ alone # 0 => \A g \in DOMAIN archive.page : g >= Start(alone))
       => yielded = Leaves

(* Every walk ends, in a tree that refers to itself too (walk_lsm_tree). *)
WalkEnds == <>(phase \in {"done", "raised", "failed"})
=============================================================================
