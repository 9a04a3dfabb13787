--------------------------------- MODULE Parser ---------------------------------
(***************************************************************************)
(* dbpx_parser.cpp builds the tree of tags from the events of an XML       *)
(* reader.  It keeps no stack of open elements: it knows the tag it has    *)
(* seen last, current_node, and the depths that the reader reports.        *)
(*                                                                         *)
(* The document is chosen while it is read: any sequence of events that a  *)
(* reader reports for a well-formed document.  The elements that are       *)
(* really open are kept as history, to compare the tree with.  Names and   *)
(* attributes are left out; of the tags below the root of an included      *)
(* document, the first one counts.                                         *)
(***************************************************************************)
EXTENDS Naturals, Sequences

CONSTANTS
    MaxNodes,   \* bound: tags of a document
    MaxDepth    \* bound: open elements

ASSUME ParserAssumption == MaxNodes \in Nat /\ MaxDepth \in Nat

VARIABLES
    tree,       \* the tags, in the order of the document; 0 is NULL
    current,    \* current_node
    open,       \* history: open elements, 0 for one that makes no tag
    overrun,    \* history: an element that makes no tag is outermost or not empty
    outcome     \* of parse(); "rootless": an included document gave no tag

vars == <<tree, current, open, overrun, outcome>>

\* A tag: get_parent(), get_depth(), whether its name is "module"; and as history
\* whether it was included, and the innermost open element that has a tag.
Node == [parent : Nat, depth : Nat, module : BOOLEAN, included : BOOLEAN, inside : Nat]

TypeOK ==
    /\ tree \in Seq(Node)
    /\ current \in 0..Len(tree)
    /\ open \in Seq(0..Len(tree))
    /\ overrun \in BOOLEAN
    /\ outcome \in {"reading", "parsed", "rejected", "crashed", "rootless"}

Init ==
    /\ tree = <<>> /\ current = 0 /\ open = <<>>
    /\ overrun = FALSE /\ outcome = "reading"

--------------------------------------------------------------------------------
(* The reader *)

Reading == outcome = "reading"

\* There is one outermost element.
Begun == open # <<>> \/ tree # <<>> \/ overrun

MoreTags == Reading /\ Len(tree) < MaxNodes /\ (open = <<>> => ~Begun)

\* xmlTextReaderDepth
Depth == Len(open)

\* The innermost open element that has a tag, 0 for none.
Inside ==
    LET tags == {i \in 1..Len(open) : open[i] # 0}
    IN  IF tags = {} THEN 0 ELSE open[CHOOSE i \in tags : \A j \in tags : j <= i]

\* An element of tag n begins, and has no end of its own when it is empty.
Opens(n, empty) ==
    IF empty THEN UNCHANGED open
    ELSE Len(open) < MaxDepth /\ open' = Append(open, n)

--------------------------------------------------------------------------------
(* make_relationship *)

\* get_parent(), k times.
Up(n, k) ==
    LET up[i \in 0..k] == IF i = 0 THEN n
                          ELSE IF up[i - 1] = 0 THEN 0 ELSE tree[up[i - 1]].parent
    IN  up[k]

\* Mutant: the depths are not compared.
ParentForDeeper(d) == current

\* Mutant: the search for an ancestor starts one too high.
ParentForTooHigh(d) ==
    LET c == tree[current]
    IN  IF d > c.depth THEN current ELSE Up(c.parent, c.depth - d + 1)

\* The tag to which a tag of depth d is added: the parent of the current one, the
\* current one, or an ancestor of it; 0 is "invalid nested tags".
ParentFor(d) ==
    LET c == tree[current]
    IN  IF d = c.depth THEN c.parent
        ELSE IF d > c.depth THEN current
        ELSE Up(c.parent, c.depth - d)

\* set_depth, then add_child, whose order is that of the document and whose set_parent
\* puts the tag one below its parent, whatever the reader said.
Adds(p, module, included) ==
    tree' = Append(tree, [parent |-> p, module |-> module, included |-> included,
                          depth |-> IF p = 0 THEN Depth ELSE tree[p].depth + 1,
                          inside |-> Inside])

Rejects ==
    /\ outcome' = "rejected"
    /\ UNCHANGED <<tree, current, open, overrun>>

Crashes ==
    /\ outcome' = "crashed"
    /\ UNCHANGED <<tree, current, open, overrun>>

\* No tag to add to; the loop over the ancestors does not expect to start at NULL.
Refuses(d) ==
    IF d < tree[current].depth /\ tree[current].parent = 0 THEN Crashes ELSE Rejects

--------------------------------------------------------------------------------
(* process_node *)

\* The first tag, which becomes the root of the tree.
RootElement ==
    /\ MoreTags /\ current = 0
    /\ \E module \in BOOLEAN, empty \in BOOLEAN :
         /\ Opens(1, empty)
         /\ Adds(0, module, FALSE)
    /\ current' = 1
    /\ UNCHANGED <<overrun, outcome>>

\* Mutant: the new tag is counted twice.
ElementTwice ==
    /\ MoreTags /\ current # 0
    /\ ParentFor(Depth) # 0
    /\ \E empty \in BOOLEAN : Opens(Len(tree) + 1, empty)
    /\ Adds(ParentFor(Depth), FALSE, FALSE)
    /\ current' = Len(tree) + 2
    /\ UNCHANGED <<overrun, outcome>>

\* An element that makes a tag: of a custom, a dbp or an unknown name.
Element ==
    /\ MoreTags /\ current # 0
    /\ \/ /\ ParentFor(Depth) # 0
          /\ \E module \in BOOLEAN, empty \in BOOLEAN :
               /\ Opens(Len(tree) + 1, empty)
               /\ Adds(ParentFor(Depth), module, FALSE)
          /\ current' = Len(tree) + 1
          /\ UNCHANGED <<overrun, outcome>>
       \/ ParentFor(Depth) = 0 /\ Refuses(Depth)

\* Text or CDATA; the current tag stays.
Text ==
    /\ MoreTags /\ open # <<>> /\ current # 0
    /\ \/ /\ ParentFor(Depth) # 0
          /\ Adds(ParentFor(Depth), FALSE, FALSE)
          /\ UNCHANGED <<current, open, overrun, outcome>>
       \/ ParentFor(Depth) = 0 /\ Refuses(Depth)

\* An element that makes no tag.
NoTag ==
    /\ \E empty \in BOOLEAN : Opens(0, empty) /\ overrun' = (overrun \/ ~empty \/ open = <<>>)
    /\ UNCHANGED <<tree, current, outcome>>

\* dbp:include: the tags below the root of the other document, if any, are moved to
\* current_node, which stays; without one they are moved to NULL.  A document of ITS
\* elements only has no root, and NULL is asked for its children.
Include ==
    /\ MoreTags
    /\ \/ /\ current # 0
          /\ \E empty \in BOOLEAN : Opens(0, empty) /\ overrun' = (overrun \/ ~empty)
          /\ Adds(current, FALSE, TRUE)
          /\ UNCHANGED <<current, outcome>>
       \/ current = 0 /\ Crashes
       \/ NoTag
       \/ outcome' = "rootless" /\ UNCHANGED <<tree, current, open, overrun>>

\* An element of the ITS namespace.
ItsElement == MoreTags /\ NoTag

\* Mutant: the end of an element closes its parent as well.
EndElementTwice ==
    /\ Reading /\ open # <<>> /\ current # 0
    /\ LET p == Up(current, 2) IN current' = IF p = 0 THEN current ELSE p
    /\ open' = SubSeq(open, 1, Len(open) - 1)
    /\ UNCHANGED <<tree, overrun, outcome>>

\* The end of an element: of whichever it is, the parent of the current tag becomes
\* the current one, unless that is NULL or the current one is a "module".
EndElement ==
    /\ Reading /\ open # <<>>
    /\ \/ /\ current # 0
          /\ current' = IF tree[current].module \/ tree[current].parent = 0 THEN current
                        ELSE tree[current].parent
          /\ open' = SubSeq(open, 1, Len(open) - 1)
          /\ UNCHANGED <<tree, overrun, outcome>>
       \/ current = 0 /\ Crashes

\* An exception: the document is not well-formed from here on, the factory does not
\* know a dbp name, an include has no href, or its document cannot be parsed.
ReadFails == Reading /\ Rejects

\* The reader is at the end of the document.
Finish ==
    /\ Reading /\ open = <<>> /\ Begun
    /\ outcome' = "parsed"
    /\ UNCHANGED <<tree, current, open, overrun>>

Next ==
    \/ RootElement \/ Element \/ Text \/ Include \/ ItsElement
    \/ EndElement \/ ReadFails \/ Finish

Spec == Init /\ [][Next]_vars

--------------------------------------------------------------------------------
(* Properties *)

\* Tag n is tag m, or is in it.
Within(n, m) == \E k \in 0..Len(tree) : Up(n, k) = m

\* dbpx_parser.cpp, current_node instead of a stack: as long as all elements that make
\* no tag are empty, the current tag is the innermost open element or is in it, though
\* the ends of elements do not say which one ends.
StaysInside == ~overrun /\ Inside # 0 => Within(current, Inside)

\* ... and so every tag is the child of the element that it is written in, for all
\* that the comparison of depths in make_relationship does not know which elements
\* are still open.
NestedAsWritten ==
    /\ StaysInside
    /\ ~overrun => \A n \in 1..Len(tree) :
                      ~tree[n].included => tree[n].parent = tree[n].inside

\* Included tags are somewhere in the element that the dbp:include is written in.
IncludedNearby ==
    ~overrun => \A n \in 1..Len(tree) : tree[n].included => Within(tree[n].parent, tree[n].inside)

\* make_relationship never says "invalid nested tags" of a well-formed document, and
\* NULL is never taken for current_node: not even after a dbp:include or ITS element with
\* content has moved current_node too high.  The one exception is a document whose
\* outermost element makes no tag.
AcceptsNesting ==
    [][open # <<>> /\ open[1] # 0 => /\ outcome' # "crashed"
                                     /\ MoreTags => ParentFor(Depth) # 0]_vars

================================================================================
