------------------------------- MODULE NodeTree -------------------------------
(***************************************************************************)
(* The tree of IsoNode objects of libisofs (node.c, tree.c): sorted linked *)
(* lists of children, reference counts, and directory iterators which are  *)
(* told when a child leaves its directory.                                 *)
(*                                                                         *)
(* The library runs in one thread, so that a call is one action.  Hard are *)
(* the orders of calls: an application adds, takes, removes and renames    *)
(* nodes while its iterators stand on them.  Freed memory gets reused.     *)
(***************************************************************************)
EXTENDS Naturals, Sequences, FiniteSets, SequencesExt

CONSTANTS
    Dirs, Leaves,   \* memory for nodes, by type: positive numbers
    Root,           \* the root directory
    Names,          \* possible names: numbers, compared like by strcmp()
    Iters,          \* memory for directory iterators
    IterLimit,      \* how many iterators the application has on one directory
    MaxOwn          \* bound on the references of the application to a node

Nodes  == Dirs \cup Leaves
NoNode == 0                     \* the NULL pointer

ASSUME NTAssumption ==
    /\ Nodes \subseteq Nat \ {NoNode} /\ IsFiniteSet(Nodes)
    /\ Dirs \cap Leaves = {} /\ Root \in Dirs
    /\ Names \subseteq Nat /\ IsFiniteSet(Iters) /\ NoNode \notin Iters
    /\ IterLimit \in Nat /\ MaxOwn \in Nat

VARIABLES
    t,              \* the memory of the library, see NTInit
    app,            \* references which the application owns (history)
    visited, stay,  \* of each iterator: children returned by it, and those
                    \* which never left its directory since (history)
    verdict         \* how the last iso_dir_iter_next() ended (history)

ntVars == <<t, app, visited, stay, verdict>>

Memory ==
    [ref : [Nodes -> Nat], parent : [Nodes -> Dirs \cup {NoNode}],
     next : [Nodes -> Nodes \cup {NoNode}], name : [Nodes -> Nat],
     head : [Dirs -> Nodes \cup {NoNode}], count : [Dirs -> Nat],
     it : [Iters -> [dir : Dirs \cup {NoNode}, pos : Nodes \cup {NoNode}, fresh : BOOLEAN]],
     reg : Seq(Iters)]

NoIter == [dir |-> NoNode, pos |-> NoNode, fresh |-> FALSE]

\* iso_node_new_root(): the root is its own parent.
NTInit ==
    /\ t = [ref    |-> [n \in Nodes |-> IF n = Root THEN 1 ELSE 0],
            parent |-> [n \in Nodes |-> IF n = Root THEN Root ELSE NoNode],
            next   |-> [n \in Nodes |-> NoNode],
            name   |-> [n \in Nodes |-> 0],
            head   |-> [d \in Dirs |-> NoNode],
            count  |-> [d \in Dirs |-> 0],
            it     |-> [i \in Iters |-> NoIter],
            reg    |-> <<>>]
    /\ app = [n \in Nodes |-> 0]
    /\ visited = [i \in Iters |-> {}] /\ stay = [i \in Iters |-> {}]
    /\ verdict = [i \in Iters |-> "none"]

-----------------------------------------------------------------------------
(* Lists of children                                                       *)

\* The smallest set of nodes with a property that has a smallest set.
Least(Closed(_)) ==
    LET closed == {S \in SUBSET Nodes : Closed(S)}
    IN  {x \in Nodes : \A S \in closed : x \in S}

\* The nodes which a walk along the list of a directory passes, until it meets
\* one of the given nodes or the end of the list.
Passed(m, d, stop) ==
    Least(LAMBDA S : /\ m.head[d] \in S \cup stop \cup {NoNode}
                     /\ \A x \in S : m.next[x] \in S \cup stop \cup {NoNode})

\* Where such a walk ends: behind this node, or at the head of the list.
Before(m, d, stop) ==
    LET passed == Passed(m, d, stop)
    IN  IF passed = {} THEN NoNode ELSE CHOOSE x \in passed : m.next[x] \notin passed

\* What the link behind that place points to, and how it gets changed.
At(m, d, pre) == IF pre = NoNode THEN m.head[d] ELSE m.next[pre]

SetLink(m, d, pre, n) ==
    IF pre = NoNode THEN [m EXCEPT !.head[d] = n] ELSE [m EXCEPT !.next[pre] = n]

\* iso_dir_find(): the place of the first child that is not before the name.
PlaceOf(m, d, nm) == Before(m, d, {c \in Nodes : m.name[c] >= nm})

\* iso_dir_exists() and iso_dir_get_node(): the child of that name.
ChildNamed(m, d, nm) ==
    LET c == At(m, d, PlaceOf(m, d, nm))
    IN  IF c # NoNode /\ m.name[c] = nm THEN c ELSE NoNode

-----------------------------------------------------------------------------
(* Reference counts                                                        *)

RefOf(m, n) == [m EXCEPT !.ref[n] = @ + 1]

\* The nodes that are freed with the last reference to one: with a directory
\* those below it to which nobody else holds a reference.
Fallen(m, n) ==
    Least(LAMBDA S : n \in S /\ \A c \in Nodes :
                                  m.ref[c] = 1 /\ m.parent[c] \in S => c \in S)

\* iso_node_unref().  The surviving children of freed directories have no
\* parent any more, but keep their link to the next one.
UnrefOf(m, n) ==
    LET gone == Fallen(m, n)
        left == {c \in Nodes \ gone : m.parent[c] \in gone}
    IN  IF m.ref[n] # 1 THEN [m EXCEPT !.ref[n] = @ - 1]
        ELSE [m EXCEPT
           !.ref    = [x \in Nodes |-> IF x \in gone THEN 0
                                       ELSE IF x \in left THEN @[x] - 1 ELSE @[x]],
           !.parent = [x \in Nodes |-> IF x \in gone \cup left THEN NoNode ELSE @[x]],
           !.next   = [x \in Nodes |-> IF x \in gone THEN NoNode ELSE @[x]],
           !.name   = [x \in Nodes |-> IF x \in gone THEN 0 ELSE @[x]],
           !.head   = [d \in Dirs |-> IF d \in gone THEN NoNode ELSE @[d]],
           !.count  = [d \in Dirs |-> IF d \in gone THEN 0 ELSE @[d]]]

-----------------------------------------------------------------------------
(* Inserting and taking                                                    *)

\* Defect: a replaced node stays owner of the list behind it.
InsertOfDefect(m, d, n) ==
    LET pre == PlaceOf(m, d, m.name[n])
        at  == At(m, d, pre)
    IN  IF at # NoNode /\ m.name[at] = m.name[n]
        THEN [SetLink(UnrefOf([m EXCEPT !.parent[at] = NoNode], at), d, pre, n)
                EXCEPT !.parent[n] = d]
        ELSE [SetLink([m EXCEPT !.next[n] = at], d, pre, n)
                EXCEPT !.parent[n] = d, !.count[d] = @ + 1]

\* The successful ends of iso_dir_insert(): a child of the same name gets
\* replaced, iterators are not told.
InsertOf(m, d, n) ==
    LET pre == PlaceOf(m, d, m.name[n])
        at  == At(m, d, pre)
    IN  IF at # NoNode /\ m.name[at] = m.name[n]
        THEN [SetLink(UnrefOf([m EXCEPT !.next[n] = m.next[at],
                                        !.parent[at] = NoNode,
                                        !.next[at] = NoNode], at), d, pre, n)
                EXCEPT !.parent[n] = d]
        ELSE [SetLink([m EXCEPT !.next[n] = at], d, pre, n)
                EXCEPT !.parent[n] = d, !.count[d] = @ + 1]

\* What the replace mode makes of a name collision with an old node.
\* Comparing times of modification is left open.
MayReplace(old, n, mode) ==
    old # NoNode => \/ mode = "always"
                    \/ mode = "same type" /\ (old \in Dirs) = (n \in Dirs)

Modes == {"never", "always", "same type"}

\* Defect: the iterator does not take a reference to its new position.
NotifyOfDefect(m, i, n) ==
    LET d == m.it[i].dir
        pre == Before(m, d, {n})
        m1 == SetLink(UnrefOf(m, n), d, pre, m.next[n])
    IN  IF m.it[i].pos # n \/ At(m, d, pre) # n THEN m ELSE [m1 EXCEPT !.it[i].pos = pre]

\* Defect: the iterator starts over.
NotifyOfRestart(m, i, n) ==
    LET d == m.it[i].dir
        pre == Before(m, d, {n})
    IN  IF m.it[i].pos # n \/ At(m, d, pre) # n THEN m
        ELSE [SetLink(UnrefOf(m, n), d, pre, m.next[n]) EXCEPT !.it[i].pos = NoNode]

\* iter_notify_child_taken(): an iterator on the node steps back, and unlinks
\* the node.  A node that is not in the list any more changes nothing.
NotifyOf(m, i, n) ==
    LET d == m.it[i].dir
        pre == Before(m, d, {n})
        m1 == SetLink(UnrefOf(m, n), d, pre, m.next[n])
    IN  IF m.it[i].pos # n \/ At(m, d, pre) # n THEN m
        ELSE IF pre = NoNode THEN [m1 EXCEPT !.it[i].pos = NoNode]
        ELSE RefOf([m1 EXCEPT !.it[i].pos = pre], pre)

\* iso_notify_dir_iters(): those of the directory, in the order of the registry.
NotifyAll(m, n) ==
    LET told[k \in 0 .. Len(m.reg)] ==
          IF k = 0 THEN m
          ELSE IF told[k - 1].it[m.reg[k]].dir # told[k - 1].parent[n] THEN told[k - 1]
          ELSE NotifyOf(told[k - 1], m.reg[k], n)
    IN  told[Len(m.reg)]

\* iso_node_take().  The link is looked up before the iterators unlink.
TakeOf(m, n) ==
    LET d == m.parent[n]
        pre == Before(m, d, {n})
    IN  [SetLink(NotifyAll(m, n), d, pre, m.next[n])
           EXCEPT !.parent[n] = NoNode, !.next[n] = NoNode, !.count[d] = @ - 1]

-----------------------------------------------------------------------------
(* Calls of the application                                                *)

Live(n) == t.ref[n] > 0

\* A directory and those which contain it, at any depth.
Above(m, d) ==
    Least(LAMBDA S : d \in S /\ \A c \in S : m.parent[c] \in S \cup {NoNode})

\* History of all iterators after nodes have left their directories.
Followed(new, left) ==
    /\ stay' = [i \in Iters |->
                  {n \in stay[i] \ left : new.parent[n] = new.it[i].dir}]
    /\ visited' = [i \in Iters |-> visited[i] \cap stay'[i]]

\* Nothing is promised to an iterator which stands on a replaced child.
Voided(old) ==
    verdict' = [i \in Iters |-> IF old # NoNode /\ t.it[i].pos = old THEN "void"
                                ELSE verdict[i]]

Verdict(i, v) ==
    verdict' = [verdict EXCEPT ![i] = IF @ = "void" THEN @ ELSE v]

\* iso_tree_add_new_dir() and its like in mode "never", iso_add_dir_src_rec()
\* in the mode of the image.  A node that may not be inserted is freed.
AddNew(d, n, nm, mode) ==
    LET old == ChildNamed(t, d, nm)
    IN  /\ Live(d) /\ ~ Live(n) /\ MayReplace(old, n, mode)
        /\ t' = InsertOf([t EXCEPT !.ref[n] = 1, !.name[n] = nm], d, n)
        /\ Followed(t', {}) /\ Voided(old) /\ UNCHANGED app

\* iso_dir_add_node(): the directory becomes owner.  No application makes a
\* directory its own descendant.
AddNode(d, n, mode) ==
    LET old == ChildNamed(t, d, t.name[n])
    IN  /\ Live(d) /\ app[n] > 0 /\ t.parent[n] = NoNode /\ n \notin Above(t, d)
        /\ MayReplace(old, n, mode)
        /\ t' = InsertOf(t, d, n) /\ app' = [app EXCEPT ![n] = @ - 1]
        /\ Followed(t', {}) /\ Voided(old)

\* iso_node_take(): the application becomes owner.
Take(n) ==
    /\ n # Root /\ Live(n) /\ t.parent[n] # NoNode /\ app[n] < MaxOwn
    /\ t' = TakeOf(t, n) /\ app' = [app EXCEPT ![n] = @ + 1]
    /\ Followed(t', {n}) /\ UNCHANGED verdict

\* iso_node_remove()
RemoveNode(n) ==
    /\ n # Root /\ Live(n) /\ t.parent[n] # NoNode
    /\ t' = UnrefOf(TakeOf(t, n), n)
    /\ Followed(t', {n}) /\ UNCHANGED <<app, verdict>>

\* iso_node_set_name(): taken and added again for the order of the list.
SetName(n, nm) ==
    /\ n # Root /\ Live(n)
    /\ IF t.parent[n] = NoNode THEN t' = [t EXCEPT !.name[n] = nm]
       ELSE /\ ChildNamed(t, t.parent[n], nm) = NoNode
            /\ t' = InsertOf(TakeOf([t EXCEPT !.name[n] = nm], n), t.parent[n], n)
    /\ Followed(t', {n}) /\ UNCHANGED <<app, verdict>>

Ref(n) ==
    /\ Live(n) /\ app[n] < MaxOwn
    /\ t' = RefOf(t, n) /\ app' = [app EXCEPT ![n] = @ + 1]
    /\ UNCHANGED <<visited, stay, verdict>>

Unref(n) ==
    /\ app[n] > 0
    /\ t' = UnrefOf(t, n) /\ app' = [app EXCEPT ![n] = @ - 1]
    /\ Followed(t', {}) /\ UNCHANGED verdict

\* iso_dir_get_children() and iso_dir_iter_register()
IterOpen(i, d) ==
    /\ Live(d) /\ t.it[i].dir = NoNode
    /\ Cardinality({j \in Iters : t.it[j].dir = d}) < IterLimit
    /\ t' = RefOf([t EXCEPT !.it[i] = [NoIter EXCEPT !.dir = d],
                            !.reg = <<i>> \o @], d)
    /\ stay' = [stay EXCEPT ![i] = {n \in Nodes \ {Root} : t.parent[n] = d}]
    /\ visited' = [visited EXCEPT ![i] = {}]
    /\ verdict' = [verdict EXCEPT ![i] = "running"] /\ UNCHANGED app

\* What iter_next() leaves, and the position that it returns.
IterMoved(m, i, n) ==
    RefOf([m EXCEPT !.it[i].pos = n, !.it[i].fresh = TRUE], n)

\* iter_next(): its position is left before the next one is read from it.  A
\* position that has left the directory is an error.
IterNext(i) ==
    LET x == t.it[i]
        m == [t EXCEPT !.it[i].fresh = FALSE]
        n == IF x.pos = NoNode THEN t.head[x.dir] ELSE t.next[x.pos]
        lost == x.pos # NoNode /\ t.parent[x.pos] # x.dir
    IN  /\ x.dir # NoNode
        /\ IF lost \/ n = NoNode
           THEN /\ t' = m /\ UNCHANGED visited
                /\ Verdict(i, IF lost THEN "error" ELSE "end")
           ELSE /\ t' = IterMoved(IF x.pos = NoNode THEN m ELSE UnrefOf(m, x.pos), i, n)
                /\ visited' = [visited EXCEPT ![i] = @ \cup ({n} \cap stay[i])]
                /\ Verdict(i, IF n \in visited[i] THEN "twice" ELSE "running")
        /\ UNCHANGED <<app, stay>>

\* iter_take() and iter_remove(): once after each successful iter_next().  It
\* is in vain if the child was replaced meanwhile.
IterTake(i, remove) ==
    LET n == t.it[i].pos
        m == [t EXCEPT !.it[i].fresh = FALSE]
    IN  /\ t.it[i].fresh /\ n # NoNode /\ UNCHANGED verdict
        /\ \/ /\ t.parent[n] = NoNode
              /\ t' = m /\ UNCHANGED <<app, visited, stay>>
           \/ /\ t.parent[n] # NoNode /\ remove
              /\ t' = UnrefOf(TakeOf(m, n), n)
              /\ Followed(t', {n}) /\ UNCHANGED app
           \/ /\ t.parent[n] # NoNode /\ ~ remove /\ app[n] < MaxOwn
              /\ t' = TakeOf(m, n) /\ app' = [app EXCEPT ![n] = @ + 1]
              /\ Followed(t', {n})

\* iso_dir_iter_free()
IterFree(i) ==
    LET x == t.it[i]
        m == [t EXCEPT !.reg = RemoveAt(@, CHOOSE k \in DOMAIN @ : @[k] = i), !.it[i] = NoIter]
    IN  /\ x.dir # NoNode
        /\ t' = UnrefOf(IF x.pos = NoNode THEN m ELSE UnrefOf(m, x.pos), x.dir)
        /\ Followed(t', {})
        /\ verdict' = [verdict EXCEPT ![i] = "none"] /\ UNCHANGED app

NTNext ==
    \/ \E d \in Dirs, n \in Nodes \ {Root}, mode \in Modes :
          \/ \E nm \in Names : AddNew(d, n, nm, mode)
          \/ AddNode(d, n, mode)
    \/ \E n \in Nodes : Take(n) \/ RemoveNode(n) \/ Ref(n) \/ Unref(n)
    \/ \E n \in Nodes, nm \in Names : SetName(n, nm)
    \/ \E i \in Iters :
          \/ \E d \in Dirs : IterOpen(i, d)
          \/ IterNext(i) \/ IterFree(i)
          \/ \E remove \in BOOLEAN : IterTake(i, remove)

NTSpec == NTInit /\ [][NTNext]_ntVars

-----------------------------------------------------------------------------
(* Properties                                                              *)

NTTypeOK ==
    /\ t \in Memory
    /\ app \in [Nodes -> 0 .. MaxOwn]

\* After any series of calls the list of each directory has exactly the nodes
\* which have it as parent, as many as are counted, and goes from each to one
\* of a greater name: it is sorted, names are unique, and it has an end.
ListsAreSound ==
    /\ NTTypeOK
    /\ \A d \in Dirs :
         LET list == Passed(t, d, {})
         IN  /\ list = {n \in Nodes \ {Root} : t.parent[n] = d}
             /\ t.count[d] = Cardinality(list)
             /\ \A x \in list :
                  t.next[x] # NoNode => t.name[x] < t.name[t.next[x]]

\* Each reference has an owner: the directory, the application, the position
\* of an iterator, its directory, the image for the root.  So no node is freed
\* as long as anybody may use it, and none is forgotten.
RefsHaveOwners ==
    \A n \in Nodes :
       t.ref[n] = app[n] + (IF t.parent[n] # NoNode THEN 1 ELSE 0)
                  + Cardinality({i \in Iters : t.it[i].pos = n})
                  + Cardinality({i \in Iters : t.it[i].dir = n})

\* An iteration returns no child twice, does not lose its position, and at its
\* end it has returned all children that were in the directory all the time,
\* whatever else was added, taken, removed or renamed meanwhile, be it the
\* child under the iterator itself.
IterationIsComplete ==
    \A i \in Iters :
       /\ verdict[i] \notin {"twice", "error"}
       /\ verdict[i] = "end" => stay[i] \subseteq visited[i]
=============================================================================
