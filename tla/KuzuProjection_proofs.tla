------------------------ MODULE KuzuProjection_proofs ------------------------
(***************************************************************************)
(* The Kuzu projection for any number of models, places and transitions.   *)
(*                                                                         *)
(* IInv says, after every statement of a script, what the open store holds *)
(* of the model at hand: while rows are deleted, what is gone already      *)
(* (Deleted); after that, exactly what the statements executed so far      *)
(* account for (Built).  Before the steps come the lemmas about nets, rows *)
(* and relationships, about the order of a script, and about what one      *)
(* statement changes in a database and what it leaves alone.               *)
(***************************************************************************)
EXTENDS KuzuProjection, TLAPS

(* Types, and what the variables of a rebuild say of each other.            *)
Typed ==
  /\ task \in Models \cup {NoModel} /\ net \in Nets \cup {NoNet}
  /\ todo \subseteq IF task = NoModel THEN {} ELSE Script(task, net)
  /\ attached \in BOOLEAN /\ cutShort \in BOOLEAN
  /\ shown \in [Models -> Nets \cup {NoNet, Unknown}]
  /\ task = NoModel => ~attached /\ store = NoRows
  /\ attached => store = disk
  /\ task # NoModel /\ ~attached => disk = NoRows

(* An edge leads from a row of a model to another of the same or to an      *)
(* activity, and leaves a place or a transition only while that is attached *)
(* to its model.                                                            *)
EdgeOk(e) ==
  /\ e = <<e[1], e[2]>>
  /\ e[1].of \in Models
  /\ e[1].kind \in {"model", "place", "transition", "marking"}
  /\ e[2].of = e[1].of \/ e[2].kind = "activity"

Sound(db) ==
  /\ db.nodes \subseteq AllNodes
  /\ \A e \in db.edges :
       /\ EdgeOk(e)
       /\ e[1] \in db.nodes /\ e[2] \in db.nodes
       /\ e[1].kind \in {"place", "transition"} =>
            <<ModelNode(e[1].of), e[1]>> \in db.edges

(* What has been executed came before whatever has not. *)
Ordered ==
  task # NoModel =>
    \A st \in Script(task, net) \ todo : \A other \in todo : Order(st) <= Order(other)

(* No place and no transition that its model does not lead to. *)
Tidy(db, m) ==
  \A y \in db.nodes :
    y.of = m /\ y.kind \in {"place", "transition"} => <<ModelNode(m), y>> \in db.edges

(* What a database holds of one model.                                      *)
NodesLike(db, m, kind) == {y \in db.nodes : y.of = m /\ y.kind = kind}
EdgesOf(db, m) == {e \in db.edges : e[1].of = m}

(* The rows and relationships of a script, if it makes any.                 *)
Made(m, n) == IF n = NoNet THEN {} ELSE Rows(m, n)
Laid(m, n) == IF n = NoNet THEN {} ELSE Edges(m, n)

(* Whether rows of the model are still to be deleted.                       *)
Deleting == DeleteRows(task) \cap todo # {}

(* While rows are still deleted, those of the kinds that are through are gone; *)
(* a place or transition without its edge is there only after a cut.        *)
Deleted ==
  task # NoModel /\ Deleting =>
    /\ Delete(task, "marking") \notin todo => NodesLike(store, task, "marking") = {}
    /\ Delete(task, "transition") \notin todo => Attached(store, task, "transition") = {}
    /\ Delete(task, "place") \notin todo => Attached(store, task, "place") = {}
    /\ ~cutShort => Tidy(store, task)

(* From then on the model's edges are those of the statements executed, and *)
(* so are its rows, but for leftovers of an earlier rebuild that was cut    *)
(* short.                                                                   *)
Built ==
  task # NoModel /\ ~Deleting =>
    /\ EdgesOf(store, task) = {e \in Laid(task, net) : Link(e) \notin todo}
    /\ \A y \in Made(task, net) : Create(y) \notin todo => y \in store.nodes
    /\ \A y \in store.nodes :
         y.of = task /\ (y.kind \in {"model", "marking"} \/ ~cutShort) =>
           y \in Made(task, net) /\ Create(y) \notin todo
    /\ net # NoNet => \A t \in net.visible :
         Merge(Activity(t)) \notin todo => Activity(t) \in store.nodes

(* As long as no script was cut short, no other model has loose rows.       *)
OthersTidy ==
  ~cutShort => \A m \in Models \ {task} : Tidy(disk, m) /\ Tidy(store, m)

(* The property, and that nothing is promised of the model at hand.         *)
ShownIsThere ==
  /\ attached => shown[task] = Unknown
  /\ AnsweredNetIsShown

IInv ==
  /\ Typed /\ Sound(disk) /\ Sound(store) /\ Ordered /\ Deleted /\ Built
  /\ OthersTidy /\ ShownIsThere

-----------------------------------------------------------------------------
(* What the nets of the miner have in common.                               *)
LEMMA NetShape ==
  ASSUME NEW n \in Nets
  PROVE  /\ n.places \subseteq Places /\ n.transitions \subseteq Transitions
         /\ n.visible \subseteq n.transitions
         /\ n.arcs \subseteq (n.places \X n.transitions) \cup (n.transitions \X n.places)
         /\ n.initial \subseteq n.places /\ n.final \subseteq n.places
         /\ n = [places |-> n.places, transitions |-> n.transitions,
                 visible |-> n.visible, arcs |-> n.arcs,
                 initial |-> n.initial, final |-> n.final]
         /\ n # NoNet
<1>1. CASE n = EmptyNet
  BY <1>1, KuzuAssumption DEF EmptyNet
<1>2. CASE n # EmptyNet
  <2>1. PICK ps \in SUBSET Places, ts \in SUBSET Transitions,
            labelled \in SUBSET Transitions :
          n = NetOf(ps, ts, labelled) /\ labelled \subseteq ts
    BY <1>2 DEF Nets
  <2>2. QED
    BY <2>1, KuzuAssumption DEF NetOf
<1>3. QED
  BY <1>1, <1>2

(* A row is of its model, and its kind tells which of its rows it is.       *)
LEMMA RowShape ==
  ASSUME NEW m \in Models, NEW n \in Nets, NEW y \in Rows(m, n)
  PROVE  /\ y.of = m /\ y \in AllNodes
         /\ y.kind \in {"model", "place", "transition", "marking"}
         /\ y.kind = "model" => y = ModelNode(m)
         /\ y.kind = "place" => y.id \in n.places /\ y = Place(m, y.id)
         /\ y.kind = "transition" => y.id \in n.transitions /\ y = Transition(m, y.id)
         /\ y.kind = "marking" => y.id \in {"initial", "final"} /\ y = Marking(m, y.id)
<1>1. NodesOf(m) \subseteq AllNodes /\ n.places \subseteq Places
      /\ n.transitions \subseteq Transitions
  BY NetShape DEF AllNodes
<1>2. \/ y = ModelNode(m)
      \/ \E p \in n.places : y = Place(m, p)
      \/ \E t \in n.transitions : y = Transition(m, t)
      \/ \E kind \in {"initial", "final"} : y = Marking(m, kind)
  BY DEF Rows
<1>3. CASE y = ModelNode(m)
  BY <1>1, <1>3 DEF NodesOf, ModelNode, Node
<1>4. CASE \E p \in n.places : y = Place(m, p)
  BY <1>1, <1>4 DEF NodesOf, Place, Node
<1>5. CASE \E t \in n.transitions : y = Transition(m, t)
  BY <1>1, <1>5 DEF NodesOf, Transition, Node
<1>6. CASE \E kind \in {"initial", "final"} : y = Marking(m, kind)
  BY <1>1, <1>6 DEF NodesOf, Marking, Node
<1>7. QED
  BY <1>2, <1>3, <1>4, <1>5, <1>6

(* The five kinds of relationships. *)
LEMMA EdgeShape ==
  ASSUME NEW m \in Models, NEW n \in Nets, NEW e \in Edges(m, n)
  PROVE  \/ e = <<ModelNode(m), e[2]>> /\ e[2] \in Rows(m, n) \ {ModelNode(m)}
         \/ \E t \in n.visible : e = <<Transition(m, t), Activity(t)>>
         \/ \E p \in n.places, t \in n.transitions : e = <<Place(m, p), Transition(m, t)>>
         \/ \E p \in n.places, t \in n.transitions : e = <<Transition(m, t), Place(m, p)>>
         \/ \E p \in n.initial : e = <<Marking(m, "initial"), Place(m, p)>>
         \/ \E p \in n.final : e = <<Marking(m, "final"), Place(m, p)>>
<1>1. ASSUME NEW a \in n.arcs \cap (Places \X Transitions)
      PROVE  a[1] \in n.places /\ a[2] \in n.transitions
  BY <1>1, NetShape, KuzuAssumption
<1>2. ASSUME NEW a \in n.arcs \cap (Transitions \X Places)
      PROVE  a[1] \in n.transitions /\ a[2] \in n.places
  BY <1>2, NetShape, KuzuAssumption
<1>3. QED
  BY <1>1, <1>2 DEF Edges

(* A relationship begins at a row of its model, and each row but the model  *)
(* itself has one that leads to it.                                         *)
LEMMA EdgeEnds ==
  ASSUME NEW m \in Models, NEW n \in Nets, NEW e \in Edges(m, n)
  PROVE  /\ EdgeOk(e) /\ e[1].of = m /\ e[1] \in Rows(m, n)
         /\ e[2] \in Rows(m, n) \/ \E t \in n.visible : e[2] = Activity(t)
         /\ e[1].kind # "model" => <<ModelNode(m), e[1]>> \in Edges(m, n)
<1>1. /\ ModelNode(m) \in Rows(m, n)
      /\ \A p \in n.places : Place(m, p) \in Rows(m, n)
      /\ \A t \in n.transitions : Transition(m, t) \in Rows(m, n)
      /\ Marking(m, "initial") \in Rows(m, n) /\ Marking(m, "final") \in Rows(m, n)
  BY DEF Rows
<1>2. \A y \in Rows(m, n) : y # ModelNode(m) => <<ModelNode(m), y>> \in Edges(m, n)
  BY DEF Edges
<1>3. e[1] \in Rows(m, n)
  BY <1>1, EdgeShape, NetShape
<1>4. e[2] \in Rows(m, n) \/ \E t \in n.visible : e[2] = Activity(t)
  BY <1>1, EdgeShape, NetShape
<1>5. EdgeOk(e) /\ e[1].of = m
  <2>1. e = <<e[1], e[2]>>
    BY EdgeShape
  <2>2. e[2].of = m \/ e[2].kind = "activity"
    <3>1. CASE e[2] \in Rows(m, n)
      BY <3>1, RowShape
    <3>2. CASE \E t \in n.visible : e[2] = Activity(t)
      BY <3>2 DEF Activity, Node
    <3>3. QED
      BY <1>4, <3>1, <3>2
  <2>3. /\ e[1].of = m
        /\ e[1].kind \in {"model", "place", "transition", "marking"}
    BY <1>3, RowShape
  <2>4. QED
    BY <2>1, <2>2, <2>3 DEF EdgeOk
<1>6. e[1].kind # "model" => <<ModelNode(m), e[1]>> \in Edges(m, n)
  BY <1>2, <1>3 DEF ModelNode, Node
<1>7. QED
  BY <1>3, <1>4, <1>5, <1>6

-----------------------------------------------------------------------------
(* The kinds of rows that _delete_model_rows takes away.                    *)
Kinds == {"marking", "transition", "place", "model"}

(* A script deletes, merges, creates and links.                             *)
LEMMA StatementKinds ==
  ASSUME NEW m \in Models, NEW n \in Nets \cup {NoNet}, NEW st \in Script(m, n)
  PROVE  \/ \E kind \in Kinds : st = Delete(m, kind)
         \/ n \in Nets /\ \E t \in n.visible : st = Merge(Activity(t))
         \/ n \in Nets /\ \E y \in Rows(m, n) : st = Create(y)
         \/ n \in Nets /\ \E e \in Edges(m, n) : st = Link(e)
BY DEF Script, DeleteRows, Kinds

(* It has all the statements that its net calls for.                        *)
LEMMA ScriptHolds ==
  ASSUME NEW m \in Models, NEW n \in Nets \cup {NoNet}
  PROVE  /\ DeleteRows(m) \subseteq Script(m, n)
         /\ n \in Nets =>
              /\ \A t \in n.visible : Merge(Activity(t)) \in Script(m, n)
              /\ \A y \in Rows(m, n) : Create(y) \in Script(m, n)
              /\ \A e \in Edges(m, n) : Link(e) \in Script(m, n)
BY NetShape DEF Script

(* Statements of two kinds differ. *)
LEMMA StatementsDiffer ==
  ASSUME NEW m, NEW kind, NEW x, NEW y, NEW e
  PROVE  /\ Delete(m, kind) # Merge(x) /\ Delete(m, kind) # Create(x)
         /\ Delete(m, kind) # Link(e) /\ Merge(x) # Create(y)
         /\ Merge(x) # Link(e) /\ Create(x) # Link(e)
         /\ Create(x) = Create(y) => x = y
         /\ Merge(x) = Merge(y) => x = y
         /\ Link(x) = Link(y) => x = y
         /\ Delete(m, x) = Delete(m, y) => x = y
<1>1. /\ Delete(m, kind).do = "delete" /\ Merge(x).do = "merge"
      /\ Create(x).do = "create" /\ Create(y).do = "create" /\ Link(e).do = "link"
  BY DEF Delete, Merge, Create, Link
<1>2. /\ Create(x).node = x /\ Create(y).node = y /\ Merge(x).node = x
      /\ Merge(y).node = y /\ Link(x).edge = x /\ Link(y).edge = y
      /\ Delete(m, x).kind = x /\ Delete(m, y).kind = y
  BY DEF Delete, Merge, Create, Link
<1>3. QED
  BY <1>1, <1>2

(* What a statement does. *)
LEMMA StatementEffects ==
  ASSUME NEW db, NEW m, NEW kind, NEW node, NEW edge
  PROVE  /\ Effect(db, Merge(node)) = With(db, node)
         /\ Effect(db, Create(node)) = With(db, node)
         /\ Effect(db, Link(edge)) = Joined(db, edge)
         /\ Effect(db, Delete(m, kind)) = Without(db, Doomed(db, m, kind))
         /\ Rejected(db, Create(node)) <=> node \in db.nodes
         /\ ~Rejected(db, Merge(node)) /\ ~Rejected(db, Link(edge))
         /\ ~Rejected(db, Delete(m, kind))
<1>1. Effect(db, Merge(node)) = With(db, node)
  BY DEF Effect, Merge
<1>2. Effect(db, Create(node)) = With(db, node)
  BY DEF Effect, Create
<1>3. Effect(db, Link(edge)) = Joined(db, edge)
  BY DEF Effect, Link
<1>4. Effect(db, Delete(m, kind)) = Without(db, Doomed(db, m, kind))
  BY DEF Effect, Delete
<1>5. QED
  BY <1>1, <1>2, <1>3, <1>4 DEF Rejected, Delete, Merge, Create, Link

(* The loops. *)
LEMMA NodeOrder ==
  ASSUME NEW m, NEW p
  PROVE  /\ Inserted(ModelNode(m)) = 6 /\ Inserted(Place(m, p)) = 7
         /\ Inserted(Transition(m, p)) = 8
         /\ Inserted(Marking(m, "initial")) = 10 /\ Inserted(Marking(m, "final")) = 12
BY DEF Inserted, ModelNode, Place, Transition, Marking, Node

LEMMA EdgeOrder ==
  ASSUME NEW m, NEW p, NEW t, NEW y
  PROVE  /\ LinkOrder(ModelNode(m), y) = Inserted(y)
         /\ LinkOrder(Transition(m, t), Activity(t)) = 8
         /\ LinkOrder(Place(m, p), Transition(m, t)) = 9
         /\ LinkOrder(Transition(m, t), Place(m, p)) = 9
         /\ LinkOrder(Marking(m, "initial"), Place(m, p)) = 11
         /\ LinkOrder(Marking(m, "final"), Place(m, p)) = 13
<1>1. /\ Inserted(Transition(m, t)) = 8
      /\ Inserted(Marking(m, "initial")) = 10 /\ Inserted(Marking(m, "final")) = 12
  BY NodeOrder
<1>2. /\ ModelNode(m).kind = "model" /\ Transition(m, t).kind = "transition"
      /\ Place(m, p).kind = "place" /\ Activity(t).kind = "activity"
      /\ \A kind : Marking(m, kind).kind = "marking"
  BY DEF ModelNode, Place, Transition, Marking, Activity, Node
<1>3. QED
  BY <1>1, <1>2 DEF LinkOrder

(* The loop that a statement belongs to.                                    *)
LEMMA StatementOrder ==
  ASSUME NEW m, NEW node, NEW edge
  PROVE  /\ Order(Delete(m, "marking")) = 1 /\ Order(Delete(m, "transition")) = 2
         /\ Order(Delete(m, "place")) = 3 /\ Order(Delete(m, "model")) = 4
         /\ Order(Merge(node)) = 5
         /\ Order(Create(node)) = Inserted(node)
         /\ Order(Link(edge)) = LinkOrder(edge[1], edge[2])
<1>1. /\ Order(Delete(m, "marking")) = 1 /\ Order(Delete(m, "transition")) = 2
      /\ Order(Delete(m, "place")) = 3 /\ Order(Delete(m, "model")) = 4
  BY DEF Order, Delete
<1>2. Order(Merge(node)) = 5
  BY DEF Order, Merge
<1>3. Order(Create(node)) = Inserted(node)
  BY DEF Order, Create
<1>4. Order(Link(edge)) = LinkOrder(edge[1], edge[2])
  BY DEF Order, Link
<1>5. QED
  BY <1>1, <1>2, <1>3, <1>4

(* The model is the first of its rows.                                      *)
LEMMA RowOrder ==
  ASSUME NEW m \in Models, NEW n \in Nets, NEW y \in Rows(m, n)
  PROVE  /\ Inserted(y) \in {6, 7, 8, 10, 12}
         /\ Inserted(y) = 6 => y = ModelNode(m)
<1>1. CASE y = ModelNode(m)
  BY <1>1, NodeOrder
<1>2. CASE \E p : y = Place(m, p)
  BY <1>2, NodeOrder
<1>3. CASE \E t : y = Transition(m, t)
  BY <1>3, NodeOrder
<1>4. CASE \E kind \in {"initial", "final"} : y = Marking(m, kind)
  BY <1>4, NodeOrder
<1>5. QED
  BY <1>1, <1>2, <1>3, <1>4, RowShape

(* What a relationship waits for: the nodes it joins, and a node's label    *)
(* for the node's own edge from the model.                                  *)
LEMMA EdgeCases ==
  ASSUME NEW m \in Models, NEW n \in Nets, NEW e \in Edges(m, n)
  PROVE  \/ \E y \in Rows(m, n) \ {ModelNode(m)} :
              /\ e = <<ModelNode(m), y>>
              /\ Order(Link(e)) = Inserted(y) /\ Before(Link(e)) = {Create(y)}
         \/ \E t \in n.visible :
              /\ e = <<Transition(m, t), Activity(t)>>
              /\ Order(Link(e)) = 8
              /\ Before(Link(e)) = {Link(<<ModelNode(m), Transition(m, t)>>)}
         \/ /\ e = <<e[1], e[2]>> /\ e[1] \in Rows(m, n) /\ e[2] \in Rows(m, n)
            /\ e[1] # ModelNode(m) /\ Before(Link(e)) = {}
            /\ Order(Link(e)) \in 9..13
            /\ Inserted(e[1]) < Order(Link(e)) /\ Inserted(e[2]) < Order(Link(e))
<1>1. /\ Link(e).do = "link" /\ Link(e).edge = e
      /\ Order(Link(e)) = LinkOrder(e[1], e[2])
  BY StatementOrder DEF Link
<1>2. /\ ModelNode(m).kind = "model"
      /\ \A t : Transition(m, t).kind = "transition" /\ Transition(m, t).of = m
      /\ \A p : Place(m, p).kind = "place" /\ Activity(p).kind = "activity"
      /\ \A kind : Marking(m, kind).kind = "marking"
  BY DEF ModelNode, Transition, Place, Marking, Activity, Node
<1>3. CASE e = <<ModelNode(m), e[2]>> /\ e[2] \in Rows(m, n) \ {ModelNode(m)}
  <2>1. PICK y \in Rows(m, n) \ {ModelNode(m)} : e = <<ModelNode(m), y>>
    BY <1>3
  <2>2. e[1] = ModelNode(m) /\ e[2] = y
    BY <2>1
  <2>3. Order(Link(e)) = Inserted(y)
    BY <1>1, <2>2, EdgeOrder
  <2>4. Before(Link(e)) = {Create(y)}
    BY <1>1, <1>2, <2>2 DEF Before
  <2>5. QED
    BY <2>1, <2>3, <2>4
<1>4. CASE \E t \in n.visible : e = <<Transition(m, t), Activity(t)>>
  <2>1. PICK t \in n.visible : e = <<Transition(m, t), Activity(t)>>
    BY <1>4
  <2>2. e[1] = Transition(m, t) /\ e[2] = Activity(t)
    BY <2>1
  <2>3. Order(Link(e)) = 8
    BY <1>1, <2>2, EdgeOrder
  <2>4. Before(Link(e)) = {Link(<<ModelNode(m), Transition(m, t)>>)}
    BY <1>1, <1>2, <2>2 DEF Before
  <2>5. QED
    BY <2>1, <2>3, <2>4
<1>5. CASE \/ \E p \in n.places, t \in n.transitions : e = <<Place(m, p), Transition(m, t)>>
           \/ \E p \in n.places, t \in n.transitions : e = <<Transition(m, t), Place(m, p)>>
  <2>1. PICK p \in n.places, t \in n.transitions :
          e \in {<<Place(m, p), Transition(m, t)>>, <<Transition(m, t), Place(m, p)>>}
    BY <1>5
  <2>2. Place(m, p) \in Rows(m, n) /\ Transition(m, t) \in Rows(m, n)
    BY DEF Rows
  <2>3. Order(Link(e)) = 9
    BY <1>1, <2>1, EdgeOrder
  <2>4. Before(Link(e)) = {}
    BY <1>1, <1>2, <2>1 DEF Before
  <2>5. Inserted(Place(m, p)) = 7 /\ Inserted(Transition(m, t)) = 8
    BY NodeOrder
  <2>6. QED
    BY <1>2, <2>1, <2>2, <2>3, <2>4, <2>5
<1>6. CASE \/ \E p \in n.initial : e = <<Marking(m, "initial"), Place(m, p)>>
           \/ \E p \in n.final : e = <<Marking(m, "final"), Place(m, p)>>
  <2>1. PICK p \in n.places, kind \in {"initial", "final"} :
          e = <<Marking(m, kind), Place(m, p)>>
    BY <1>6, NetShape
  <2>2. /\ Place(m, p) \in Rows(m, n) /\ Marking(m, kind) \in Rows(m, n)
        /\ e[1] = Marking(m, kind) /\ e[2] = Place(m, p)
    BY <2>1 DEF Rows
  <2>3. Order(Link(e)) = IF kind = "initial" THEN 11 ELSE 13
    BY <1>1, <2>2, EdgeOrder
  <2>4. Before(Link(e)) = {}
    BY <1>1, <1>2, <2>2 DEF Before
  <2>5. Inserted(Place(m, p)) = 7
        /\ Inserted(Marking(m, kind)) = IF kind = "initial" THEN 10 ELSE 12
    BY NodeOrder
  <2>6. QED
    BY <1>2, <2>1, <2>2, <2>3, <2>4, <2>5
<1>7. QED
  BY <1>3, <1>4, <1>5, <1>6, EdgeShape

(* Deletions come before everything else.                                   *)
LEMMA ScriptOrder ==
  ASSUME NEW m \in Models, NEW n \in Nets \cup {NoNet}, NEW st \in Script(m, n)
  PROVE  \/ \E kind \in Kinds : st = Delete(m, kind) /\ Order(st) \in 1..4
         \/ n \in Nets /\ Order(st) \in 5..13 /\ \A kind \in Kinds : st # Delete(m, kind)
<1>1. CASE \E kind \in Kinds : st = Delete(m, kind)
  <2>1. \A kind \in Kinds : Order(Delete(m, kind)) \in 1..4
    BY StatementOrder DEF Kinds
  <2>2. QED
    BY <1>1, <2>1
<1>2. CASE n \in Nets /\ \E t \in n.visible : st = Merge(Activity(t))
  <2>1. Order(st) = 5
    BY <1>2, StatementOrder
  <2>2. QED
    BY <1>2, <2>1, StatementsDiffer
<1>3. CASE n \in Nets /\ \E y \in Rows(m, n) : st = Create(y)
  <2>1. PICK y \in Rows(m, n) : st = Create(y)
    BY <1>3
  <2>2. Order(st) = Inserted(y)
    BY <2>1, StatementOrder
  <2>3. Inserted(y) \in {6, 7, 8, 10, 12}
    BY <1>3, RowOrder
  <2>4. QED
    BY <1>3, <2>1, <2>2, <2>3, StatementsDiffer
<1>4. CASE n \in Nets /\ \E e \in Edges(m, n) : st = Link(e)
  <2>1. PICK e \in Edges(m, n) : st = Link(e)
    BY <1>4
  <2>2. \A y \in Rows(m, n) : Inserted(y) \in {6, 7, 8, 10, 12}
    BY <1>4, RowOrder
  <2>3. \/ \E y \in Rows(m, n) : Order(Link(e)) = Inserted(y)
        \/ Order(Link(e)) = 8
        \/ Order(Link(e)) \in 9..13
    BY <1>4, EdgeCases
  <2>4. QED
    BY <1>4, <2>1, <2>2, <2>3, StatementsDiffer
<1>5. QED
  BY <1>1, <1>2, <1>3, <1>4, StatementKinds

(* A statement is ready when what belongs before it has been executed and   *)
(* none that is left belongs to an earlier loop.                            *)
LEMMA ReadyFacts ==
  ASSUME Typed, Ordered, NEW st \in Ready
  PROVE  /\ task \in Models /\ st \in todo /\ st \in Script(task, net)
         /\ Before(st) \cap todo = {}
         /\ \A other \in todo : Order(st) <= Order(other)
<1>1. st \in todo /\ Before(st) \cap todo = {}
  BY DEF Ready, Due
<1>2. task \in Models /\ st \in Script(task, net)
  BY <1>1 DEF Typed
<1>3. CASE Due # {}
  <2>1. st \in Due
    BY <1>3 DEF Ready
  <2>2. PICK b \in Before(st) : b \notin todo
    BY <2>1 DEF Due
  <2>3. st.do = "link"
    BY <2>2 DEF Before
  <2>4. /\ net \in Nets /\ \E e \in Edges(task, net) : st = Link(e)
    BY <1>2, <2>3, StatementKinds DEF Typed, Delete, Merge, Create
  <2>5. PICK e \in Edges(task, net) : st = Link(e)
    BY <2>4
  <2>6. CASE \E y \in Rows(task, net) \ {ModelNode(task)} :
               /\ e = <<ModelNode(task), y>>
               /\ Order(Link(e)) = Inserted(y) /\ Before(Link(e)) = {Create(y)}
    <3>1. PICK y \in Rows(task, net) :
            Order(st) = Inserted(y) /\ b = Create(y)
      BY <2>2, <2>5, <2>6
    <3>2. Order(b) = Order(st) /\ b \in Script(task, net)
      BY <1>2, <2>4, <3>1, StatementOrder, ScriptHolds
    <3>3. QED
      BY <1>1, <1>2, <2>2, <3>2 DEF Ordered, Typed
  <2>7. CASE \E t \in net.visible :
               /\ e = <<Transition(task, t), Activity(t)>>
               /\ Order(Link(e)) = 8
               /\ Before(Link(e)) = {Link(<<ModelNode(task), Transition(task, t)>>)}
    <3>1. PICK t \in net.visible :
            /\ Order(st) = 8 /\ b = Link(<<ModelNode(task), Transition(task, t)>>)
      BY <2>2, <2>5, <2>7
    <3>2. <<ModelNode(task), Transition(task, t)>> \in Edges(task, net)
      <4>1. t \in net.transitions
        BY <2>4, NetShape
      <4>2. Transition(task, t) \in Rows(task, net) \ {ModelNode(task)}
        BY <4>1 DEF Rows, Transition, ModelNode, Node
      <4>3. QED
        BY <4>2 DEF Edges
    <3>3. Order(b) = 8
      BY <3>1, StatementOrder, EdgeOrder, NodeOrder
    <3>4. b \in Script(task, net)
      BY <1>2, <2>4, <3>1, <3>2, ScriptHolds
    <3>5. QED
      BY <1>1, <1>2, <2>2, <3>1, <3>3, <3>4 DEF Ordered, Typed
  <2>8. CASE Before(Link(e)) = {}
    BY <2>2, <2>5, <2>8
  <2>9. QED
    BY <1>2, <2>4, <2>6, <2>7, <2>8, EdgeCases
<1>4. CASE Due = {}
  BY <1>1, <1>2, <1>4 DEF Ready
<1>5. QED
  BY <1>3, <1>4


(* The kinds of statements that are ready, and what is through by then.     *)
LEMMA ReadyDelete ==
  ASSUME Typed, Ordered, NEW kind \in Kinds, Delete(task, kind) \in Ready
  PROVE  /\ kind # "marking" => Delete(task, "marking") \notin todo
         /\ kind \in {"place", "model"} => Delete(task, "transition") \notin todo
         /\ kind = "model" => Delete(task, "place") \notin todo
         /\ \A st \in Script(task, net) :
              (\A k \in Kinds : st # Delete(task, k)) => st \in todo
         /\ kind # "model" => Delete(task, "model") \in todo
<1>1. /\ task \in Models
      /\ \A other \in todo : Order(Delete(task, kind)) <= Order(other)
      /\ Delete(task, kind) \in todo
  BY ReadyFacts
<1>2. \A st \in Script(task, net) \ todo : Order(st) <= Order(Delete(task, kind))
  BY <1>1, KuzuAssumption DEF Ordered
<1>3. /\ Order(Delete(task, "marking")) = 1 /\ Order(Delete(task, "transition")) = 2
      /\ Order(Delete(task, "place")) = 3 /\ Order(Delete(task, "model")) = 4
  BY StatementOrder
<1>4. \A st \in Script(task, net) :
        (\A k \in Kinds : st # Delete(task, k)) => Order(st) \in 5..13
  BY <1>1, ScriptOrder DEF Typed
<1>5. Delete(task, "model") \in Script(task, net)
  BY DEF Script, DeleteRows
<1>6. /\ Order(Delete(task, kind)) \in 1..4
      /\ kind # "model" => Order(Delete(task, kind)) < 4
  BY <1>3 DEF Kinds
<1>7. ASSUME NEW st \in Script(task, net), \A k \in Kinds : st # Delete(task, k)
      PROVE  st \in todo
  BY <1>2, <1>4, <1>6, <1>7
<1>8. kind # "model" => Delete(task, "model") \in todo
  BY <1>2, <1>3, <1>5, <1>6
<1>9. QED
  BY <1>1, <1>3, <1>7, <1>8 DEF Kinds

(* When another statement than a deletion is ready, no deletion is left.    *)
LEMMA ReadyBuild ==
  ASSUME Typed, Ordered, NEW st \in Ready, \A k \in Kinds : st # Delete(task, k)
  PROVE  ~Deleting /\ net \in Nets
<1>1. /\ task \in Models /\ st \in Script(task, net)
      /\ \A other \in todo : Order(st) <= Order(other)
  BY ReadyFacts
<1>2. net \in Nets /\ Order(st) \in 5..13
  BY <1>1, ScriptOrder DEF Typed
<1>3. ASSUME NEW k \in Kinds, Delete(task, k) \in todo
      PROVE  FALSE
  <2>1. Order(Delete(task, k)) \in 1..4
    BY StatementOrder DEF Kinds
  <2>2. QED
    BY <1>1, <1>2, <1>3, <2>1
<1>4. QED
  BY <1>2, <1>3 DEF Deleting, DeleteRows, Kinds

-----------------------------------------------------------------------------
(* The nodes that can be told apart by kind and model.                      *)
LEMMA NodeFacts ==
  ASSUME NEW y \in AllNodes
  PROVE  /\ y.of \in Models <=> y.kind # "activity"
         /\ y.kind \in {"model", "place", "transition", "marking", "activity"}
         /\ y.kind = "model" => y = ModelNode(y.of)
<1>1. CASE \E t \in Transitions : y = Activity(t)
  BY <1>1, KuzuAssumption DEF Activity, Node
<1>2. CASE \E m \in Models : y \in NodesOf(m)
  <2>1. PICK m \in Models : y \in NodesOf(m)
    BY <1>2
  <2>2. \/ y = ModelNode(m) \/ \E p \in Places : y = Place(m, p)
        \/ \E t \in Transitions : y = Transition(m, t)
        \/ \E kind \in {"initial", "final"} : y = Marking(m, kind)
    BY <2>1 DEF NodesOf
  <2>3. QED
    BY <2>2 DEF ModelNode, Place, Transition, Marking, Node
<1>3. (\E t \in Transitions : y = Activity(t)) \/ (\E m \in Models : y \in NodesOf(m))
  BY DEF AllNodes
<1>4. QED
  BY <1>1, <1>2, <1>3, Zenon

(* The same, as one value. *)
Part(db, m) == [nodes |-> {y \in db.nodes : y.of = m}, edges |-> EdgesOf(db, m)]

LEMMA ModelNodeOf ==
  ASSUME NEW m
  PROVE  ModelNode(m).of = m /\ ModelNode(m).kind = "model"
BY DEF ModelNode, Node

(* A model is read from its part alone. *)
LEMMA ReadFromPart ==
  ASSUME NEW a, NEW b, Sound(a), Sound(b), NEW m \in Models, Part(a, m) = Part(b, m)
  PROVE  ReadNet(a, m) = ReadNet(b, m) /\ (Tidy(a, m) => Tidy(b, m))
<1>1. /\ \A y : y.of = m => (y \in a.nodes <=> y \in b.nodes)
      /\ \A e : e[1].of = m => (e \in a.edges <=> e \in b.edges)
  <2>1. /\ {y \in a.nodes : y.of = m} = {y \in b.nodes : y.of = m}
        /\ EdgesOf(a, m) = EdgesOf(b, m)
    BY DEF Part
  <2>2. QED
    BY <2>1 DEF EdgesOf
<1>2. ModelNode(m) \in a.nodes <=> ModelNode(m) \in b.nodes
  BY <1>1, ModelNodeOf
<1>3. \A y : <<ModelNode(m), y>> \in a.edges <=> <<ModelNode(m), y>> \in b.edges
  <2>1. TAKE y
  <2>2. <<ModelNode(m), y>>[1].of = m
    BY ModelNodeOf
  <2>3. QED
    BY <1>1, <2>2
<1>4. \A kind \in {"place", "transition"} : Attached(a, m, kind) = Attached(b, m, kind)
  <2>1. TAKE kind \in {"place", "transition"}
  <2>2. ASSUME NEW y, <<ModelNode(m), y>> \in a.edges, y.kind = kind
        PROVE  y.of = m
    BY <2>2, ModelNodeOf DEF Sound, EdgeOk
  <2>3. QED
    BY <1>1, <1>3, <2>2 DEF Attached
<1>5. \A x, y : x.of = m => (<<x, y>> \in a.edges <=> <<x, y>> \in b.edges)
  <2>1. TAKE x, y
  <2>2. <<x, y>>[1] = x
    OBVIOUS
  <2>3. QED
    BY <1>1, <2>2
<1>6. \A id : Place(m, id).of = m /\ Transition(m, id).of = m /\ Marking(m, id).of = m
  BY DEF Place, Transition, Marking, Node
<1>7. \A kind : Marked(a, m, kind) = Marked(b, m, kind)
  BY <1>3, <1>5, <1>6 DEF Marked
<1>8. ReadNet(a, m) = ReadNet(b, m)
  <2> DEFINE ps == {y.id : y \in Attached(a, m, "place")}
             ts == {y.id : y \in Attached(a, m, "transition")}
  <2>1. {t \in ts : <<Transition(m, t), Activity(t)>> \in a.edges}
          = {t \in ts : <<Transition(m, t), Activity(t)>> \in b.edges}
    BY <1>5, <1>6
  <2>2. {x \in ps \X ts : <<Place(m, x[1]), Transition(m, x[2])>> \in a.edges}
          = {x \in ps \X ts : <<Place(m, x[1]), Transition(m, x[2])>> \in b.edges}
    BY <1>5, <1>6
  <2>3. {x \in ts \X ps : <<Transition(m, x[1]), Place(m, x[2])>> \in a.edges}
          = {x \in ts \X ps : <<Transition(m, x[1]), Place(m, x[2])>> \in b.edges}
    BY <1>5, <1>6
  <2>4. /\ ps = {y.id : y \in Attached(b, m, "place")}
        /\ ts = {y.id : y \in Attached(b, m, "transition")}
    BY <1>4
  <2>5. CASE ModelNode(m) \notin a.nodes
    BY <1>2, <2>5 DEF ReadNet
  <2>6. CASE ModelNode(m) \in a.nodes
    <3> DEFINE Read(db, seen, out, in) ==
          [places |-> ps, transitions |-> ts, visible |-> seen, arcs |-> in \cup out,
           initial |-> Marked(db, m, "initial"), final |-> Marked(db, m, "final")]
    <3>1. ReadNet(a, m) =
            Read(a, {t \in ts : <<Transition(m, t), Activity(t)>> \in a.edges},
                 {x \in ts \X ps : <<Transition(m, x[1]), Place(m, x[2])>> \in a.edges},
                 {x \in ps \X ts : <<Place(m, x[1]), Transition(m, x[2])>> \in a.edges})
      BY <2>6 DEF ReadNet
    <3>2. ReadNet(b, m) =
            Read(b, {t \in ts : <<Transition(m, t), Activity(t)>> \in b.edges},
                 {x \in ts \X ps : <<Transition(m, x[1]), Place(m, x[2])>> \in b.edges},
                 {x \in ps \X ts : <<Place(m, x[1]), Transition(m, x[2])>> \in b.edges})
      BY <1>2, <2>4, <2>6 DEF ReadNet
    <3>3. QED
      BY <1>7, <2>1, <2>2, <2>3, <3>1, <3>2
  <2>7. QED
    BY <2>5, <2>6
<1>9. Tidy(a, m) => Tidy(b, m)
  BY <1>1, <1>3 DEF Tidy
<1>10. QED
  BY <1>8, <1>9

(* In an empty database no model is shown.                                  *)
LEMMA NothingThere ==
  ASSUME NEW m \in Models
  PROVE  ReadNet(NoRows, m) = NoNet /\ Tidy(NoRows, m) /\ Sound(NoRows)
BY DEF ReadNet, NoRows, Tidy, Sound

(* Deletes take rows of their model with the edges at them, and keep the    *)
(* rest sound.                                                              *)
LEMMA DeleteKeeps ==
  ASSUME NEW db, Sound(db), NEW m \in Models, NEW kind \in Kinds,
         kind = "model" => /\ Attached(db, m, "place") = {}
                           /\ Attached(db, m, "transition") = {}
  PROVE  LET left == Without(db, Doomed(db, m, kind))
         IN  /\ \A y \in Doomed(db, m, kind) : y.of = m /\ y.kind = kind
             /\ Sound(left)
             /\ \A x \in Models \ {m} : Part(left, x) = Part(db, x)
<1> DEFINE gone == Doomed(db, m, kind)
           left == Without(db, gone)
<1>1. \A y \in gone : y.of = m /\ y.kind = kind
  <2>1. CASE kind \in {"marking", "model"}
    BY <2>1 DEF Doomed
  <2>2. CASE kind \in {"place", "transition"}
    <3>1. gone = Attached(db, m, kind)
      BY <2>2 DEF Doomed
    <3>2. QED
      BY <2>2, <3>1, ModelNodeOf DEF Attached, Sound, EdgeOk
  <2>3. QED
    BY <2>1, <2>2 DEF Kinds
<1>2. /\ left.nodes = db.nodes \ gone
      /\ left.edges = {e \in db.edges : e[1] \notin gone /\ e[2] \notin gone}
  BY DEF Without
<1>3. ASSUME NEW e \in left.edges, e[1].kind \in {"place", "transition"}
      PROVE  <<ModelNode(e[1].of), e[1]>> \in left.edges
  <2>1. /\ e \in db.edges /\ e[1] \notin gone /\ e[1] \in db.nodes
        /\ <<ModelNode(e[1].of), e[1]>> \in db.edges
    BY <1>2, <1>3 DEF Sound
  <2>2. ModelNode(e[1].of) \notin gone
    <3>1. SUFFICES ASSUME ModelNode(e[1].of) \in gone
                   PROVE  FALSE
      OBVIOUS
    <3>2. e[1].of = m /\ kind = "model"
      BY <1>1, <3>1, ModelNodeOf
    <3>3. e[1] \in Attached(db, m, e[1].kind)
      BY <2>1, <3>2 DEF Attached
    <3>4. QED
      BY <1>3, <3>2, <3>3
  <2>3. QED
    BY <1>2, <2>1, <2>2
<1>4. Sound(left)
  BY <1>2, <1>3 DEF Sound
<1>5. ASSUME NEW x \in Models \ {m}
      PROVE  Part(left, x) = Part(db, x)
  <2>1. {y \in left.nodes : y.of = x} = {y \in db.nodes : y.of = x}
    BY <1>1, <1>2
  <2>2. ASSUME NEW e \in db.edges, e[1].of = x
        PROVE  e \in left.edges
    BY <1>1, <1>2, <2>2 DEF Sound, EdgeOk, Kinds
  <2>3. EdgesOf(left, x) = EdgesOf(db, x)
    BY <1>2, <2>2 DEF EdgesOf
  <2>4. QED
    BY <2>1, <2>3 DEF Part
<1>6. QED
  BY <1>1, <1>4, <1>5

(* A node that is added changes the part of its own model only.             *)
LEMMA NodeKeeps ==
  ASSUME NEW db, Sound(db), NEW y \in AllNodes
  PROVE  /\ Sound(With(db, y))
         /\ With(db, y).edges = db.edges /\ With(db, y).nodes = db.nodes \cup {y}
         /\ \A x \in Models : y.of # x => Part(With(db, y), x) = Part(db, x)
<1>1. With(db, y).edges = db.edges /\ With(db, y).nodes = db.nodes \cup {y}
  BY DEF With
<1>2. Sound(With(db, y))
  BY <1>1 DEF Sound
<1>3. \A x \in Models : y.of # x => Part(With(db, y), x) = Part(db, x)
  BY <1>1 DEF Part, EdgesOf
<1>4. QED
  BY <1>1, <1>2, <1>3

(* So does a relationship.                                                  *)
LEMMA LinkKeeps ==
  ASSUME NEW db, Sound(db), NEW e, EdgeOk(e), {e[1], e[2]} \subseteq db.nodes,
         e[1].kind \in {"place", "transition"} =>
           <<ModelNode(e[1].of), e[1]>> \in db.edges
  PROVE  /\ Sound(Joined(db, e))
         /\ Joined(db, e).nodes = db.nodes /\ Joined(db, e).edges = db.edges \cup {e}
         /\ \A x \in Models : e[1].of # x => Part(Joined(db, e), x) = Part(db, x)
<1>1. Joined(db, e).nodes = db.nodes /\ Joined(db, e).edges = db.edges \cup {e}
  BY DEF Joined
<1>2. Sound(Joined(db, e))
  BY <1>1 DEF Sound
<1>3. \A x \in Models : e[1].of # x => Part(Joined(db, e), x) = Part(db, x)
  BY <1>1 DEF Part, EdgesOf
<1>4. QED
  BY <1>1, <1>2, <1>3

-----------------------------------------------------------------------------
(* When a relationship is due both its ends are there, and an arc's or a    *)
(* label's node is attached to its model.                                   *)
LEMMA LinkReady ==
  ASSUME Typed, Ordered, Sound(store), Built,
         NEW e \in Edges(task, net), Link(e) \in Ready
  PROVE  /\ {e[1], e[2]} \subseteq store.nodes
         /\ e[1].kind \in {"place", "transition"} =>
              <<ModelNode(e[1].of), e[1]>> \in store.edges
<1>1. /\ task \in Models /\ Link(e) \in todo /\ Link(e) \in Script(task, net)
      /\ Before(Link(e)) \cap todo = {}
      /\ \A other \in todo : Order(Link(e)) <= Order(other)
  BY ReadyFacts
<1>2. ~Deleting /\ net \in Nets
  BY ReadyBuild, StatementsDiffer
<1>3. task # NoModel
  BY <1>1, KuzuAssumption
<1>4. \A y \in Rows(task, net) : Create(y) \notin todo => y \in store.nodes
  BY <1>2, <1>3, NetShape DEF Built, Made
<1>5. \A x \in Edges(task, net) : Link(x) \notin todo => x \in store.edges
  BY <1>2, <1>3, NetShape DEF Built, Laid, EdgesOf
<1>6. ModelNode(task) \in Rows(task, net)
  BY DEF Rows
<1>7. \A y \in Rows(task, net) : Order(Create(y)) = Inserted(y)
  BY StatementOrder
<1>8. \A y \in Rows(task, net) : Inserted(y) \in 6..12
  BY <1>1, <1>2, RowOrder
<1>9. ASSUME NEW y \in Rows(task, net), Order(Link(e)) \in 6..13, Inserted(y) < Order(Link(e))
      PROVE  y \in store.nodes
  BY <1>1, <1>4, <1>7, <1>8, <1>9
<1>10. CASE \E y \in Rows(task, net) \ {ModelNode(task)} :
              /\ e = <<ModelNode(task), y>>
              /\ Order(Link(e)) = Inserted(y) /\ Before(Link(e)) = {Create(y)}
  <2>1. PICK y \in Rows(task, net) \ {ModelNode(task)} :
              /\ e = <<ModelNode(task), y>>
              /\ Order(Link(e)) = Inserted(y) /\ Before(Link(e)) = {Create(y)}
    BY <1>10
  <2>2. y \in store.nodes
    BY <1>1, <1>4, <2>1
  <2>3. Inserted(ModelNode(task)) = 6 /\ Inserted(y) \in 7..12
    BY <1>1, <1>2, NodeOrder, RowOrder
  <2>4. ModelNode(task) \in store.nodes
    BY <1>6, <1>9, <2>1, <2>3
  <2>5. e[1] = ModelNode(task) /\ e[2] = y
    BY <2>1
  <2>6. QED
    BY <2>2, <2>4, <2>5, ModelNodeOf
<1>11. CASE \E t \in net.visible :
              /\ e = <<Transition(task, t), Activity(t)>>
              /\ Order(Link(e)) = 8
              /\ Before(Link(e)) = {Link(<<ModelNode(task), Transition(task, t)>>)}
  <2>1. PICK t \in net.visible :
              /\ e = <<Transition(task, t), Activity(t)>>
              /\ Order(Link(e)) = 8
              /\ Before(Link(e)) = {Link(<<ModelNode(task), Transition(task, t)>>)}
    BY <1>11
  <2>2. e[1] = Transition(task, t) /\ e[2] = Activity(t)
    BY <2>1
  <2>3. /\ e[1].of = task /\ e[1].kind = "transition"
        /\ <<ModelNode(task), e[1]>> \in Edges(task, net)
    <3>1. e[1].of = task /\ e[1].kind = "transition"
      BY <2>2 DEF Transition, Node
    <3>2. QED
      BY <1>1, <1>2, <3>1, EdgeEnds
  <2>4. <<ModelNode(task), e[1]>> \in store.edges
    BY <1>1, <1>5, <2>1, <2>2, <2>3
  <2>5. e[1] \in store.nodes
    BY <2>4 DEF Sound
  <2>6. Merge(Activity(t)) \notin todo
    BY <1>1, <2>1, StatementOrder
  <2>7. Activity(t) \in store.nodes
    BY <1>2, <1>3, <2>1, <2>6, NetShape DEF Built
  <2>8. QED
    BY <2>2, <2>3, <2>4, <2>5, <2>7
<1>12. CASE /\ e = <<e[1], e[2]>> /\ e[1] \in Rows(task, net) /\ e[2] \in Rows(task, net)
            /\ e[1] # ModelNode(task) /\ Before(Link(e)) = {}
            /\ Order(Link(e)) \in 9..13
            /\ Inserted(e[1]) < Order(Link(e)) /\ Inserted(e[2]) < Order(Link(e))
  <2>1. {e[1], e[2]} \subseteq store.nodes
    BY <1>9, <1>12
  <2>2. ASSUME e[1].kind \in {"place", "transition"}
        PROVE  <<ModelNode(e[1].of), e[1]>> \in store.edges
    <3>1. e[1].of = task /\ <<ModelNode(task), e[1]>> \in Edges(task, net)
      BY <1>1, <1>2, <2>2, EdgeEnds
    <3>2. Inserted(e[1]) \in {7, 8}
      <4>1. \/ \E p : e[1] = Place(task, p)
            \/ \E t : e[1] = Transition(task, t)
        BY <1>1, <1>2, <1>12, <2>2, RowShape
      <4>2. QED
        BY <4>1, NodeOrder
    <3>3. Order(Link(<<ModelNode(task), e[1]>>)) = Inserted(e[1])
      BY StatementOrder, EdgeOrder
    <3>4. Link(<<ModelNode(task), e[1]>>) \notin todo
      BY <1>1, <1>12, <3>2, <3>3
    <3>5. QED
      BY <1>5, <3>1, <3>4
  <2>3. QED
    BY <2>1, <2>2
<1>13. QED
  BY <1>1, <1>2, <1>10, <1>11, <1>12, EdgeCases

(* What executing a statement leaves alone. *)
LEMMA EffectKeeps ==
  ASSUME Typed, Ordered, Sound(store), Deleted, Built, NEW st \in Ready
  PROVE  /\ Sound(Effect(store, st))
         /\ \A x \in Models \ {task} : Part(Effect(store, st), x) = Part(store, x)
<1>1. task \in Models /\ task # NoModel /\ st \in todo /\ st \in Script(task, net)
  BY ReadyFacts, KuzuAssumption
<1>2. CASE \E kind \in Kinds : st = Delete(task, kind)
  <2>1. PICK kind \in Kinds : st = Delete(task, kind)
    BY <1>2
  <2>2. ASSUME kind = "model"
        PROVE  Attached(store, task, "place") = {} /\ Attached(store, task, "transition") = {}
    <3>1. Deleting
      BY <1>1, <2>1 DEF Deleting, DeleteRows, Kinds
    <3>2. Delete(task, "place") \notin todo /\ Delete(task, "transition") \notin todo
      BY <2>1, <2>2, ReadyDelete
    <3>3. QED
      BY <1>1, <3>1, <3>2 DEF Deleted
  <2>3. Effect(store, st) = Without(store, Doomed(store, task, kind))
    BY <2>1, StatementEffects
  <2>4. QED
    BY <1>1, <2>2, <2>3, DeleteKeeps
<1>3. CASE net \in Nets /\ \E t \in net.visible : st = Merge(Activity(t))
  <2>1. PICK t \in net.visible : st = Merge(Activity(t))
    BY <1>3
  <2>2. Activity(t) \in AllNodes /\ Activity(t).of = Shared
    <3>1. t \in Transitions
      BY <1>3, NetShape
    <3>2. QED
      BY <3>1 DEF AllNodes, Activity, Node
  <2>3. Effect(store, st) = With(store, Activity(t))
    BY <2>1, StatementEffects
  <2>4. QED
    BY <2>2, <2>3, NodeKeeps, KuzuAssumption
<1>4. CASE net \in Nets /\ \E y \in Rows(task, net) : st = Create(y)
  <2>1. PICK y \in Rows(task, net) : st = Create(y)
    BY <1>4
  <2>2. y \in AllNodes /\ y.of = task
    BY <1>1, <1>4, RowShape
  <2>3. Effect(store, st) = With(store, y)
    BY <2>1, StatementEffects
  <2>4. QED
    BY <2>2, <2>3, NodeKeeps
<1>5. CASE net \in Nets /\ \E e \in Edges(task, net) : st = Link(e)
  <2>1. PICK e \in Edges(task, net) : st = Link(e)
    BY <1>5
  <2>2. EdgeOk(e) /\ e[1].of = task
    BY <1>1, <1>5, EdgeEnds
  <2>3. Effect(store, st) = Joined(store, e)
    BY <2>1, StatementEffects
  <2>4. /\ {e[1], e[2]} \subseteq store.nodes
        /\ e[1].kind \in {"place", "transition"} =>
             <<ModelNode(e[1].of), e[1]>> \in store.edges
    BY <2>1, LinkReady
  <2>5. QED
    BY <2>2, <2>3, <2>4, LinkKeeps
<1>6. QED
  BY <1>1, <1>2, <1>3, <1>4, <1>5, StatementKinds DEF Typed

(* What a statement that is executed does to the variables. *)
Executed(st) ==
  /\ st \in Ready /\ ~Rejected(store, st)
  /\ store' = Effect(store, st) /\ todo' = todo \ {st}
  /\ task' = task /\ net' = net /\ cutShort' = cutShort

(* A deletion, but for the last.                                            *)
LEMMA ExecuteDeleted ==
  ASSUME Typed, Ordered, Sound(store), Deleted, NEW st, Executed(st), Deleting'
  PROVE  Deleted'
<1>1. /\ st \in Ready /\ store' = Effect(store, st) /\ todo' = todo \ {st}
      /\ task' = task /\ cutShort' = cutShort
  BY DEF Executed
<1>2. task \in Models /\ task # NoModel /\ st \in todo
  BY <1>1, ReadyFacts, KuzuAssumption
<1>3. Deleting
  BY <1>1 DEF Deleting
<1>4. PICK kind \in Kinds : st = Delete(task, kind)
  BY <1>1, <1>3, ReadyBuild
<1>5. kind # "model"
  <2>1. SUFFICES ASSUME kind = "model"
                 PROVE  FALSE
    OBVIOUS
  <2>2. \A k \in Kinds \ {"model"} : Delete(task, k) \notin todo
    BY <1>1, <1>4, <2>1, ReadyDelete DEF Kinds
  <2>3. DeleteRows(task) \cap todo' = {}
    BY <1>1, <1>4, <2>1, <2>2 DEF DeleteRows, Kinds
  <2>4. QED
    BY <1>1, <2>3 DEF Deleting
<1> DEFINE gone == Doomed(store, task, kind)
<1>6. /\ store'.nodes = store.nodes \ gone
      /\ store'.edges = {e \in store.edges : e[1] \notin gone /\ e[2] \notin gone}
  <2>1. store' = Without(store, gone)
    BY <1>1, <1>4, StatementEffects
  <2>2. QED
    BY <2>1 DEF Without
<1>7. \A y \in gone : y.kind = kind
  BY <1>2, <1>5, DeleteKeeps
<1>8. \A k \in Kinds \ {kind} : Delete(task, k) \notin todo' => Delete(task, k) \notin todo
  BY <1>1, <1>4, StatementsDiffer
<1>9. Delete(task, "marking") \notin todo' => NodesLike(store', task, "marking") = {}
  <2>1. CASE kind = "marking"
    BY <1>6, <2>1 DEF NodesLike, Doomed
  <2>2. CASE kind # "marking"
    BY <1>2, <1>3, <1>6, <1>8, <2>2 DEF NodesLike, Deleted, Kinds
  <2>3. QED
    BY <2>1, <2>2
<1>10. ASSUME NEW k \in {"transition", "place"}, Delete(task, k) \notin todo'
       PROVE  Attached(store', task, k) = {}
  <2>1. Attached(store', task, k) \subseteq Attached(store, task, k)
    BY <1>6 DEF Attached
  <2>2. CASE kind = k
    <3>1. gone = Attached(store, task, k)
      BY <2>2 DEF Doomed
    <3>2. Attached(store', task, k) \cap gone = {}
      BY <1>6 DEF Attached
    <3>3. QED
      BY <2>1, <3>1, <3>2
  <2>3. CASE kind # k
    <3>1. Delete(task, k) \notin todo
      BY <1>8, <1>10, <2>3 DEF Kinds
    <3>2. Attached(store, task, k) = {}
      BY <1>2, <1>3, <3>1 DEF Deleted
    <3>3. QED
      BY <2>1, <3>2
  <2>4. QED
    BY <2>2, <2>3
<1>11. ~cutShort => Tidy(store', task)
  <2>1. SUFFICES ASSUME ~cutShort, NEW y \in store'.nodes, y.of = task,
                        y.kind \in {"place", "transition"}
                 PROVE  <<ModelNode(task), y>> \in store'.edges
    BY DEF Tidy
  <2>2. <<ModelNode(task), y>> \in store.edges
    BY <1>2, <1>3, <1>6, <2>1 DEF Deleted, Tidy
  <2>3. ModelNode(task) \notin gone /\ y \notin gone
    BY <1>5, <1>6, <1>7, <2>1, ModelNodeOf
  <2>4. QED
    BY <1>6, <2>2, <2>3
<1>12. /\ Delete(task, "transition") \notin todo' => Attached(store', task, "transition") = {}
       /\ Delete(task, "place") \notin todo' => Attached(store', task, "place") = {}
  BY <1>10
<1>13. QED
  BY <1>1, <1>9, <1>11, <1>12 DEF Deleted

(* The last delete leaves nothing of the model but nodes that a cut left    *)
(* unattached.                                                              *)
LEMMA LastDelete ==
  ASSUME Typed, Ordered, Sound(store), Deleted, NEW st, Executed(st), Deleting, ~Deleting'
  PROVE  Built'
<1>1. /\ st \in Ready /\ store' = Effect(store, st) /\ todo' = todo \ {st}
      /\ task' = task /\ cutShort' = cutShort /\ net' = net
  BY DEF Executed
<1>2. task \in Models /\ task # NoModel /\ st \in todo
  BY <1>1, ReadyFacts, KuzuAssumption
<1>3. PICK kind \in Kinds : st = Delete(task, kind)
  BY <1>1, ReadyBuild
<1>4. kind = "model"
  <2>1. SUFFICES ASSUME kind # "model"
                 PROVE  FALSE
    OBVIOUS
  <2>2. Delete(task, "model") \in todo'
    BY <1>1, <1>3, <2>1, ReadyDelete, StatementsDiffer
  <2>3. QED
    BY <1>1, <2>2 DEF Deleting, DeleteRows
<1>5. /\ NodesLike(store, task, "marking") = {}
      /\ Attached(store, task, "transition") = {} /\ Attached(store, task, "place") = {}
      /\ ~cutShort => Tidy(store, task)
  BY <1>1, <1>2, <1>3, <1>4, ReadyDelete DEF Deleted
<1> DEFINE gone == {y \in store.nodes : y.kind = "model" /\ y.of = task}
<1>6. /\ store'.nodes = store.nodes \ gone
      /\ store'.edges = {e \in store.edges : e[1] \notin gone /\ e[2] \notin gone}
  <2>1. store' = Without(store, Doomed(store, task, "model"))
    BY <1>1, <1>3, <1>4, StatementEffects
  <2>2. Doomed(store, task, "model") = gone
    BY DEF Doomed
  <2>3. QED
    BY <2>1, <2>2 DEF Without
<1>7. ASSUME NEW e \in store'.edges, e[1].of = task
      PROVE  FALSE
  <2>1. /\ e \in store.edges /\ e[1] \in store.nodes /\ e[1] \notin gone
        /\ e[1].kind \in {"model", "place", "transition", "marking"}
        /\ e[1].kind \in {"place", "transition"} => <<ModelNode(task), e[1]>> \in store.edges
    BY <1>6, <1>7 DEF Sound, EdgeOk
  <2>2. e[1].kind # "model"
    BY <1>7, <2>1
  <2>3. e[1].kind # "marking"
    BY <1>5, <1>7, <2>1 DEF NodesLike
  <2>4. e[1].kind \in {"place", "transition"} => e[1] \in Attached(store, task, e[1].kind)
    BY <2>1 DEF Attached
  <2>5. QED
    BY <1>5, <2>1, <2>2, <2>3, <2>4
<1>8. EdgesOf(store', task) = {}
  BY <1>7 DEF EdgesOf
<1>9. \A s \in Script(task, net) : (\A k \in Kinds : s # Delete(task, k)) => s \in todo'
  BY <1>1, <1>3, ReadyDelete
<1>10. net \in Nets => /\ \A e \in Edges(task, net) : Link(e) \in todo'
                       /\ \A y \in Rows(task, net) : Create(y) \in todo'
                       /\ \A t \in net.visible : Merge(Activity(t)) \in todo'
  <2>1. SUFFICES ASSUME net \in Nets
                 PROVE  /\ \A e \in Edges(task, net) : Link(e) \in todo'
                        /\ \A y \in Rows(task, net) : Create(y) \in todo'
                        /\ \A t \in net.visible : Merge(Activity(t)) \in todo'
    OBVIOUS
  <2>2. /\ \A e \in Edges(task, net) : Link(e) \in Script(task, net)
        /\ \A y \in Rows(task, net) : Create(y) \in Script(task, net)
        /\ \A t \in net.visible : Merge(Activity(t)) \in Script(task, net)
    BY <1>2, <2>1, ScriptHolds
  <2>3. QED
    BY <1>9, <2>2, StatementsDiffer
<1>11. /\ \A e \in Laid(task, net) : Link(e) \in todo'
       /\ \A y \in Made(task, net) : Create(y) \in todo'
  BY <1>10 DEF Laid, Made, Typed
<1>12. ASSUME NEW y \in store'.nodes, y.of = task,
              y.kind \in {"model", "marking"} \/ ~cutShort
       PROVE  FALSE
  <2>1. y \in store.nodes /\ y \notin gone /\ y \in AllNodes
    BY <1>6 DEF Sound
  <2>2. y.kind # "model"
    BY <1>12, <2>1
  <2>3. y.kind # "marking"
    BY <1>5, <1>12, <2>1 DEF NodesLike
  <2>4. y.kind \in {"place", "transition"} /\ ~cutShort
    BY <1>2, <1>12, <2>1, <2>2, <2>3, NodeFacts
  <2>5. y \in Attached(store, task, y.kind)
    BY <1>5, <1>12, <2>1, <2>4 DEF Tidy, Attached
  <2>6. QED
    BY <1>5, <2>4, <2>5
<1>13. net # NoNet => \A t \in net.visible : Merge(Activity(t)) \in todo'
  BY <1>10 DEF Typed
<1>14. QED
  BY <1>1, <1>8, <1>11, <1>12, <1>13 DEF Built

(* A net's rows and relationships, one statement after the other. *)
LEMMA ExecuteBuilt ==
  ASSUME Typed, Ordered, Sound(store), Deleted, Built, NEW st, Executed(st), ~Deleting
  PROVE  Built' /\ ~Deleting'
<1>1. /\ st \in Ready /\ ~Rejected(store, st)
      /\ store' = Effect(store, st) /\ todo' = todo \ {st}
      /\ task' = task /\ cutShort' = cutShort /\ net' = net
  BY DEF Executed
<1>2. task \in Models /\ task # NoModel /\ st \in todo /\ st \in Script(task, net)
  BY <1>1, ReadyFacts, KuzuAssumption
<1>3. /\ EdgesOf(store, task) = {e \in Laid(task, net) : Link(e) \notin todo}
      /\ \A y \in Made(task, net) : Create(y) \notin todo => y \in store.nodes
      /\ \A y \in store.nodes :
           y.of = task /\ (y.kind \in {"model", "marking"} \/ ~cutShort) =>
             y \in Made(task, net) /\ Create(y) \notin todo
      /\ net # NoNet => \A t \in net.visible :
           Merge(Activity(t)) \notin todo => Activity(t) \in store.nodes
  BY <1>2 DEF Built
<1>4. ~Deleting'
  BY <1>1 DEF Deleting
<1>5. \A k \in Kinds : st # Delete(task, k)
  BY <1>2 DEF Deleting, DeleteRows, Kinds
<1>6. CASE net \in Nets /\ \E t \in net.visible : st = Merge(Activity(t))
  <2>1. PICK t \in net.visible : st = Merge(Activity(t))
    BY <1>6
  <2>2. store' = With(store, Activity(t))
    BY <1>1, <2>1, StatementEffects
  <2>3. store'.edges = store.edges /\ store'.nodes = store.nodes \cup {Activity(t)}
    BY <2>2 DEF With
  <2>4. Activity(t).of # task
    BY <1>2, KuzuAssumption DEF Activity, Node
  <2>5. EdgesOf(store', task) = {e \in Laid(task, net) : Link(e) \notin todo'}
    BY <1>1, <1>3, <2>1, <2>3, StatementsDiffer DEF EdgesOf
  <2>6. \A y \in Made(task, net) : Create(y) \notin todo' => y \in store'.nodes
    BY <1>1, <1>3, <2>1, <2>3, StatementsDiffer
  <2>7. \A y \in store'.nodes :
          y.of = task /\ (y.kind \in {"model", "marking"} \/ ~cutShort) =>
            y \in Made(task, net) /\ Create(y) \notin todo'
    BY <1>1, <1>3, <2>3, <2>4
  <2>8. \A s \in net.visible :
          Merge(Activity(s)) \notin todo' => Activity(s) \in store'.nodes
    BY <1>1, <1>3, <1>6, <2>1, <2>3, StatementsDiffer, NetShape
  <2>9. QED
    BY <1>1, <1>4, <2>5, <2>6, <2>7, <2>8 DEF Built
<1>7. CASE net \in Nets /\ \E y \in Rows(task, net) : st = Create(y)
  <2>1. PICK x \in Rows(task, net) : st = Create(x)
    BY <1>7
  <2>2. store' = With(store, x)
    BY <1>1, <2>1, StatementEffects
  <2>3. store'.edges = store.edges /\ store'.nodes = store.nodes \cup {x}
    BY <2>2 DEF With
  <2>4. x \in Made(task, net)
    BY <1>7, <2>1, NetShape DEF Made
  <2>5. EdgesOf(store', task) = {e \in Laid(task, net) : Link(e) \notin todo'}
    BY <1>1, <1>3, <2>1, <2>3, StatementsDiffer DEF EdgesOf
  <2>6. \A y \in Made(task, net) : Create(y) \notin todo' => y \in store'.nodes
    BY <1>1, <1>3, <2>1, <2>3, StatementsDiffer
  <2>7. \A y \in store'.nodes :
          y.of = task /\ (y.kind \in {"model", "marking"} \/ ~cutShort) =>
            y \in Made(task, net) /\ Create(y) \notin todo'
    BY <1>1, <1>3, <2>1, <2>3, <2>4
  <2>8. \A s \in net.visible :
          Merge(Activity(s)) \notin todo' => Activity(s) \in store'.nodes
    BY <1>1, <1>3, <1>7, <2>1, <2>3, StatementsDiffer, NetShape
  <2>9. QED
    BY <1>1, <1>4, <2>5, <2>6, <2>7, <2>8 DEF Built
<1>8. CASE net \in Nets /\ \E e \in Edges(task, net) : st = Link(e)
  <2>1. PICK x \in Edges(task, net) : st = Link(x)
    BY <1>8
  <2>2. store' = Joined(store, x) /\ {x[1], x[2]} \subseteq store.nodes
    BY <1>1, <2>1, StatementEffects, LinkReady
  <2>3. store'.edges = store.edges \cup {x} /\ store'.nodes = store.nodes
    BY <2>2 DEF Joined
  <2>4. x \in Laid(task, net) /\ x[1].of = task
    BY <1>2, <1>8, <2>1, NetShape, EdgeEnds DEF Laid
  <2>5. EdgesOf(store', task) = {e \in Laid(task, net) : Link(e) \notin todo'}
    <3>1. EdgesOf(store', task) = EdgesOf(store, task) \cup {x}
      BY <2>3, <2>4 DEF EdgesOf
    <3>2. \A e : Link(e) \notin todo' <=> Link(e) \notin todo \/ e = x
      BY <1>1, <2>1, StatementsDiffer
    <3>3. QED
      BY <1>3, <2>4, <3>1, <3>2
  <2>6. \A y \in Made(task, net) : Create(y) \notin todo' => y \in store'.nodes
    BY <1>1, <1>3, <2>1, <2>3, StatementsDiffer
  <2>7. \A y \in store'.nodes :
          y.of = task /\ (y.kind \in {"model", "marking"} \/ ~cutShort) =>
            y \in Made(task, net) /\ Create(y) \notin todo'
    BY <1>1, <1>3, <2>3
  <2>8. \A s \in net.visible :
          Merge(Activity(s)) \notin todo' => Activity(s) \in store'.nodes
    BY <1>1, <1>3, <1>8, <2>1, <2>3, StatementsDiffer, NetShape
  <2>9. QED
    BY <1>1, <1>4, <2>5, <2>6, <2>7, <2>8 DEF Built
<1>9. QED
  BY <1>2, <1>5, <1>6, <1>7, <1>8, StatementKinds DEF Typed

-----------------------------------------------------------------------------
(* When the script is through, the net is what the database shows.          *)
LEMMA NetIsRead ==
  ASSUME NEW db, Sound(db), NEW m \in Models, NEW n \in Nets,
         EdgesOf(db, m) = Edges(m, n), Rows(m, n) \subseteq db.nodes
  PROVE  ReadNet(db, m) = n
<1> DEFINE ps == {y.id : y \in Attached(db, m, "place")}
           ts == {y.id : y \in Attached(db, m, "transition")}
<1>1. \A x, y : x.of = m => (<<x, y>> \in db.edges <=> <<x, y>> \in Edges(m, n))
  <2>1. TAKE x, y
  <2>2. <<x, y>>[1] = x
    OBVIOUS
  <2>3. QED
    BY <2>2, EdgeEnds DEF EdgesOf
<1>2. /\ \A id : /\ Place(m, id).of = m /\ Transition(m, id).of = m
                 /\ Marking(m, id).of = m /\ ModelNode(m).of = m
                 /\ Place(m, id).id = id /\ Transition(m, id).id = id
                 /\ Place(m, id).kind = "place" /\ Transition(m, id).kind = "transition"
                 /\ Marking(m, id).kind = "marking" /\ Activity(id).kind = "activity"
      /\ ModelNode(m).kind = "model"
      /\ \A a, b : /\ Place(m, a) = Place(m, b) => a = b
                   /\ Transition(m, a) = Transition(m, b) => a = b
                   /\ Marking(m, a) = Marking(m, b) => a = b
                   /\ Activity(a) = Activity(b) => a = b
  BY DEF Place, Transition, Marking, ModelNode, Activity, Node
<1>3. \A y : <<ModelNode(m), y>> \in db.edges <=> y \in Rows(m, n) \ {ModelNode(m)}
  <2>1. ASSUME NEW y, <<ModelNode(m), y>> \in db.edges
        PROVE  y \in Rows(m, n) \ {ModelNode(m)}
    <3>1. PICK e \in Edges(m, n) : e = <<ModelNode(m), y>>
      BY <1>1, <1>2, <2>1
    <3>2. e[1] = ModelNode(m) /\ e[2] = y
      BY <3>1
    <3>3. QED
      BY <1>2, <3>1, <3>2, EdgeShape
  <2>2. ASSUME NEW y \in Rows(m, n) \ {ModelNode(m)}
        PROVE  <<ModelNode(m), y>> \in db.edges
    <3>1. <<ModelNode(m), y>> \in Edges(m, n)
      BY DEF Edges
    <3>2. QED
      BY <1>1, <1>2, <3>1
  <2>3. QED
    BY <2>1, <2>2
<1>4. /\ n.places \subseteq Places /\ n.transitions \subseteq Transitions
      /\ n.visible \subseteq n.transitions
      /\ n.arcs \subseteq (n.places \X n.transitions) \cup (n.transitions \X n.places)
      /\ n.initial \subseteq n.places /\ n.final \subseteq n.places
      /\ n = [places |-> n.places, transitions |-> n.transitions,
              visible |-> n.visible, arcs |-> n.arcs,
              initial |-> n.initial, final |-> n.final]
  BY NetShape
<1>5. ps = n.places
  <2>1. ASSUME NEW y \in Attached(db, m, "place")
        PROVE  y.id \in n.places
    BY <1>3, <2>1, RowShape DEF Attached
  <2>2. ASSUME NEW p \in n.places
        PROVE  p \in ps
    <3>1. Place(m, p) \in Rows(m, n) \ {ModelNode(m)}
      BY <1>2 DEF Rows
    <3>2. Place(m, p) \in Attached(db, m, "place")
      BY <1>2, <1>3, <3>1 DEF Attached
    <3>3. QED
      BY <1>2, <3>2
  <2>3. QED
    BY <2>1, <2>2
<1>6. ts = n.transitions
  <2>1. ASSUME NEW y \in Attached(db, m, "transition")
        PROVE  y.id \in n.transitions
    BY <1>3, <2>1, RowShape DEF Attached
  <2>2. ASSUME NEW t \in n.transitions
        PROVE  t \in ts
    <3>1. Transition(m, t) \in Rows(m, n) \ {ModelNode(m)}
      BY <1>2 DEF Rows
    <3>2. Transition(m, t) \in Attached(db, m, "transition")
      BY <1>2, <1>3, <3>1 DEF Attached
    <3>3. QED
      BY <1>2, <3>2
  <2>3. QED
    BY <2>1, <2>2
<1>7. \A t : <<Transition(m, t), Activity(t)>> \in db.edges <=> t \in n.visible
  <2>1. ASSUME NEW t, <<Transition(m, t), Activity(t)>> \in db.edges
        PROVE  t \in n.visible
    <3>1. PICK e \in Edges(m, n) : e = <<Transition(m, t), Activity(t)>>
      BY <1>1, <1>2, <2>1
    <3>2. e[1] = Transition(m, t) /\ e[2] = Activity(t)
      BY <3>1
    <3>3. QED
      BY <1>2, <3>1, <3>2, EdgeShape
  <2>2. ASSUME NEW t \in n.visible
        PROVE  <<Transition(m, t), Activity(t)>> \in db.edges
    BY <1>1, <1>2 DEF Edges
  <2>3. QED
    BY <2>1, <2>2
<1>8. \A p, t : <<Place(m, p), Transition(m, t)>> \in db.edges <=>
                <<p, t>> \in n.arcs \cap (Places \X Transitions)
  <2>1. ASSUME NEW p, NEW t, <<Place(m, p), Transition(m, t)>> \in Edges(m, n)
        PROVE  <<p, t>> \in n.arcs \cap (Places \X Transitions)
    <3>1. PICK e \in Edges(m, n) : e = <<Place(m, p), Transition(m, t)>>
      BY <2>1
    <3>2. e[1] = Place(m, p) /\ e[2] = Transition(m, t)
      BY <3>1
    <3>3. PICK a \in n.arcs \cap (Places \X Transitions) :
                 e = <<Place(m, a[1]), Transition(m, a[2])>>
      BY <1>2, <3>2 DEF Edges
    <3>4. a[1] = p /\ a[2] = t
      BY <1>2, <3>2, <3>3
    <3>5. QED
      BY <3>4
  <2>2. ASSUME NEW p, NEW t, <<p, t>> \in n.arcs \cap (Places \X Transitions)
        PROVE  <<Place(m, p), Transition(m, t)>> \in Edges(m, n)
    BY <2>2 DEF Edges
  <2>3. QED
    BY <1>1, <1>2, <2>1, <2>2
<1>9. \A p, t : <<Transition(m, t), Place(m, p)>> \in db.edges <=>
                <<t, p>> \in n.arcs \cap (Transitions \X Places)
  <2>1. ASSUME NEW p, NEW t, <<Transition(m, t), Place(m, p)>> \in Edges(m, n)
        PROVE  <<t, p>> \in n.arcs \cap (Transitions \X Places)
    <3>1. PICK e \in Edges(m, n) : e = <<Transition(m, t), Place(m, p)>>
      BY <2>1
    <3>2. e[1] = Transition(m, t) /\ e[2] = Place(m, p)
      BY <3>1
    <3>3. PICK a \in n.arcs \cap (Transitions \X Places) :
                 e = <<Transition(m, a[1]), Place(m, a[2])>>
      BY <1>2, <3>2 DEF Edges
    <3>4. a[1] = t /\ a[2] = p
      BY <1>2, <3>2, <3>3
    <3>5. QED
      BY <3>4
  <2>2. ASSUME NEW p, NEW t, <<t, p>> \in n.arcs \cap (Transitions \X Places)
        PROVE  <<Transition(m, t), Place(m, p)>> \in Edges(m, n)
    BY <2>2 DEF Edges
  <2>3. QED
    BY <1>1, <1>2, <2>1, <2>2
<1>10. Marked(db, m, "initial") = n.initial
  <2>1. Marking(m, "initial") \in Rows(m, n) \ {ModelNode(m)}
    BY <1>2 DEF Rows
  <2>2. ASSUME NEW p, <<Marking(m, "initial"), Place(m, p)>> \in Edges(m, n)
        PROVE  p \in n.initial
    <3>1. PICK e \in Edges(m, n) : e = <<Marking(m, "initial"), Place(m, p)>>
      BY <2>2
    <3>2. e[1] = Marking(m, "initial") /\ e[2] = Place(m, p)
      BY <3>1
    <3>3. \/ \E q \in n.initial : e = <<Marking(m, "initial"), Place(m, q)>>
          \/ \E q \in n.final : e = <<Marking(m, "final"), Place(m, q)>>
      BY <1>2, <3>1, <3>2, EdgeShape
    <3>4. Marking(m, "initial") # Marking(m, "final")
      BY <1>2
    <3>5. PICK q \in n.initial : e = <<Marking(m, "initial"), Place(m, q)>>
      BY <3>2, <3>3, <3>4
    <3>6. QED
      BY <1>2, <3>2, <3>5
  <2>3. ASSUME NEW p \in n.initial
        PROVE  <<Marking(m, "initial"), Place(m, p)>> \in Edges(m, n)
    BY DEF Edges
  <2>4. QED
    BY <1>1, <1>2, <1>3, <1>4, <2>1, <2>2, <2>3 DEF Marked
<1>11. Marked(db, m, "final") = n.final
  <2>1. Marking(m, "final") \in Rows(m, n) \ {ModelNode(m)}
    BY <1>2 DEF Rows
  <2>2. ASSUME NEW p, <<Marking(m, "final"), Place(m, p)>> \in Edges(m, n)
        PROVE  p \in n.final
    <3>1. PICK e \in Edges(m, n) : e = <<Marking(m, "final"), Place(m, p)>>
      BY <2>2
    <3>2. e[1] = Marking(m, "final") /\ e[2] = Place(m, p)
      BY <3>1
    <3>3. \/ \E q \in n.initial : e = <<Marking(m, "initial"), Place(m, q)>>
          \/ \E q \in n.final : e = <<Marking(m, "final"), Place(m, q)>>
      BY <1>2, <3>1, <3>2, EdgeShape
    <3>4. Marking(m, "initial") # Marking(m, "final")
      BY <1>2
    <3>5. PICK q \in n.final : e = <<Marking(m, "final"), Place(m, q)>>
      BY <3>2, <3>3, <3>4
    <3>6. QED
      BY <1>2, <3>2, <3>5
  <2>3. ASSUME NEW p \in n.final
        PROVE  <<Marking(m, "final"), Place(m, p)>> \in Edges(m, n)
    BY DEF Edges
  <2>4. QED
    BY <1>1, <1>2, <1>3, <1>4, <2>1, <2>2, <2>3 DEF Marked
<1> DEFINE seen == {t \in ts : <<Transition(m, t), Activity(t)>> \in db.edges}
           in == {a \in ps \X ts : <<Place(m, a[1]), Transition(m, a[2])>> \in db.edges}
           out == {a \in ts \X ps : <<Transition(m, a[1]), Place(m, a[2])>> \in db.edges}
<1>12. seen = n.visible
  BY <1>4, <1>6, <1>7
<1>13. in \cup out = n.arcs
  <2>1. in = n.arcs \cap (n.places \X n.transitions)
    BY <1>4, <1>5, <1>6, <1>8
  <2>2. out = n.arcs \cap (n.transitions \X n.places)
    BY <1>4, <1>5, <1>6, <1>9
  <2>3. QED
    BY <1>4, <2>1, <2>2
<1>14. ModelNode(m) \in db.nodes
  BY DEF Rows
<1>15. ReadNet(db, m) =
         [places |-> ps, transitions |-> ts, visible |-> seen, arcs |-> in \cup out,
          initial |-> Marked(db, m, "initial"), final |-> Marked(db, m, "final")]
  BY <1>14 DEF ReadNet
<1>16. QED
  BY <1>4, <1>5, <1>6, <1>10, <1>11, <1>12, <1>13, <1>15

(* A script that is through has left what was to be shown, and no loose ends. *)
LEMMA ScriptThrough ==
  ASSUME Typed, Sound(store), Built, task # NoModel, todo = {}
  PROVE  /\ ReadNet(store, task) = net
         /\ ~cutShort => Tidy(store, task)
<1>1. /\ task \in Models
      /\ EdgesOf(store, task) = Laid(task, net) /\ Made(task, net) \subseteq store.nodes
      /\ \A y \in store.nodes :
           y.of = task /\ (y.kind \in {"model", "marking"} \/ ~cutShort) =>
             y \in Made(task, net)
  BY DEF Typed, Built, Deleting
<1>2. CASE net = NoNet
  <2>1. ModelNode(task) \notin store.nodes
    BY <1>1, <1>2, ModelNodeOf DEF Made
  <2>2. ~cutShort => Tidy(store, task)
    BY <1>1, <1>2 DEF Made, Tidy
  <2>3. QED
    BY <1>2, <2>1, <2>2 DEF ReadNet
<1>3. CASE net \in Nets
  <2>1. Laid(task, net) = Edges(task, net) /\ Made(task, net) = Rows(task, net)
    BY <1>3, NetShape DEF Laid, Made
  <2>2. ReadNet(store, task) = net
    BY <1>1, <1>3, <2>1, NetIsRead
  <2>3. ASSUME NEW y \in Rows(task, net), y.kind \in {"place", "transition"}
        PROVE  <<ModelNode(task), y>> \in store.edges
    <3>1. y # ModelNode(task)
      BY <2>3, ModelNodeOf
    <3>2. <<ModelNode(task), y>> \in Edges(task, net)
      BY <2>3, <3>1 DEF Edges
    <3>3. QED
      BY <1>1, <2>1, <3>2 DEF EdgesOf
  <2>4. QED
    BY <1>1, <2>1, <2>2, <2>3 DEF Tidy
<1>4. QED
  BY <1>2, <1>3 DEF Typed

-----------------------------------------------------------------------------
(* The invariant holds to begin with, and every step keeps it.              *)
LEMMA InitIInv == Init => IInv
<1> SUFFICES ASSUME Init
             PROVE  IInv
  OBVIOUS
<1>1. Typed
  BY KuzuAssumption DEF Init, Typed
<1>2. Sound(disk) /\ Sound(store) /\ (\A m \in Models : Tidy(disk, m) /\ Tidy(store, m))
  BY NothingThere DEF Init, Sound, Tidy, NoRows
<1>3. ShownIsThere
  BY NothingThere DEF Init, ShownIsThere, AnsweredNetIsShown
<1>4. Ordered /\ Deleted /\ Built
  BY DEF Init, Ordered, Deleted, Built
<1>5. QED
  BY <1>1, <1>2, <1>3, <1>4 DEF IInv, OthersTidy

(* The steps, one by one.                                                   *)
LEMMA BeginStep ==
  ASSUME IInv, NEW m \in Models, Begin(m)
  PROVE  IInv'
<1>1. PICK n \in Nets : net' = n /\ todo' = Script(m, n)
  BY DEF Begin
<1>2. /\ task = NoModel /\ task' = m /\ store' = disk /\ attached' = TRUE
      /\ shown' = [shown EXCEPT ![m] = Unknown] /\ disk' = disk /\ cutShort' = cutShort
  BY DEF Begin
<1>3. m # NoModel
  BY KuzuAssumption
<1>4. Typed'
  <2>1. shown' \in [Models -> Nets \cup {NoNet, Unknown}]
    BY <1>2 DEF IInv, Typed
  <2>2. QED
    BY <1>1, <1>2, <1>3, <2>1 DEF IInv, Typed
<1>5. Sound(disk') /\ Sound(store')
  BY <1>2 DEF IInv
<1>6. Ordered'
  BY <1>1, <1>2 DEF Ordered
<1>7. DeleteRows(m) \subseteq todo'
  BY <1>1, ScriptHolds
<1>8. Deleting'
  BY <1>2, <1>7 DEF Deleting, DeleteRows
<1>9. Deleted'
  <2>1. \A kind \in Kinds : Delete(task', kind) \in todo'
    BY <1>2, <1>7 DEF DeleteRows, Kinds
  <2>2. ~cutShort' => Tidy(store', task')
    BY <1>2, <1>3 DEF IInv, OthersTidy
  <2>3. QED
    BY <2>1, <2>2 DEF Deleted, Kinds
<1>10. Built'
  BY <1>8 DEF Built
<1>11. OthersTidy'
  BY <1>2, KuzuAssumption DEF IInv, OthersTidy
<1>12. ShownIsThere'
  BY <1>2 DEF IInv, ShownIsThere, AnsweredNetIsShown, Typed
<1>13. QED
  BY <1>4, <1>5, <1>6, <1>9, <1>10, <1>11, <1>12 DEF IInv

(* Only the model whose rebuild has the database open may be read otherwise. *)
LEMMA ExecuteReads ==
  ASSUME Typed, Ordered, Sound(store), Sound(disk), Deleted, Built,
         NEW st, Executed(st),
         attached' = attached, disk' = IF attached THEN store' ELSE disk,
         NEW m \in Models \ {task}
  PROVE  /\ ReadNet(disk', m) = ReadNet(disk, m)
         /\ Tidy(store, m) => Tidy(store', m)
         /\ Tidy(disk, m) => Tidy(disk', m)
<1>1. Sound(store') /\ Part(store', m) = Part(store, m)
  BY EffectKeeps DEF Executed
<1>2. ReadNet(store', m) = ReadNet(store, m) /\ (Tidy(store, m) => Tidy(store', m))
  BY <1>1, ReadFromPart
<1>3. attached => disk = store
  BY DEF Typed
<1>4. QED
  BY <1>2, <1>3 DEF Typed

LEMMA ExecuteStep ==
  ASSUME IInv, Execute
  PROVE  IInv'
<1>1. PICK st \in Ready : Executed(st)
  BY DEF Execute, Executed
<1>2. /\ store' = Effect(store, st) /\ todo' = todo \ {st} /\ task' = task /\ net' = net
      /\ disk' = (IF attached THEN store' ELSE disk)
      /\ attached' = attached /\ cutShort' = cutShort /\ shown' = shown
  BY <1>1 DEF Execute, Executed
<1>3. task \in Models /\ task # NoModel
  BY ReadyFacts, KuzuAssumption DEF IInv
<1>4. Typed'
  <2>1. todo' \subseteq IF task' = NoModel THEN {} ELSE Script(task', net')
    BY <1>2, <1>3 DEF IInv, Typed
  <2>2. QED
    BY <1>2, <1>3, <2>1 DEF IInv, Typed
<1>5. Sound(store') /\ Sound(disk')
  BY <1>2, EffectKeeps DEF IInv
<1>6. Ordered'
  <2>1. \A other \in todo : Order(st) <= Order(other)
    BY ReadyFacts DEF IInv
  <2>2. QED
    BY <1>2, <1>3, <2>1 DEF IInv, Ordered
<1>7. Deleted' /\ Built'
  <2>1. CASE ~Deleting
    BY <1>1, <2>1, ExecuteBuilt DEF IInv, Deleted
  <2>2. CASE Deleting /\ Deleting'
    BY <1>1, <2>2, ExecuteDeleted DEF IInv, Built
  <2>3. CASE Deleting /\ ~Deleting'
    BY <1>1, <2>3, LastDelete DEF IInv, Deleted
  <2>4. QED
    BY <2>1, <2>2, <2>3
<1>8. OthersTidy'
  BY <1>1, <1>2, ExecuteReads DEF IInv, OthersTidy
<1>9. ShownIsThere'
  <2>1. attached' => shown'[task'] = Unknown
    BY <1>2 DEF IInv, ShownIsThere
  <2>2. ASSUME NEW m \in Models, shown[m] # Unknown
        PROVE  ReadNet(disk', m) = shown[m]
    <3>1. CASE attached
      <4>1. m # task
        BY <2>2, <3>1 DEF IInv, ShownIsThere
      <4>2. QED
        BY <1>1, <1>2, <2>2, <4>1, ExecuteReads DEF IInv, ShownIsThere, AnsweredNetIsShown
    <3>2. CASE ~attached
      BY <1>2, <2>2, <3>2 DEF IInv, ShownIsThere, AnsweredNetIsShown
    <3>3. QED
      BY <3>1, <3>2
  <2>3. QED
    BY <1>2, <2>1, <2>2 DEF ShownIsThere, AnsweredNetIsShown
<1>10. QED
  BY <1>4, <1>5, <1>6, <1>7, <1>8, <1>9 DEF IInv

(* A rebuild that ends leaves no script; what is left to show is what the   *)
(* path holds.                                                              *)
LEMMA ClosedStep ==
  ASSUME IInv, Closed, disk' = disk, cutShort' \in BOOLEAN,
         shown' \in [Models -> Nets \cup {NoNet, Unknown}],
         AnsweredNetIsShown',
         ~cutShort' => \A m \in Models : Tidy(disk, m)
  PROVE  IInv'
<1>1. /\ task' = NoModel /\ net' = NoNet /\ todo' = {} /\ store' = NoRows
      /\ attached' = FALSE
  BY DEF Closed
<1>2. Typed'
  BY <1>1 DEF Typed
<1>3. Sound(disk') /\ Sound(store')
  BY <1>1 DEF IInv, Sound, NoRows
<1>4. Ordered' /\ Deleted' /\ Built'
  BY <1>1 DEF Ordered, Deleted, Built
<1>5. OthersTidy'
  BY <1>1, NothingThere DEF OthersTidy
<1>6. ShownIsThere'
  BY <1>1 DEF ShownIsThere
<1>7. QED
  BY <1>2, <1>3, <1>4, <1>5, <1>6 DEF IInv

(* No create that is ready meets a row of its own model, unless a script    *)
(* was cut short.                                                           *)
LEMMA NoConflict ==
  ASSUME Typed, Ordered, Built, NEW st \in Ready, Rejected(store, st)
  PROVE  cutShort
<1>1. task \in Models /\ task # NoModel /\ st \in todo /\ st \in Script(task, net)
  BY ReadyFacts, KuzuAssumption
<1>2. st.do = "create" /\ st.node \in store.nodes
  BY DEF Rejected
<1>3. net \in Nets /\ \E y \in Rows(task, net) : st = Create(y)
  BY <1>1, <1>2, StatementKinds DEF Typed, Delete, Merge, Link
<1>4. PICK y \in Rows(task, net) : st = Create(y)
  BY <1>3
<1>5. y \in store.nodes /\ y.of = task
  BY <1>1, <1>2, <1>3, <1>4, RowShape DEF Create
<1>6. ~Deleting
  BY <1>4, ReadyBuild, StatementsDiffer
<1>7. ~cutShort => Create(y) \notin todo
  BY <1>1, <1>5, <1>6 DEF Built
<1>8. QED
  BY <1>1, <1>4, <1>7 DEF Typed

LEMMA ConflictStep ==
  ASSUME IInv, Conflict
  PROVE  IInv'
<1>1. cutShort
  BY NoConflict DEF Conflict, IInv
<1>2. Closed /\ disk' = disk /\ cutShort' = cutShort /\ shown' = shown
  BY DEF Conflict
<1>3. AnsweredNetIsShown'
  BY <1>2 DEF IInv, ShownIsThere, AnsweredNetIsShown
<1>4. QED
  BY <1>1, <1>2, <1>3, ClosedStep DEF IInv, Typed

LEMMA DeleteEmptyStep ==
  ASSUME IInv, DeleteEmpty
  PROVE  IInv'
<1>1. /\ task # NoModel /\ todo = {} /\ task \in Models
      /\ net' = NoNet /\ todo' = Script(task, NoNet)
      /\ disk' = disk /\ store' = store /\ attached' = attached /\ task' = task
      /\ cutShort' = cutShort /\ shown' = shown
  BY DEF DeleteEmpty, IInv, Typed
<1>2. Typed'
  BY <1>1 DEF IInv, Typed
<1>3. DeleteRows(task) \subseteq todo' /\ Deleting'
  BY <1>1 DEF Script, Deleting, DeleteRows
<1>4. Ordered' /\ Built'
  BY <1>1, <1>3 DEF Ordered, Built
<1>5. Deleted'
  <2>1. \A kind \in Kinds : Delete(task', kind) \in todo'
    BY <1>1, <1>3 DEF DeleteRows, Kinds
  <2>2. ~cutShort' => Tidy(store', task')
    BY <1>1, ScriptThrough DEF IInv
  <2>3. QED
    BY <2>1, <2>2 DEF Deleted, Kinds
<1>6. OthersTidy' /\ ShownIsThere'
  BY <1>1 DEF IInv, OthersTidy, ShownIsThere, AnsweredNetIsShown
<1>7. QED
  BY <1>1, <1>2, <1>4, <1>5, <1>6 DEF IInv

(* What the path holds when a rebuild ends without a cut.                   *)
LEMMA EndsTidy ==
  ASSUME IInv, task # NoModel, ~cutShort, attached => todo = {}
  PROVE  \A m \in Models : Tidy(disk, m)
<1>1. attached => disk = store
  BY DEF IInv, Typed
<1>2. attached => Tidy(store, task)
  BY ScriptThrough DEF IInv
<1>3. ~attached => disk = NoRows
  BY DEF IInv, Typed
<1>4. QED
  BY <1>1, <1>2, <1>3, NothingThere DEF IInv, OthersTidy

LEMMA AnswerStep ==
  ASSUME IInv, Answer
  PROVE  IInv'
<1>1. /\ task # NoModel /\ todo = {} /\ task \in Models /\ net \in Nets \cup {NoNet}
      /\ shown' = (IF attached THEN [shown EXCEPT ![task] = net] ELSE shown)
      /\ Closed /\ disk' = disk /\ cutShort' = cutShort
  BY DEF Answer, IInv, Typed
<1>2. shown' \in [Models -> Nets \cup {NoNet, Unknown}]
  BY <1>1 DEF IInv, Typed
<1>3. AnsweredNetIsShown'
  <2>1. attached => ReadNet(disk, task) = net
    BY <1>1, ScriptThrough DEF IInv, Typed
  <2>2. ASSUME NEW m \in Models, shown'[m] # Unknown
        PROVE  ReadNet(disk, m) = shown'[m]
    BY <1>1, <2>1, <2>2 DEF IInv, Typed, ShownIsThere, AnsweredNetIsShown
  <2>3. QED
    BY <1>1, <2>2 DEF AnsweredNetIsShown
<1>4. ~cutShort' => \A m \in Models : Tidy(disk, m)
  BY <1>1, EndsTidy
<1>5. QED
  BY <1>1, <1>2, <1>3, <1>4, ClosedStep DEF IInv, Typed

LEMMA CutShortStep ==
  ASSUME IInv, CutShort
  PROVE  IInv'
<1>1. /\ task # NoModel /\ cutShort' = (cutShort \/ attached)
      /\ Closed /\ disk' = disk /\ shown' = shown
  BY DEF CutShort
<1>2. AnsweredNetIsShown'
  BY <1>1 DEF IInv, ShownIsThere, AnsweredNetIsShown
<1>3. ~cutShort' => \A m \in Models : Tidy(disk, m)
  BY <1>1, EndsTidy
<1>4. QED
  BY <1>1, <1>2, <1>3, ClosedStep DEF IInv, Typed

LEMMA ClearStep ==
  ASSUME IInv, Clear
  PROVE  IInv'
<1>1. /\ disk' = NoRows /\ attached' = FALSE /\ cutShort' = (cutShort /\ task # NoModel)
      /\ shown' = [m \in Models |-> NoNet]
      /\ store' = store /\ task' = task /\ net' = net /\ todo' = todo
  BY DEF Clear
<1>2. Typed'
  BY <1>1 DEF IInv, Typed
<1>3. Sound(disk') /\ Sound(store')
  BY <1>1 DEF IInv, Sound, NoRows
<1>4. Ordered'
  BY <1>1 DEF IInv, Ordered
<1>5. task # NoModel => cutShort' = cutShort
  BY <1>1 DEF IInv, Typed
<1>6. Deleted' /\ Built'
  BY <1>1, <1>5 DEF IInv, Deleted, Built, Deleting
<1>7. OthersTidy'
  <2>1. task = NoModel => store = NoRows
    BY DEF IInv, Typed
  <2>2. QED
    BY <1>1, <1>5, <2>1, NothingThere DEF IInv, OthersTidy
<1>8. ShownIsThere'
  BY <1>1, NothingThere DEF ShownIsThere, AnsweredNetIsShown
<1>9. QED
  BY <1>2, <1>3, <1>4, <1>6, <1>7, <1>8 DEF IInv

(* Together.                                                                *)
LEMMA IInvInductive == IInv /\ [Next]_vars => IInv'
<1> SUFFICES ASSUME IInv, [Next]_vars
             PROVE  IInv'
  OBVIOUS
<1>1. ASSUME NEW m \in Models, Begin(m)
      PROVE  IInv'
  BY <1>1, BeginStep
<1>2. CASE Execute
  BY <1>2, ExecuteStep
<1>3. CASE Conflict
  BY <1>3, ConflictStep
<1>4. CASE DeleteEmpty
  BY <1>4, DeleteEmptyStep
<1>5. CASE Answer
  BY <1>5, AnswerStep
<1>6. CASE CutShort
  BY <1>6, CutShortStep
<1>7. CASE Clear
  BY <1>7, ClearStep
<1>8. CASE UNCHANGED vars
  BY <1>8 DEF vars, rebuild, IInv, Typed, Sound, Ordered, Deleted, Built, Deleting,
              OthersTidy, ShownIsThere, AnsweredNetIsShown
<1>9. QED
  BY <1>1, <1>2, <1>3, <1>4, <1>5, <1>6, <1>7, <1>8 DEF Next

(* Whatever the number of models, places and transitions, wherever a script *)
(* is cut short and whenever the files go: IInv.                            *)
THEOREM IInvInvariant == Spec => []IInv
BY InitIInv, IInvInductive, PTL DEF Spec

(* persist_model and delete_model replace a net by its successor and        *)
(* nothing else: what a rebuild answered is what get_petri_net returns      *)
(* until the model's next rebuild or the next privacy action.               *)
THEOREM RebuildsAreShown == Spec => []AnsweredNetIsShown
<1>1. IInv => AnsweredNetIsShown
  BY DEF IInv, ShownIsThere
<1>2. QED
  BY <1>1, IInvInvariant, PTL

(* A primary key is violated only where an earlier script was cut short.    *)
THEOREM ConflictsFollowCuts == Spec => []RebuildsRepeat
<1>1. IInv => RebuildsRepeat
  BY NoConflict DEF IInv, RebuildsRepeat
<1>2. QED
  BY <1>1, IInvInvariant, PTL

(* No statement of a rebuild changes what is read of another model, whether *)
(* it deletes, creates or links.                                            *)
THEOREM RebuildsKeepOthers == Spec => OthersUntouched
<1> DEFINE Kept == disk' # NoRows =>
                     \A m \in Models \ {task} : ReadNet(disk, m)' = ReadNet(disk, m)
<1>1. IInv /\ [Next]_vars => [Kept]_vars
  <2> SUFFICES ASSUME IInv, Next
               PROVE  Kept
    BY DEF vars
  <2>1. CASE Execute
    <3>1. PICK st \in Ready : Executed(st)
      BY <2>1 DEF Execute, Executed
    <3>2. attached' = attached /\ disk' = IF attached THEN store' ELSE disk
      BY <2>1 DEF Execute
    <3>3. QED
      BY <3>1, <3>2, ExecuteReads DEF IInv
  <2>2. CASE Clear
    BY <2>2 DEF Clear
  <2>3. CASE \/ \E m \in Models : Begin(m)
             \/ Conflict \/ DeleteEmpty \/ Answer \/ CutShort
    BY <2>3 DEF Begin, Conflict, DeleteEmpty, Answer, CutShort
  <2>4. QED
    BY <2>1, <2>2, <2>3 DEF Next
<1>2. QED
  BY <1>1, IInvInvariant, PTL DEF Spec, OthersUntouched
=============================================================================
