--------------------------- MODULE KuzuProjection ---------------------------
(***************************************************************************)
(* The Kuzu projection of discovered process models (tm.stores.kuzu_store, *)
(* tm.stores.kuzu_projection and the daemon's rebuild_kuzu_projection).    *)
(*                                                                         *)
(* A rebuild mines a Petri net and replaces the model's rows by a script   *)
(* of Cypher statements.  There is no transaction around the script: every *)
(* statement commits by itself, so a daemon that dies, or a statement that *)
(* fails, leaves a prefix of it behind.  The daemon's write lock keeps     *)
(* rebuilds apart; a privacy action of another process may remove the      *)
(* database files under a rebuild that has them open.                      *)
(***************************************************************************)
EXTENDS Integers, FiniteSets

CONSTANTS Models,       \* windows: a model_id stands for (lens, since, until)
          Places, Transitions,
          Shared,       \* owner of the Activity nodes, which are global
          NoModel, NoNet, Unknown

VARIABLES
  disk,       \* the database at the projection's path
  store,      \* the database a rebuild has open
  attached,   \* whether that is still the one at the path
  task,       \* the model being rebuilt, or NoModel
  net,        \* the net mined for it, or NoNet once that is to be deleted again
  todo,       \* the statements still to execute
  cutShort,   \* history: a script was cut short and no one cleared the path
  shown       \* history: what was last answered for each model, if it holds

rebuild == <<store, attached, task, net, todo>>
vars == <<disk, rebuild, cutShort, shown>>

(* What the miner returns: every place is joined to every transition, and   *)
(* the invisible transitions have no label.                                 *)
EmptyNet == [places |-> {}, transitions |-> {}, visible |-> {}, arcs |-> {},
             initial |-> {}, final |-> {}]

NetOf(ps, ts, labelled) ==
  [places |-> ps, transitions |-> ts, visible |-> labelled,
   arcs |-> (ps \X ts) \cup (ts \X ps), initial |-> ps, final |-> ps]

Nets ==
  {EmptyNet} \cup
  UNION {{NetOf(ps, ts, labelled) : labelled \in SUBSET ts} :
           ps \in (SUBSET Places) \ {{}}, ts \in (SUBSET Transitions) \ {{}}}

ASSUME KuzuAssumption ==
  /\ IsFiniteSet(Models) /\ IsFiniteSet(Places) /\ IsFiniteSet(Transitions)
  /\ Places \cap Transitions = {}
  /\ Shared \notin Models /\ NoModel \notin Models
  /\ Unknown # NoNet /\ {Unknown, NoNet} \cap Nets = {}

-----------------------------------------------------------------------------
(* A database is its nodes, each namespaced by its model, and its edges.    *)
Node(kind, m, id) == [kind |-> kind, of |-> m, id |-> id]
ModelNode(m) == Node("model", m, "row")
Activity(label) == Node("activity", Shared, label)
Place(m, p) == Node("place", m, p)
Transition(m, t) == Node("transition", m, t)
Marking(m, kind) == Node("marking", m, kind)

NoRows == [nodes |-> {}, edges |-> {}]

Attached(db, m, kind) ==
  {y \in db.nodes : y.kind = kind /\ <<ModelNode(m), y>> \in db.edges}

(* A slip: rows are matched without their model. *)
DoomedOfAnyModel(db, m, kind) == {y \in db.nodes : y.kind = kind}

(* _delete_model_rows: markings by their owner, transitions and places by   *)
(* their edge to the model.                                                 *)
Doomed(db, m, kind) ==
  IF kind \in {"marking", "model"}
    THEN {y \in db.nodes : y.kind = kind /\ y.of = m}
    ELSE Attached(db, m, kind)

(* DETACH DELETE. *)
Without(db, gone) ==
  [nodes |-> db.nodes \ gone,
   edges |-> {e \in db.edges : e[1] \notin gone /\ e[2] \notin gone}]

With(db, node) == [nodes |-> db.nodes \cup {node}, edges |-> db.edges]

(* MATCH of both ends, then CREATE: a missing end matches nothing. *)
Joined(db, e) ==
  [nodes |-> db.nodes,
   edges |-> db.edges \cup IF {e[1], e[2]} \subseteq db.nodes THEN {e} ELSE {}]

(* Statements. *)
Delete(m, kind) == [do |-> "delete", of |-> m, kind |-> kind]
Merge(node) == [do |-> "merge", node |-> node]
Create(node) == [do |-> "create", node |-> node]
Link(edge) == [do |-> "link", edge |-> edge]

Effect(db, st) ==
  CASE st.do \in {"merge", "create"} -> With(db, st.node)
    [] st.do = "link" -> Joined(db, st.edge)
    [] st.do = "delete" -> Without(db, Doomed(db, st.of, st.kind))

(* A primary key that exists already. *)
Rejected(db, st) == st.do = "create" /\ st.node \in db.nodes

-----------------------------------------------------------------------------
(* The rows of a net and the relationships between them.                    *)
Rows(m, n) ==
  {ModelNode(m)} \cup {Place(m, p) : p \in n.places}
  \cup {Transition(m, t) : t \in n.transitions}
  \cup {Marking(m, kind) : kind \in {"initial", "final"}}

Edges(m, n) ==
  {<<ModelNode(m), y>> : y \in Rows(m, n) \ {ModelNode(m)}}
  \cup {<<Transition(m, t), Activity(t)>> : t \in n.visible}
  \cup {<<Place(m, a[1]), Transition(m, a[2])>> :
          a \in n.arcs \cap (Places \X Transitions)}
  \cup {<<Transition(m, a[1]), Place(m, a[2])>> :
          a \in n.arcs \cap (Transitions \X Places)}
  \cup {<<Marking(m, "initial"), Place(m, p)>> : p \in n.initial}
  \cup {<<Marking(m, "final"), Place(m, p)>> : p \in n.final}

(* A slip: markings are believed to go with their model. *)
DeleteButMarkings(m) == {Delete(m, kind) : kind \in {"transition", "place", "model"}}

DeleteRows(m) == {Delete(m, kind) : kind \in {"marking", "transition", "place", "model"}}

(* What persist_model executes, or delete_model where the net is NoNet. *)
Script(m, n) ==
  DeleteRows(m) \cup
  IF n = NoNet THEN {}
  ELSE {Merge(Activity(t)) : t \in n.visible}
       \cup {Create(y) : y \in Rows(m, n)} \cup {Link(e) : e \in Edges(m, n)}

(* The loops of persist_model, in their order ... *)
Inserted(node) ==
  CASE node.kind = "model" -> 6
    [] node.kind = "place" -> 7
    [] node.kind = "transition" -> 8
    [] node.kind = "marking" -> IF node.id = "initial" THEN 10 ELSE 12

(* A slip: arcs are inserted before the transitions they end in. *)
ArcsFirst(x, y) ==
  IF x.kind = "model" THEN Inserted(y)
  ELSE IF y.kind = "activity" THEN Inserted(x)
  ELSE IF x.kind = "marking" THEN Inserted(x) + 1
  ELSE 7

LinkOrder(x, y) ==
  IF x.kind = "model" THEN Inserted(y)
  ELSE IF y.kind = "activity" THEN Inserted(x)
  ELSE IF x.kind = "marking" THEN Inserted(x) + 1
  ELSE 9

Order(st) ==
  CASE st.do = "delete" -> (CASE st.kind = "marking" -> 1
                              [] st.kind = "transition" -> 2
                              [] st.kind = "place" -> 3
                              [] st.kind = "model" -> 4)
    [] st.do = "merge" -> 5
    [] st.do = "create" -> Inserted(st.node)
    [] st.do = "link" -> LinkOrder(st.edge[1], st.edge[2])

(* ... and in one pass of a loop what comes before a statement: a node is   *)
(* created, attached to its model, and its label attached.                  *)
Before(st) ==
  IF st.do # "link" THEN {}
  ELSE LET x == st.edge[1]
           y == st.edge[2]
       IN  IF x.kind = "model" THEN {Create(y)}
           ELSE IF y.kind = "activity" THEN {Link(<<ModelNode(x.of), x>>)}
           ELSE {}

(* The pass that has begun goes on; if there is none, the first loop that   *)
(* has nodes left takes the next (their order is of no consequence).        *)
Due == {st \in todo : Before(st) # {} /\ Before(st) \cap todo = {}}

Ready ==
  IF Due # {} THEN Due
  ELSE {st \in todo : /\ Before(st) = {}
                      /\ \A other \in todo : Order(st) <= Order(other)}

(* get_petri_net. *)
Marked(db, m, kind) ==
  {p \in Places : /\ <<ModelNode(m), Marking(m, kind)>> \in db.edges
                  /\ <<Marking(m, kind), Place(m, p)>> \in db.edges}

ReadNet(db, m) ==
  LET ps == {y.id : y \in Attached(db, m, "place")}
      ts == {y.id : y \in Attached(db, m, "transition")}
  IN  IF ModelNode(m) \notin db.nodes THEN NoNet
      ELSE [places |-> ps, transitions |-> ts,
            visible |-> {t \in ts : <<Transition(m, t), Activity(t)>> \in db.edges},
            arcs |-> {a \in ps \X ts :
                        <<Place(m, a[1]), Transition(m, a[2])>> \in db.edges}
                     \cup {a \in ts \X ps :
                        <<Transition(m, a[1]), Place(m, a[2])>> \in db.edges},
            initial |-> Marked(db, m, "initial"),
            final |-> Marked(db, m, "final")]

-----------------------------------------------------------------------------
NodesOf(m) ==
  {ModelNode(m)} \cup {Place(m, p) : p \in Places}
  \cup {Transition(m, t) : t \in Transitions}
  \cup {Marking(m, kind) : kind \in {"initial", "final"}}

AllNodes ==
  (UNION {NodesOf(m) : m \in Models}) \cup {Activity(t) : t \in Transitions}

TypeOK ==
  /\ \A db \in {disk, store} :
       /\ db.nodes \subseteq AllNodes
       /\ \A e \in db.edges :
            /\ {e[1], e[2]} \subseteq db.nodes
            /\ e[1].of = e[2].of \/ e[2].of = Shared
  /\ attached \in BOOLEAN /\ cutShort \in BOOLEAN
  /\ attached => store = disk
  /\ task \in Models \cup {NoModel} /\ net \in Nets \cup {NoNet}
  /\ todo \subseteq IF task = NoModel THEN {} ELSE Script(task, net)
  /\ shown \in [Models -> Nets \cup {NoNet, Unknown}]

Init ==
  /\ disk = NoRows /\ store = NoRows /\ attached = FALSE
  /\ task = NoModel /\ net = NoNet /\ todo = {}
  /\ cutShort = FALSE
  /\ shown = [m \in Models |-> NoNet]

Closed ==
  /\ task' = NoModel /\ net' = NoNet /\ todo' = {}
  /\ store' = NoRows /\ attached' = FALSE

(* The handler opens the store and mines the window. *)
Begin(m) ==
  /\ task = NoModel
  /\ task' = m /\ store' = disk /\ attached' = TRUE
  /\ \E n \in Nets : net' = n /\ todo' = Script(m, n)
  /\ shown' = [shown EXCEPT ![m] = Unknown]
  /\ UNCHANGED <<disk, cutShort>>

Execute ==
  /\ \E st \in Ready :
       /\ ~Rejected(store, st)
       /\ store' = Effect(store, st)
       /\ todo' = todo \ {st}
  /\ disk' = IF attached THEN store' ELSE disk
  /\ UNCHANGED <<attached, task, net, cutShort, shown>>

(* CREATE on an existing key raises, and the handler answers ok = False. *)
Conflict ==
  /\ \E st \in Ready : Rejected(store, st)
  /\ Closed
  /\ UNCHANGED <<disk, cutShort, shown>>

(* The window had no case: delete_model takes the empty model out again. *)
DeleteEmpty ==
  /\ task # NoModel /\ todo = {} /\ net = EmptyNet
  /\ net' = NoNet /\ todo' = Script(task, NoNet)
  /\ UNCHANGED <<disk, store, attached, task, cutShort, shown>>

(* The script is through: the net is read back for the answer. *)
Answer ==
  /\ task # NoModel /\ todo = {} /\ net # EmptyNet
  /\ shown' = IF attached THEN [shown EXCEPT ![task] = net] ELSE shown
  /\ Closed
  /\ UNCHANGED <<disk, cutShort>>

(* The daemon dies, or a statement fails. *)
CutShort ==
  /\ task # NoModel
  /\ cutShort' = (cutShort \/ attached)
  /\ Closed
  /\ UNCHANGED <<disk, shown>>

(* _clear_kuzu_projection removes the files whoever has them open. *)
Clear ==
  /\ disk # NoRows
  /\ disk' = NoRows
  /\ attached' = FALSE
  /\ cutShort' = (cutShort /\ task # NoModel)
  /\ shown' = [m \in Models |-> NoNet]
  /\ UNCHANGED <<store, task, net, todo>>

Next ==
  \/ \E m \in Models : Begin(m)
  \/ Execute \/ Conflict \/ DeleteEmpty \/ Answer \/ CutShort \/ Clear

Spec == Init /\ [][Next]_vars

-----------------------------------------------------------------------------
(* What a rebuild answered is what the database shows for that model until  *)
(* its next rebuild: every node, arc and token of the mined net and nothing *)
(* of an earlier one, or no model at all for an empty window.               *)
AnsweredNetIsShown ==
  \A m \in Models : shown[m] # Unknown => ReadNet(disk, m) = shown[m]

(* "Idempotent on model_id" (persist_model): as long as no script was cut   *)
(* short, a rebuild meets no key that an earlier one left behind.           *)
RebuildsRepeat ==
  \A st \in Ready : Rejected(store, st) => cutShort

(* A rebuild changes what is shown for its own model only. *)
OthersUntouched ==
  [][disk' # NoRows =>
       \A m \in Models \ {task} : ReadNet(disk, m)' = ReadNet(disk, m)]_vars

(* "any pre-existing rows for the same model are removed first"             *)
(* (persist_model, kuzu_store.py): when the model's row is to be created    *)
(* none of its nodes is left.                                               *)
RowsRemovedFirst ==
  \A m \in Models :
    task = m /\ Create(ModelNode(m)) \in Ready
      => store.nodes \cap NodesOf(m) = {}
=============================================================================
