---------------------------- MODULE LearningPath ----------------------------
(***************************************************************************)
(* The learning path of internal/application/progress/service.go: the      *)
(* knowledge nodes in the order they should be learned, narrowed to a      *)
(* target, each with its status.  The prerequisites are drawn by people    *)
(* and may be circular.  Mastery, confidence and the graph are read one    *)
(* after the other, without a transaction; a path is computed from what    *)
(* was read.                                                               *)
(***************************************************************************)
EXTENDS Integers, Sequences, FiniteSets

CONSTANTS
  Nodes,       \* CONCEPT, THEOREM and METHOD nodes, by their ids: numbers
  Threshold    \* masteryThreshold, in steps of mastery

VARIABLES
  prerequisites,  \* HAS_PREREQUISITE: <<node, its prerequisite>>
  learned,        \* per node: mastery, confidence of 0.5 and more, exercises
  path            \* the path that was shown last

pathVars == <<prerequisites, learned, path>>

Unknown == [mastery |-> 0, confident |-> FALSE, exercises |-> 0]
NoPath == [target |-> 0, order |-> <<>>]

PathInit ==
  /\ prerequisites \in SUBSET {e \in Nodes \X Nodes : e[1] # e[2]}
  /\ learned = [n \in Nodes |-> Unknown]
  /\ path = NoPath

prereqEdges(n) == {m \in Nodes : <<n, m>> \in prerequisites}
dependents(n) == {m \in Nodes : <<m, n>> \in prerequisites}
Mastered(n) == learned[n].mastery >= Threshold

-----------------------------------------------------------------------------
(* The order: of the nodes whose prerequisites are all placed, the one known
   least; what is left is on a circle, or behind one, and comes last, sorted. *)

Before(m, n) == \/ learned[m].mastery < learned[n].mastery
                \/ learned[m].mastery = learned[n].mastery /\ m < n
Least(S) == CHOOSE n \in S : \A m \in S \ {n} : Before(n, m)

inDegree(n, placed) == Cardinality(prereqEdges(n) \ placed)
Ready(placed) == {n \in Nodes \ placed : inDegree(n, placed) = 0}

Sorted(S) ==
  LET sorted[T \in SUBSET S] ==
        IF T = {} THEN <<>> ELSE <<Least(T)>> \o sorted[T \ {Least(T)}]
  IN sorted[S]

Placed(order) == {order[i] : i \in DOMAIN order}

topologicalLearningOrder ==
  LET taken[k \in 0..Cardinality(Nodes)] ==
        IF k = 0 THEN <<>>
        ELSE LET open == Ready(Placed(taken[k - 1])) IN
             IF open = {} THEN taken[k - 1] ELSE Append(taken[k - 1], Least(open))
      order == taken[Cardinality(Nodes)]
  IN order \o Sorted(Nodes \ Placed(order))

\* Mutant: what a prerequisite itself rests on is not visited.
DirectPrerequisites(target) == {target} \cup prereqEdges(target)
(* the stack of collectPrerequisites, as the sets it has visited *)
collectPrerequisites(target) ==
  LET visited[k \in 0..Cardinality(Nodes)] ==
        IF k = 0 THEN {target}
        ELSE visited[k - 1] \cup UNION {prereqEdges(n) : n \in visited[k - 1]}
  IN visited[Cardinality(Nodes)]

(* for a target that is mastered, only what it rests on and is not *)
collectLearningSubgraph(targets) ==
  LET needed == UNION {IF Mastered(t)
                         THEN UNION {collectPrerequisites(n) : n \in {m \in prereqEdges(t) : ~Mastered(m)}}
                         ELSE collectPrerequisites(t) : t \in targets}
  IN IF needed = {} THEN targets ELSE needed

\* A target that names no node, or none at all: the whole graph.
selectTargetNodes(target) == {n \in Nodes : n = target}

GetLearningPath(target) ==
  LET targets == selectTargetNodes(target)
      kept == IF targets = {} THEN Nodes ELSE collectLearningSubgraph(targets)
      Kept(n) == n \in kept
  IN
  /\ path' = [target |-> target, order |-> SelectSeq(topologicalLearningOrder, Kept)]
  /\ UNCHANGED <<prerequisites, learned>>

lockedPrerequisites(n) == {m \in prereqEdges(n) : ~Mastered(m) \/ ~learned[m].confident}

learningNodeStatus(n) ==
  IF Mastered(n) /\ learned[n].confident THEN "completed"
  ELSE IF lockedPrerequisites(n) # {} THEN "locked"
  ELSE IF learned[n].exercises > 0 THEN "current" ELSE "available"

(* an exercise about the node, and what the estimate makes of it; with time the
   mastery that is shown fades, the confidence does not *)
Exercise(n, mastery, confident) ==
  /\ mastery \in 0..Threshold
  /\ learned' = [learned EXCEPT ![n] = [mastery |-> mastery, confident |-> confident,
                                        exercises |-> 1]]
  /\ path' = NoPath /\ UNCHANGED prerequisites

Fade(n) ==
  /\ learned[n].mastery > 0
  /\ learned' = [learned EXCEPT ![n].mastery = @ - 1]
  /\ path' = NoPath /\ UNCHANGED prerequisites

PathNext ==
  \/ \E target \in Nodes \cup {0} : GetLearningPath(target)
  \/ \E n \in Nodes, m \in 0..Threshold, c \in BOOLEAN : Exercise(n, m, c)
  \/ \E n \in Nodes : Fade(n)

-----------------------------------------------------------------------------
(* Properties.                                                             *)

Positions == DOMAIN path.order
OnPath == {path.order[i] : i \in Positions}
Circular(n) == \E m \in prereqEdges(n) : n \in collectPrerequisites(m)
Behind(n) == \E m \in collectPrerequisites(n) : Circular(m)

(* A path names a node once, and after every prerequisite of it that is on the
   path, circles apart. *)
PathIsOrdered ==
  /\ \A i, j \in Positions : i # j => path.order[i] # path.order[j]
  /\ \A i, j \in Positions :
       path.order[i] \in prereqEdges(path.order[j]) /\ ~Behind(path.order[j]) => i < j

(* A path never leaves the student without something to do: when its target, or with
   no target some node, is still below the threshold and no circle is behind it, a
   node on the path is open, whatever the confidences; and a locked node that leads
   to the target has what locks it on the path, too. *)
PathIsOpen ==
  path # NoPath /\ (\A n \in OnPath : ~Behind(n)) =>
    LET t == path.target IN
    (IF t = 0 THEN \E n \in Nodes : ~Mastered(n) ELSE ~Mastered(t)) =>
      /\ \E n \in OnPath : learningNodeStatus(n) \in {"current", "available"}
      /\ \A n \in OnPath : lockedPrerequisites(n) \subseteq OnPath

PathHolds == PathIsOrdered /\ PathIsOpen
=============================================================================
