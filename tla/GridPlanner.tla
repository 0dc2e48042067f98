------------------------------ MODULE GridPlanner ------------------------------
(***************************************************************************)
(* The navigation example's Units on one grid: decoder, inflation, the A* or  *)
(* Dijkstra planner with its prepared workspace, and the line-of-sight        *)
(* smoother.  A cell is its row-major index.                                 *)
(*                                                                         *)
(* The planner keeps its workspace between runs and resets only the cells of  *)
(* the grid at hand; it never removes an entry from the open heap but skips   *)
(* those that a shorter distance has made stale.                             *)
(***************************************************************************)
EXTENDS Integers, Sequences, FiniteSets, FiniteSetsExt, SequencesExt

CONSTANTS
  Workloads,     \* sequences of grids given to one planner
  MaxCells,      \* max_cells of the planner: cells of its workspace
  MaxPath,       \* max_path of the planner
  MaxSmoothed,   \* max_path of the smoother
  MaxExpansions, \* max_expansions
  Inf            \* INF

(* Sizes are unsigned, and a list of grids is a sequence.                      *)
ASSUME PlannerAssumption ==
  /\ MaxCells \in Nat /\ MaxPath \in Nat /\ MaxSmoothed \in Nat /\ MaxExpansions \in Nat
  /\ Inf \in Nat /\ Inf > MaxCells
  /\ \A grids \in Workloads :
       /\ grids \in Seq({grids[i] : i \in DOMAIN grids})
       /\ \A i \in DOMAIN grids :
            /\ {grids[i].width, grids[i].height, grids[i].radius} \subseteq Nat
            /\ \A c \in DOMAIN grids[i].data : grids[i].data[c] \in Int

VARIABLES
  algorithm,  \* "AStar" or "Dijkstra"
  work,       \* grids still to plan, the one at hand first
  distance, parent, closed, open, expansions,
  rawPath,    \* raw_path, from the goal backwards
  path,       \* path of the smoother
  anchor,
  pc,
  outcome,
  route       \* route_distances of the grid at hand (history)

plannerVars == <<algorithm, work, distance, parent, closed, open, expansions,
                 rawPath, path, anchor, pc, outcome, route>>

Grid == Head(work)
Cells == 0 .. Grid.width * Grid.height - 1
X(c) == c % Grid.width
Y(c) == c \div Grid.width

Neighbors(c) ==
  {n \in {c - 1, c + 1, c - Grid.width, c + Grid.width} \cap Cells :
     X(n) = X(c) \/ Y(n) = Y(c)}

Abs(n) == IF n < 0 THEN -n ELSE n
Manhattan(a, b) == Abs(X(a) - X(b)) + Abs(Y(a) - Y(b))

Square(c, r) == {n \in Cells : Abs(X(n) - X(c)) <= r /\ Abs(Y(n) - Y(c)) <= r}

(* The decoder's map: unknown and likely occupied cells; and the cost map, in  *)
(* which each of them marks the square around it.                            *)
Binary == {c \in Cells : Grid.data[c] < 0 \/ Grid.data[c] >= 50}
Cost == UNION {Square(c, Grid.radius) : c \in Binary}
Free == Cells \ Cost

(* inflated_free_cells, of the itinerary: no cell in the square but free ones. *)
ItineraryFree == {c \in Cells : \A n \in Square(c, 1) : Grid.data[n] = 0}

(* route_distances: breadth first, from the start, over some free cells.      *)
RouteDistances(free) ==
  LET within[n \in Nat] ==
        IF n = 0 THEN {Grid.start}
        ELSE LET before == within[n - 1]
             IN  before \cup {c \in free : Neighbors(c) \cap before # {}}
      reached == within[Cardinality(free)]
  IN  [c \in Cells |->
         IF c \in reached THEN CHOOSE n \in 0 .. Cardinality(free) :
                c \in within[n] /\ (n = 0 \/ c \notin within[n - 1])
         ELSE Inf]

(* validate_grid. *)
ValidGrid ==
  /\ Cardinality(Cells) \in 1 .. MaxCells
  /\ DOMAIN Grid.data = Cells
  /\ Grid.start \in Cells /\ Grid.goal \in Cells

PlannerInit ==
  /\ algorithm \in {"AStar", "Dijkstra"}
  /\ work \in Workloads
  /\ distance = [c \in 0 .. MaxCells - 1 |-> Inf]
  /\ parent = [c \in 0 .. MaxCells - 1 |-> Inf]
  /\ closed = {}
  /\ open = {}
  /\ expansions = 0
  /\ rawPath = <<>> /\ path = <<>> /\ anchor = 0
  /\ pc = "ready"
  /\ outcome = "none"
  /\ route = [c \in {} |-> 0]
------------------------------------------------------------------------------
(* The planner. *)

Heuristic(c) == IF algorithm = "AStar" THEN Manhattan(c, Grid.goal) ELSE 0

(* An entry of the open heap, and the order of the heap.                      *)
Entry(c, d) == [score |-> d + Heuristic(c), cell |-> c, distance |-> d]

Before(e, f) ==
  \/ e.score < f.score
  \/ e.score = f.score /\ e.cell < f.cell
  \/ e.score = f.score /\ e.cell = f.cell /\ e.distance <= f.distance

OpenCapacity == 4 * MaxCells + 1

Return(result) == pc' = "done" /\ outcome' = result

(* Mutation of Reset: the closed flags of the grid before stay.               *)
ResetDistances(cells, start) ==
  /\ distance' = [c \in DOMAIN distance |->
                    IF c \in start THEN 0 ELSE IF c \in cells THEN Inf ELSE distance[c]]
  /\ parent' = [c \in DOMAIN parent |-> IF c \in cells THEN Inf ELSE parent[c]]
  /\ UNCHANGED closed

Reset(cells, start) ==
  /\ distance' = [c \in DOMAIN distance |->
                    IF c \in start THEN 0 ELSE IF c \in cells THEN Inf ELSE distance[c]]
  /\ parent' = [c \in DOMAIN parent |-> IF c \in cells THEN Inf ELSE parent[c]]
  /\ closed' = closed \ cells

(* A grid is refused by the decoder, before the workspace is cleared, or by   *)
(* the planner, after, if its start or its goal is not free.                  *)
Start ==
  /\ pc = "ready" /\ work # <<>>
  /\ IF ~ValidGrid
       THEN /\ Return("invalid grid")
            /\ UNCHANGED <<distance, parent, closed, open, expansions, rawPath, route>>
       ELSE /\ rawPath' = <<>>
            /\ route' = RouteDistances(Free)
            /\ expansions' = 0
            /\ IF {Grid.start, Grid.goal} \subseteq Free
                 THEN /\ Reset(Cells, {Grid.start})
                      /\ open' = {Entry(Grid.start, 0)}
                      /\ pc' = "search" /\ UNCHANGED outcome
                 ELSE Reset(Cells, {}) /\ open' = {} /\ Return("occupied")
  /\ UNCHANGED <<algorithm, work, path, anchor>>

Best == CHOOSE e \in open : \A f \in open : Before(e, f)
Stale(e) == e.cell \in closed \/ e.distance # distance[e.cell]

SkipStale ==
  /\ pc = "search" /\ open # {} /\ Stale(Best)
  /\ open' = open \ {Best}
  /\ UNCHANGED <<algorithm, work, distance, parent, closed, expansions, rawPath,
                 path, anchor, pc, outcome, route>>

(* Mutation of Improves: a cell that has a distance keeps it.                 *)
ImprovesFirst(c, candidate) ==
  c \in Free \ closed /\ distance[c] = Inf

Improves(c, candidate) ==
  c \in Free \ closed /\ candidate < distance[c]

(* The neighbours are relaxed in turn; the heap may run full at any of them.  *)
Expand ==
  /\ pc = "search" /\ open # {} /\ ~Stale(Best) /\ Best.cell # Grid.goal
  /\ LET best      == Best.cell
         candidate == distance[best] + 1
         improved  == {n \in Neighbors(best) : Improves(n, candidate)}
     IN
       IF expansions = MaxExpansions
         THEN /\ Return("search_workspace")
              /\ open' = open \ {Best}
              /\ UNCHANGED <<distance, parent, closed, expansions>>
         ELSE /\ closed' = closed \cup {best}
              /\ expansions' = expansions + 1
              /\ distance' = [c \in DOMAIN distance |->
                                IF c \in improved THEN candidate ELSE distance[c]]
              /\ parent' = [c \in DOMAIN parent |->
                              IF c \in improved THEN best ELSE parent[c]]
              /\ open' = (open \ {Best}) \cup {Entry(c, candidate) : c \in improved}
              /\ IF Cardinality(open') > OpenCapacity
                   THEN Return("search_open_set")
                   ELSE UNCHANGED <<pc, outcome>>
  /\ UNCHANGED <<algorithm, work, rawPath, path, anchor, route>>

(* The search ends when the goal comes out of the heap or the heap is empty.  *)
EndSearch ==
  /\ pc = "search"
  /\ open # {} => ~Stale(Best) /\ Best.cell = Grid.goal
  /\ pc' = IF distance[Grid.goal] = Inf THEN "smooth" ELSE "trace"
  /\ open' = IF open = {} THEN open ELSE open \ {Best}
  /\ UNCHANGED <<algorithm, work, distance, parent, closed, expansions, rawPath,
                 path, anchor, outcome, route>>

(* One point of the path, from the goal back to the start.                    *)
Trace ==
  /\ pc = "trace"
  /\ LET current == IF rawPath = <<>> THEN Grid.goal ELSE parent[Head(rawPath)]
     IN  IF Len(rawPath) = MaxPath
           THEN Return("raw_path") /\ UNCHANGED rawPath
           ELSE /\ rawPath' = <<current>> \o rawPath
                /\ pc' = IF current = Grid.start THEN "smooth" ELSE "trace"
                /\ UNCHANGED outcome
  /\ UNCHANGED <<algorithm, work, distance, parent, closed, open, expansions,
                 path, anchor, route>>
------------------------------------------------------------------------------
(* The smoother. *)

Sign(n) == IF n > 0 THEN 1 ELSE -1

(* line_is_clear: the cells of the line are those of Bresenham's algorithm,   *)
(* from one end to the other; the two directions may differ.                  *)
LineCells(from, to) ==
  LET dx == Abs(X(to) - X(from))
      dy == -Abs(Y(to) - Y(from))
      at[k \in Nat] ==
        IF k = 0 THEN [x |-> X(from), y |-> Y(from), error |-> dx + dy]
        ELSE LET p     == at[k - 1]
                 right == 2 * p.error >= dy
                 down  == 2 * p.error <= dx
             IN  [x     |-> IF right THEN p.x + Sign(X(to) - X(from)) ELSE p.x,
                  y     |-> IF down THEN p.y + Sign(Y(to) - Y(from)) ELSE p.y,
                  error |-> p.error + (IF right THEN dy ELSE 0)
                                    + (IF down THEN dx ELSE 0)]
  IN  {at[k].y * Grid.width + at[k].x : k \in 0 .. Max({dx, -dy})}

LineIsClear(from, to) == LineCells(from, to) \subseteq Free

(* Mutation of Visible: the line is drawn from the far end.                   *)
VisibleBackwards(i) ==
  i = anchor + 1 \/ LineIsClear(rawPath[i], rawPath[anchor])

(* A point the smoother may go to next: the next one, without a test, or a    *)
(* later one in line of sight.                                                *)
Visible(i) ==
  i = anchor + 1 \/ LineIsClear(rawPath[anchor], rawPath[i])

BeginSmoothing ==
  /\ pc = "smooth"
  /\ anchor' = 1
  /\ IF rawPath # <<>> /\ MaxSmoothed = 0
       THEN Return("smoothed_path") /\ path' = <<>>
       ELSE /\ path' = IF rawPath = <<>> THEN <<>> ELSE <<Head(rawPath)>>
            /\ pc' = "advance"
            /\ UNCHANGED outcome
  /\ UNCHANGED <<algorithm, work, distance, parent, closed, open, expansions,
                 rawPath, route>>

Advance ==
  /\ pc = "advance" /\ anchor < Len(rawPath)
  /\ IF Len(path) = MaxSmoothed
       THEN Return("smoothed_path") /\ UNCHANGED <<path, anchor>>
       ELSE /\ anchor' = Max({i \in anchor + 1 .. Len(rawPath) : Visible(i)})
            /\ path' = Append(path, rawPath[anchor'])
            /\ UNCHANGED <<pc, outcome>>
  /\ UNCHANGED <<algorithm, work, distance, parent, closed, open, expansions,
                 rawPath, route>>

Publish ==
  /\ pc = "advance" /\ anchor >= Len(rawPath)
  /\ Return("ok")
  /\ UNCHANGED <<algorithm, work, distance, parent, closed, open, expansions,
                 rawPath, path, anchor, route>>

NextGrid ==
  /\ pc = "done"
  /\ work' = Tail(work)
  /\ pc' = "ready"
  /\ UNCHANGED <<algorithm, distance, parent, closed, open, expansions, rawPath,
                 path, anchor, outcome, route>>

PlannerNext ==
  \/ Start \/ SkipStale \/ Expand \/ EndSearch \/ Trace
  \/ BeginSmoothing \/ Advance \/ Publish \/ NextGrid

PlannerSpec == PlannerInit /\ [][PlannerNext]_plannerVars
------------------------------------------------------------------------------
(* While a search goes on: a closed cell has its shortest distance and is not *)
(* opened again, no distance is too short, every distance is along a chain of *)
(* closed cells, and what is still to be expanded is in the heap.             *)
SearchIsSettled ==
  pc = "search" =>
    /\ \A c \in closed \cap Cells : distance[c] = route[c]
    /\ \A c \in Cells : distance[c] # Inf =>
         /\ distance[c] >= route[c]
         /\ c = Grid.start \/ (/\ parent[c] \in closed \cap Neighbors(c)
                               /\ distance[c] = distance[parent[c]] + 1)
         /\ c \in closed \/ Entry(c, distance[c]) \in open
    /\ Cardinality(open) + Cardinality(closed \cap Cells) <= 4 * Cardinality(Cells) + 1

(* What a run of the planner tells is exact: a route if and only if there is  *)
(* one that fits, always a shortest one, the same length for both algorithms; *)
(* the heap never runs full, whatever the grids before left in the workspace;  *)
(* the smoother refuses only a route longer than its own limit.                *)
(* A leg of the itinerary always has a route, no longer than the itinerary's.  *)
PlanIsExact ==
  pc = "done" /\ outcome \notin {"invalid grid", "occupied"} =>
    LET shortest == route[Grid.goal] IN
      /\ outcome = "ok" /\ rawPath = <<>> => shortest = Inf
      /\ outcome \in {"ok", "smoothed_path"} /\ rawPath # <<>> =>
           /\ Len(rawPath) = shortest + 1
           /\ Head(rawPath) = Grid.start /\ Last(rawPath) = Grid.goal
           /\ \A i \in 1 .. Len(rawPath) - 1 :
                rawPath[i + 1] \in Neighbors(rawPath[i]) \cap Free
      /\ outcome = "raw_path" <=> shortest # Inf /\ shortest >= MaxPath
                                    /\ outcome # "search_workspace"
      /\ outcome = "search_workspace" => Cardinality(Free) > MaxExpansions
      /\ outcome # "search_open_set"
      /\ outcome = "smoothed_path" => rawPath # <<>> /\ Len(rawPath) > MaxSmoothed
      /\ Grid.radius <= 1 /\ Grid.start \in ItineraryFree =>
           shortest <= RouteDistances(ItineraryFree)[Grid.goal]

(* The final path joins the same ends over free cells only, as path_metrics   *)
(* will find (collision_free), with points of the raw path in their order.    *)
FinalPathIsClear ==
  pc = "done" /\ outcome = "ok" /\ rawPath # <<>> =>
    /\ Head(path) = Grid.start /\ Last(path) = Grid.goal
    /\ \A i \in 1 .. Len(path) - 1 : LineIsClear(path[i], path[i + 1])
    /\ Len(path) <= Len(rawPath)
    /\ \A i, j \in DOMAIN path : i < j => route[path[i]] < route[path[j]]
==============================================================================
