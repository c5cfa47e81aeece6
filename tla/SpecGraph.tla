------------------------------ MODULE SpecGraph ------------------------------
(***************************************************************************)
(* The dependency graph of the active changes (spec_graph.py) and what the *)
(* runner schedules from it (runner.py, select_next_action), without open  *)
(* issues and explicit targets, which module Runner has.  Names are        *)
(* numbers, in the order the code sorts them by.                           *)
(*                                                                         *)
(* find_cycles is the state machine: one action per step of its            *)
(* depth-first search, for every graph over Changes.  Its result decides   *)
(* what StartsChange and Stops do until nothing more can be scheduled.     *)
(* The order among eligible changes (depth, then name) is left open.       *)
(***************************************************************************)
EXTENDS SequencesExt

CONSTANTS
  Changes,    \* the names of changes: 1 .. n
  Recorded    \* those the handoff's history may name as completed from the start

ASSUME GraphAssumption == Changes \subseteq Nat /\ IsFiniteSet(Changes) /\ Recorded \subseteq Changes

VARIABLES
  declared,   \* active change -> the predecessors its metadata declares, or Malformed
  completed,  \* the changes the handoff records as completed
  color,      \* active change -> 0 unseen, 1 on the stack, 2 left
  stack,      \* the stack of _visit
  todo,       \* active change -> dependencies _visit has not looked at
  found,      \* the cycles reported, each from its smallest member
  stop        \* why the runner stopped, "none" while it goes on

graphVars == <<declared, completed, color, stack, todo, found, stop>>

(* Not a mapping, not a list, an empty name, or the change itself.         *)
Malformed == Changes

(* read_spec_dependencies: what the metadata of change n may amount to.    *)
Metadata(n) == SUBSET (Changes \ {n}) \cup {Malformed}

(* discover_active_changes: the directories that are neither hidden nor    *)
(* the archive; a change outside may be finished, archived or invented.    *)
ActiveSets == {Changes, Changes \ {Max(Changes)}}

Active == DOMAIN declared
GraphErrors == {n \in Active : declared[n] = Malformed}

(* load_graph: malformed metadata declares nothing and is kept as an error. *)
Predecessors(n) == IF n \in GraphErrors THEN {} ELSE declared[n]

MissingOf(n) == Predecessors(n) \ (Active \cup completed)
Incomplete(n) == Predecessors(n) \ completed
InCycles == UNION {ToSet(c) : c \in found}

GraphInit ==
  /\ \E act \in ActiveSets :
       /\ declared \in {f \in [act -> SUBSET Changes] : \A n \in act : f[n] \in Metadata(n)}
       /\ color = [n \in act |-> 0]
  /\ completed \in SUBSET Recorded
  /\ todo = [n \in Active |-> Predecessors(n) \cap Active]
  /\ stack = <<>> /\ found = {} /\ stop = "none"

Enters(n) == color' = [color EXCEPT ![n] = 1] /\ stack' = Append(stack, n)
LooksAt(d) == todo' = [todo EXCEPT ![Last(stack)] = @ \ {d}]
NextDep == Min(todo[Last(stack)])
Searching == stack # <<>>
Unseen == {n \in Active : color[n] = 0}

VisitsRoot ==
  /\ ~Searching /\ Unseen # {}
  /\ Enters(Min(Unseen))
  /\ UNCHANGED <<declared, completed, todo, found, stop>>

VisitsDep ==
  /\ Searching /\ todo[Last(stack)] # {} /\ color[NextDep] = 0
  /\ LooksAt(NextDep) /\ Enters(NextDep)
  /\ UNCHANGED <<declared, completed, found, stop>>

PassesBy ==
  /\ Searching /\ todo[Last(stack)] # {} /\ color[NextDep] = 2
  /\ LooksAt(NextDep)
  /\ UNCHANGED <<declared, completed, color, stack, found, stop>>

Normalized(c) ==
  LET i == CHOOSE j \in DOMAIN c : c[j] = Min(ToSet(c))
  IN  SubSeq(c, i, Len(c)) \o SubSeq(c, 1, i - 1)

Raw(d) == SubSeq(stack, CHOOSE i \in DOMAIN stack : stack[i] = d, Len(stack))

ClosesCycle_NotBack ==
  /\ Searching /\ todo[Last(stack)] # {} /\ color[NextDep] = 1
  /\ LooksAt(NextDep)
  /\ found' = IF Len(stack) > 1 /\ NextDep = stack[Len(stack) - 1] THEN found
              ELSE found \cup {Normalized(Raw(NextDep))}
  /\ UNCHANGED <<declared, completed, color, stack, stop>>

ClosesCycle ==
  /\ Searching /\ todo[Last(stack)] # {} /\ color[NextDep] = 1
  /\ LooksAt(NextDep)
  /\ found' = found \cup {Normalized(Raw(NextDep))}
  /\ UNCHANGED <<declared, completed, color, stack, stop>>

Backtracks ==
  /\ Searching /\ todo[Last(stack)] = {}
  /\ color' = [color EXCEPT ![Last(stack)] = 2]
  /\ stack' = Front(stack)
  /\ UNCHANGED <<declared, completed, todo, found, stop>>

EligibleChanges ==
  {n \in Active \ (completed \cup InCycles) : MissingOf(n) = {} /\ Incomplete(n) = {}}

(* find_cycles has returned, and the metadata of every change was read.    *)
Searched == ~Searching /\ Unseen = {} /\ stop = "none"

(* The cycle of the runner that starts the change ends with it verified.   *)
StartsChange ==
  /\ Searched /\ GraphErrors = {}
  /\ \E n \in EligibleChanges : completed' = completed \cup {n}
  /\ UNCHANGED <<declared, color, stack, todo, found, stop>>

(* The reason select_next_action gives when no change is eligible.         *)
Reason ==
  IF GraphErrors # {} THEN "malformed"
  ELSE IF Active \subseteq completed THEN "drained"
  ELSE IF \E n \in Active : MissingOf(n) # {} THEN "missing"
  ELSE IF found # {} THEN "cycle"
  ELSE "waits"

Stops ==
  /\ Searched /\ (GraphErrors # {} \/ EligibleChanges = {})
  /\ stop' = Reason
  /\ UNCHANGED <<declared, completed, color, stack, todo, found>>

GraphNext ==
  \/ VisitsRoot \/ VisitsDep \/ PassesBy \/ ClosesCycle \/ Backtracks
  \/ StartsChange \/ Stops

GraphSpec == GraphInit /\ [][GraphNext]_graphVars

-----------------------------------------------------------------------------
(* Each member declares the next and the last the first, none comes twice, *)
(* and it is told from its smallest member, so that the recorded blocker   *)
(* stays the same from cycle to cycle (spec_graph.py:189-228).             *)
Follower(c, i) == IF i = Len(c) THEN 1 ELSE i + 1

IsCycle(c) ==
  /\ \A i \in DOMAIN c : c[Follower(c, i)] \in Predecessors(c[i])
  /\ IsInjective(c) /\ c[1] = Min(ToSet(c))

(* When nothing more is scheduled, the operator is told to break real      *)
(* cycles only, and what is recorded explains every change left over: each *)
(* depends, directly or not, on a missing one or on a member of a reported *)
(* cycle, although find_cycles leaves out nodes it has seen and may miss a *)
(* change on a cycle.  The last branch of select_next_action               *)
(* (runner.py:201-208) is never reached.                                   *)
BlockersAreNamed ==
  stop \in {"missing", "cycle", "waits"} =>
    /\ \A c \in found : IsCycle(c)
    /\ LET left == Active \ completed
       IN \A S \in SUBSET left :
            /\ \A n \in left : MissingOf(n) # {} \/ n \in InCycles => n \in S
            /\ \A n \in left : Predecessors(n) \cap S # {} => n \in S
            => S = left
=============================================================================
