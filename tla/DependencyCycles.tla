------------------------- MODULE DependencyCycles ---------------------------
(***************************************************************************)
(* The evaluation of the dependency declarations of one repository: what a *)
(* declaration contributes, the depth-first search that looks for cycles,  *)
(* and the verdict of every open issue.  The search is a machine with the  *)
(* stack of the recursion; the graph is any graph on the open issues.      *)
(***************************************************************************)
EXTENDS Naturals, Sequences, SequencesExt

CONSTANTS
    Open,          \* open issues, small numbers
    References     \* what depends_on entries may be: local, foreign, invalid

ASSUME CyclesAssumption ==
    Open \subseteq Nat \ {0} /\ References \subseteq {"local", "foreign", "invalid"}

VARIABLES
    entries,     \* entries[i]: the declared dependencies, <<kind, issue>>
    finished,    \* open issues with the label status:done
    colour,      \* white, gray, black
    stack,       \* the issues being visited
    left,        \* left[i]: successors that the visit of i has yet to look at
    marked,      \* issues that were found on a cycle
    searching

cycleVars == <<entries, finished, colour, stack, left, marked, searching>>

\* Edges are the entries that name an issue of this repository.
Successors(i) == {n \in Open : <<"local", n>> \in entries[i]}

\* An entry is an issue of this repository, one of another, or no reference.
EntryForms == {<<"local", n>> : n \in Open} \cup {<<r, 0>> : r \in References \ {"local"}}

CyclesInit ==
    /\ entries \in [Open -> SUBSET EntryForms]
    /\ finished \in SUBSET Open
    /\ colour = [i \in Open |-> "white"] /\ stack = <<>> /\ left = [i \in Open |-> {}]
    /\ marked = {} /\ searching = TRUE

Lowest(S) == CHOOSE n \in S : \A m \in S : n <= m

\* visit: the issue turns gray and goes on the stack.
Visit(n) ==
    /\ colour' = [colour EXCEPT ![n] = "gray"] /\ stack' = Append(stack, n)
    /\ left' = [left EXCEPT ![n] = Successors(n)]
    /\ UNCHANGED <<entries, finished, marked, searching>>

\* The roots are taken in ascending order.
StartRoot ==
    /\ searching /\ stack = <<>> /\ \E n \in Open : colour[n] = "white"
    /\ Visit(Lowest({n \in Open : colour[n] = "white"}))

\* extractCyclePath: the stack from the target on.
CyclePath(n) == {stack[k] : k \in {j \in DOMAIN stack : \E h \in 1..j : stack[h] = n}}

\* Mutant: a gray successor is taken for one that was dealt with.
LookAtUnseen ==
    /\ searching /\ stack # <<>> /\ left[Last(stack)] # {}
    /\ LET top == Last(stack)
           n   == Lowest(left[top])
       IN IF colour[n] = "white"
            THEN /\ colour' = [colour EXCEPT ![n] = "gray"] /\ stack' = Append(stack, n)
                 /\ left' = [left EXCEPT ![top] = @ \ {n}, ![n] = Successors(n)]
                 /\ UNCHANGED marked
            ELSE /\ left' = [left EXCEPT ![top] = @ \ {n}]
                 /\ UNCHANGED <<colour, stack, marked>>
    /\ UNCHANGED <<entries, finished, searching>>

\* The next successor of the issue on top: white ones are visited, a gray one
\* closes a cycle, black ones are skipped.
LookAt ==
    /\ searching /\ stack # <<>> /\ left[Last(stack)] # {}
    /\ LET top == Last(stack)
           n   == Lowest(left[top])
       IN IF colour[n] = "white"
            THEN /\ colour' = [colour EXCEPT ![n] = "gray"] /\ stack' = Append(stack, n)
                 /\ left' = [left EXCEPT ![top] = @ \ {n}, ![n] = Successors(n)]
                 /\ UNCHANGED marked
            ELSE /\ left' = [left EXCEPT ![top] = @ \ {n}]
                 /\ marked' = IF colour[n] = "gray" THEN marked \cup CyclePath(n) ELSE marked
                 /\ UNCHANGED <<colour, stack>>
    /\ UNCHANGED <<entries, finished, searching>>

Leave ==
    /\ searching /\ stack # <<>> /\ left[Last(stack)] = {}
    /\ colour' = [colour EXCEPT ![Last(stack)] = "black"] /\ stack' = Front(stack)
    /\ UNCHANGED <<entries, finished, left, marked, searching>>

SearchEnds ==
    /\ searching /\ stack = <<>> /\ \A n \in Open : colour[n] = "black"
    /\ searching' = FALSE
    /\ UNCHANGED <<entries, finished, colour, stack, left, marked>>

CyclesNext == StartRoot \/ LookAt \/ Leave \/ SearchEnds
CyclesSpec == CyclesInit /\ [][CyclesNext]_cycleVars

\* Mutant: only dependencies that are not in the cache hold an issue up.
HoldsUpNot(d) == FALSE

\* An open dependency holds up an issue unless it carries status:done.
HoldsUp(d) == d \notin finished

\* buildResolveResult for dependencies that are all open.
VerdictOf(i) ==
    IF i \in marked \/ \E e \in entries[i] : e[1] # "local" THEN "needs_human"
    ELSE IF \E d \in Successors(i) : HoldsUp(d) THEN "blocked" ELSE "ready"

-----------------------------------------------------------------------------
(* Properties.                                                             *)

\* The issues that i waits for, however many dependencies away: the members of
\* every set that holds what i depends on and what its own members depend on.
Reaches(i) ==
    {j \in Open : \A S \in SUBSET Open :
        Successors(i) \subseteq S /\ (\A k \in S : Successors(k) \subseteq S) => j \in S}

\* Every set of issues that wait for each other in a circle contains one that
\* is put in front of a human, and only issues on a circle are reported, for
\* every graph of declarations and any order of the search (detectCycles).
EveryCycleIsReported ==
    ~searching =>
        /\ marked \subseteq {i \in Open : i \in Reaches(i)}
        /\ \A i \in Open : i \in Reaches(i) => \E j \in marked : j \in Reaches(i) /\ i \in Reaches(j)

\* An issue that waits for itself is never dispatched while none of the
\* issues it waits for is done, even one the search does not mark because
\* it was reached a second time (detectCycles, classifyOpenDependency).
CyclesAreNotReady ==
    ~searching => \A i \in Open : i \in Reaches(i) /\ Reaches(i) \cap finished = {} => VerdictOf(i) # "ready"

=============================================================================
