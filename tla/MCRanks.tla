------------------------------- MODULE MCRanks -------------------------------
(***************************************************************************)
(* Ranks for TLC: what ranks may print, and the launches and tasks tried.   *)
(***************************************************************************)
EXTENDS Ranks

----------------------------------------------------------------------------
(* What the ranks may print: a lone rank up to four lines, one of them a    *)
(* result, in any order; a rank of a cohort a result, alone or beside       *)
(* another line.                                                            *)

Printed == INSTANCE LocalRanks WITH Launches <- {}

Terminal(p) == Printed!Terminal(p)
Collected(p) == Printed!Collected(p)
Summary(n) == Printed!Summary(n)
Width(w) == Printed!Width(w)
Garbage == Printed!Garbage

Ends == {Terminal("good"), Terminal("bad"), Terminal("none")}
Others == {Collected("good"), Collected("other"), Collected("bad"), Summary(1), Summary(2),
           Width("requested"), Width("fallback"), Garbage}

LoneScripts ==
    {<<>>} \cup {<<e>> : e \in Ends}
    \cup {<<x, e>> : x \in Others, e \in Ends}
    \cup {<<x, y, e>> : x \in Others, y \in Others, e \in Ends}
    \cup {<<x, y, z, e>> : x \in {Collected("good"), Collected("other")},
                           y \in {Collected("good"), Collected("other"), Width("requested")},
                           z \in {Summary(1), Summary(2)}, e \in Ends}
CohortScripts ==
    {<<>>} \cup {<<e>> : e \in Ends \cup {Terminal("other")}}
    \cup {<<x, Terminal("good")>> :
              x \in {Collected("good"), Summary(1), Width("fallback"), Garbage}}
SomeScripts == {<<Terminal("good")>>, <<Terminal("good"), Terminal("none")>>}

----------------------------------------------------------------------------
(* Launches: a lone rank; two ranks, one deaf to SIGTERM and one with a     *)
(* descendant; the same with a rank that even SIGKILL does not end.         *)

Lone(plan) == [world |-> 1, deaf |-> {}, stuck |-> {}, forking |-> {}, plan |-> plan]
Pair(stuck, plan) ==
    [world |-> 2, deaf |-> {1}, stuck |-> stuck, forking |-> {0}, plan |-> plan]

MCPaths == {"good", "other", "bad"}
MCSolving == {"good", "other"}
MCLaunches ==
    {Lone(plan) : plan \in [{0} -> LoneScripts]}
    \cup {Pair({}, plan) : plan \in [{0, 1} -> CohortScripts]}
    \cup {Pair({0}, plan) : plan \in [{0, 1} -> SomeScripts]}

\* Two tasks for two ranks and two places, in any assignment.
MCTasks == {"t1", "t2"}
MCRankNumbers == {0, 1}
MCPlaces == {"a", "b"}
MCMayCrash == {"t1"}
=============================================================================
