------------------------------ MODULE MCTasks ------------------------------
(***************************************************************************)
(* A controller, a target, its fork parent and two forked children: one    *)
(* worker runs a module in the target twice and then an isolated one, the  *)
(* other an asynchronous one with a time limit, all of the same file.      *)
(***************************************************************************)
EXTENDS Tasks, TLC

CONSTANTS root, target, fp, m1, m2, iso, asy, modfile

MCNodes == {root, target, fp, iso, asy}
MCParent == [n \in MCNodes \ {root} |->
                CASE n = target -> root [] n = fp -> target [] OTHER -> fp]
MCPlaybooks == {<<<<m1, m2, iso>>>>, <<<<m1>>, <<iso>>>>, <<<<m1, asy>>>>}
MCPathOf == [t \in Tasks |-> modfile]

-----------------------------------------------------------------------------
(* Ansible's own module_utils, and what a directory beside a playbook may  *)
(* have in their place or in addition; a host that is given two tasks.     *)
D == INSTANCE Dependencies

From(name, leaves) == [level |-> 0, name |-> name, leaves |-> leaves]
Near(leaves) == [level |-> 1, name |-> <<>>, leaves |-> leaves]
File(imports) == [kind |-> "file", imports |-> imports]
Package(imports) == [kind |-> "pkg", imports |-> imports]

Owns ==
    {<<"a">> :> File(<<From(<<"b">>, {})>>) @@ <<"b">> :> File(<<>>) @@ <<"p">> :> Package(y)
        @@ <<"p", "s">> :> File(<<From(<<>>, {"a"})>>) : y \in {<<>>, <<Near({"s"})>>}}

Others ==
    {<<>>,
     <<"a">> :> File(<<From(<<"p", "s">>, {"f"})>>),
     <<"b">> :> File(<<From(<<"c">>, {})>>) @@ <<"c">> :> File(<<From(<<"a">>, {"f"})>>),
     <<"p">> :> Package(<<>>) @@ <<"s">> :> File(<<>>),
     <<"p">> :> Package(<<>>) @@ <<"p", "s">> :> File(<<From(<<"b">>, {})>>),
     <<"p">> :> [kind |-> "bare", imports |-> <<>>] @@ <<"p", "s">> :> File(<<>>)}

Given ==
    [imports : {<<From(<<>>, {"a", "b"})>>, <<From(<<"p", "s">>, {"f"})>>, <<From(<<"p">>, {"s", "f"})>>},
     path : {<<>>, <<1>>}, fork : BOOLEAN]

\* A second task that forks is as if it were the first.
Worlds ==
    {[dirs |-> <<x, y>>, tasks |-> <<t, u>>,
      loaded |-> IF t.fork = (t.path = <<>>) THEN {<<"b">>} ELSE {}] :
        x \in Others, y \in Owns, t \in Given, u \in {g \in Given : ~g.fork}}

\* A module runs with the module_utils its search path gives, whatever ran before it in
\* the same process; both scanners find the same; and nothing is left to fetch. Worlds
\* do not change: the initial state is where TLC evaluates it.
RunsWhatWasFound ==
    TasksInit => \A w \in Worlds : D!RunsWhatWasFound(w) /\ D!SameWithImp(w) /\ D!NothingLeftToFetch(w)

-----------------------------------------------------------------------------
V == INSTANCE Environment

Pams == {<<>>, <<<<"x", "1">>>>, <<<<"x", "2">>>>, <<<<"x", "2">>, <<"x", "1">>, <<"z", "1">>>>}
Environs == {<<>>, "x" :> "1", "x" :> "2" @@ "y" :> "1", "y" :> "2" @@ "z" :> "1"}

Environments ==
    {[inherits |-> e,
      files |-> [k \in 1..3 |-> [pam |-> c[k], etc |-> IF k = 2 THEN <<>> ELSE <<<<"y", "1">>>>]],
      differs |-> [k \in 1..3 |-> d[k]],
      env |-> [k \in 1..3 |-> IF k = 2 THEN v ELSE <<>>],
      leaves |-> [k \in 1..3 |-> "x" :> "3"]] :
        e \in Environs, c \in [1..3 -> Pams], d \in [1..3 -> SUBSET {"pam", "etc"}],
        v \in {<<>>, "x" :> V!None, "y" :> "4"}}

\* A task sees the environment files as they are and nothing another task left behind;
\* evaluated as the above.
SeesNoOther == TasksInit => \A w \in Environments : V!SeesNoOther(w)

\* Nor a variable it is to be without; evaluated as the above.
NoneUnsets == TasksInit => \A w \in Environments : V!NoneUnsets(w)
=============================================================================
