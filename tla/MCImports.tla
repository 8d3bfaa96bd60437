----------------------------- MODULE MCImports -----------------------------
(* A chain of four contexts: a FORWARD takes two hops below the master.  p *)
(* imports p.a, p.a imports p.b, which is an extension module: the master  *)
(* has no source of it.  What is sent along with what is what Finder says  *)
(* of that world; Finder itself is checked on more of them.                *)
EXTENDS Imports

MCNames == {<<"p">>, <<"p", "a">>, <<"p", "b">>, <<"x">>, <<"b">>, <<"m">>}
F == INSTANCE Finder WITH Names <- MCNames, Main <- <<"m">>,
                          LoadConst <- 2, ImportName <- 1, StoreName <- 3

ImportsOf(mod) == [level |-> 0, mod |-> mod, names |-> <<>>]
FromDot(mod) == [level |-> 1, mod |-> mod, names |-> <<"y">>]

\* Everything is imported, from where it is on disk.
Plain ==
    [entry |-> [n \in MCNames |-> "module"],
     name |-> [n \in MCNames |-> n], spec |-> [n \in MCNames |-> n],
     pkg |-> [n \in MCNames |-> n = <<"p">>],
     file |-> [n \in MCNames |-> "py"],
     disk |-> [n \in MCNames |-> IF n = <<"p">> THEN "package" ELSE "module"],
     stdlib |-> {},
     stmts |-> [n \in MCNames |-> <<>>],
     old |-> FALSE]

World ==
    [Plain EXCEPT !.file[<<"p", "b">>] = "so", !.disk[<<"p", "b">>] = "extension",
                  !.stmts[<<"p">>] = <<ImportsOf(<<"p", "a">>)>>,
                  !.stmts[<<"p", "a">>] = <<ImportsOf(<<"x">>), ImportsOf(<<"p", "b">>)>>,
                  !.stdlib = {<<"x">>, <<"b">>}]

\* Other kinds of modules.
Kinds ==
    {Plain,
     \* p is a namespace package, or exists only in memory
     [Plain EXCEPT !.file[<<"p">>] = "none", !.disk[<<"p">>] = "namespace"],
     [Plain EXCEPT !.file[<<"p">>] = "special", !.disk[<<"p">>] = "none"],
     \* p.a is an extension, has put x or some object in its place, or is not imported
     [Plain EXCEPT !.file[<<"p", "a">>] = "so", !.disk[<<"p", "a">>] = "extension"],
     [Plain EXCEPT !.name[<<"p", "a">>] = <<"x">>, !.spec[<<"p", "a">>] = <<"x">>],
     [Plain EXCEPT !.entry[<<"p", "a">>] = "other", !.spec[<<"p", "a">>] = <<>>,
                   !.file[<<"p", "a">>] = "none"],
     [Plain EXCEPT !.entry[<<"p", "a">>] = "absent"],
     \* p has put x or some object in its place, and p.a is imported or not
     [Plain EXCEPT !.name[<<"p">>] = <<"x">>, !.spec[<<"p">>] = <<"x">>, !.pkg[<<"p">>] = FALSE],
     [Plain EXCEPT !.entry[<<"p">>] = "other", !.name[<<"p">>] = <<>>, !.spec[<<"p">>] = <<>>,
                   !.pkg[<<"p">>] = FALSE, !.file[<<"p">>] = "none", !.entry[<<"p", "a">>] = "absent"],
     \* x is of the standard library, or an import of it failed
     [Plain EXCEPT !.stdlib = {<<"x">>}],
     [Plain EXCEPT !.entry[<<"x">>] = "none", !.file[<<"x">>] = "none"],
     \* m is a script, of which no import finds anything
     [Plain EXCEPT !.spec[<<"m">>] = <<>>, !.file[<<"m">>] = "script"]}

Worlds ==
    {[k EXCEPT !.old = o, !.stmts[<<"p">>] = s[1], !.stmts[<<"p", "a">>] = s[2], !.stmts[<<"p", "b">>] = s[3],
               !.stmts[<<"m">>] = <<ImportsOf(<<"p", "a">>)>>] :
        k \in Kinds, o \in BOOLEAN,
        s \in {<<>>, <<FromDot(<<"a">>)>>, <<ImportsOf(<<"x">>), FromDot(<<"b">>)>>}
              \X {<<>>, <<ImportsOf(<<"b">>), FromDot(<<"b">>)>>,
                  <<[level |-> 0, mod |-> <<"p">>, names |-> <<"b", "c">>], ImportsOf(<<"m">>)>>}
              \X {<<>>, <<ImportsOf(<<"x">>)>>, <<ImportsOf(<<"p", "a">>)>>}}

\* What ModuleFinder serves is the module that was asked for, and what it sends
\* along is what that uses, in all of these worlds: they do not change, so that the
\* initial state is where TLC evaluates it. The imports of a package that has put
\* something else in its place are taken for those of a module.
FindsItsOwn ==
    Init => F!ServesItsOwn(Worlds) /\ F!RelatedIsClosure({w \in Worlds : w.pkg[<<"p">>]})

MCParent == [c1 |-> "r", c2 |-> "c1", c3 |-> "c2"]
MCPath == [p |-> <<"p">>, pa |-> <<"p", "pa">>, pb |-> <<"p", "pb">>, x |-> <<"x">>, b |-> <<"b">>]
MCModules == DOMAIN MCPath
NameOf == [p |-> <<"p">>, pa |-> <<"p", "a">>, pb |-> <<"p", "b">>, x |-> <<"x">>, b |-> <<"b">>]

MCRelated == [m \in MCModules |->
                CASE m = "p" -> <<"pa", "pb">> [] m = "pa" -> <<"p", "pb">> [] OTHER -> <<>>]

\* Related and Servable are what Finder says of World; find_related() sorts.
ASSUME WorldAssumption ==
    \A m \in MCModules \ {"x", "b"} :
        /\ MCRelated[m] = SelectSeq(<<"p", "pa", "pb">>,
                                    LAMBDA k : NameOf[k] \in F!FindRelated(World, NameOf[m]))
        /\ m = "pb" <=> F!GetModuleSource(World, NameOf[m]) = F!NotFound
MCHome == [t1 |-> "c2", t2 |-> "c3", t3 |-> "c2", t4 |-> "c1"]
MCScript == [t1 |-> <<"p", "pa">>, t2 |-> <<"p", "pb">>, t3 |-> <<"p", "x">>,
             t4 |-> <<"res", "b">>]
MCPushes == {<<"c3", "pa">>}
=============================================================================
