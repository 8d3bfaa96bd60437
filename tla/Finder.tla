------------------------------- MODULE Finder -------------------------------
(***************************************************************************)
(* master.ModuleFinder: where the master looks for a module's source, and  *)
(* which other modules it sends along with it.  Everything here is a       *)
(* function of the interpreter's state: a world w, of which                *)
(*   w.entry[n]  is what sys.modules holds under n: "absent", "none", or a *)
(*               "module" or some "other" object,                          *)
(*   w.name[n]   its __name__, w.spec[n] the name in its __spec__,         *)
(*   w.pkg[n]    whether it has, or would have, a __path__,                *)
(*   w.file[n]   the file it says it is from: see PyFilename,              *)
(*   w.disk[n]   what an import would find: "none", "module", "package",   *)
(*               "extension" or "namespace",                               *)
(*   w.stdlib    the names is_stdlib_name() accepts, and what holds        *)
(*               "six.moves": neither is sent along with another module,   *)
(*   w.stmts[n]  the import statements at the module's top level,          *)
(*   w.old       whether its Python is older than 3.4: there are no specs. *)
(* A name is the sequence of its components.                               *)
(***************************************************************************)
EXTENDS Naturals, Sequences, FiniteSets, SequencesExt, FiniteSetsExt

CONSTANTS
    Names,                              \* the modules there are
    Main,                               \* the name of __main__
    LoadConst, ImportName, StoreName    \* opcodes, distinct bytes

NoName == <<>>
ParentOf(n) == SubSeq(n, 1, Len(n) - 1)
Parents(n) == {SubSeq(n, 1, k) : k \in 1 .. Len(n) - 1}

NotFound == [of |-> NoName, pkg |-> FALSE]
Source(n, isPkg) == [of |-> n, pkg |-> isPkg]

-----------------------------------------------------------------------------
(* The methods, each of them returning a source or NotFound.               *)

\* _py_filename(): ".pyc" is spelled ".py", a script may have any name, and of
\* what is only in memory the special names pass.
PyFilename(file) ==
    IF file \in {"py", "pyc", "script"} THEN "py" ELSE IF file = "special" THEN "special" ELSE "none"

\* DefectivePython3xMainMethod
FindMain(w, n) ==
    IF n = Main /\ w.entry[n] # "absent" /\ w.file[n] \in {"py", "script"}
    THEN Source(n, FALSE) ELSE NotFound

\* Whether a search from a package may succeed: it has the __path__ of what is in
\* sys.modules under its name, or of what an import finds.
Searchable(w, p) ==
    CASE p = NoName -> TRUE
      [] w.entry[p] = "absent" -> w.disk[p] = "package" \/ (w.disk[p] = "namespace" /\ ~w.old)
      [] OTHER -> w.entry[p] # "none" /\ w.pkg[p]

\* The module whose loader importlib.util.find_spec(n) comes up with: that of the
\* __spec__ of what is in sys.modules under n, or of what is on disk.
LoaderOf(w, n) ==
    IF w.entry[n] = "absent"
    THEN (IF w.disk[n] = "none" \/ ~Searchable(w, ParentOf(n)) THEN NoName ELSE n)
    ELSE IF w.entry[n] = "none" THEN NoName ELSE w.spec[n]

\* Mutant: a loader is believed whatever it loads.
FindPkgutilOfAny(w, n) ==
    LET l == LoaderOf(w, n)
    IN  IF l = NoName \/ PyFilename(w.file[l]) = "none" THEN NotFound
        ELSE Source(l, w.disk[l] \in {"package", "namespace"})

\* PkgutilMethod: get_filename() of a loader for another module raises, as does
\* that of a namespace package; an extension has no source.
FindPkgutil(w, n) ==
    IF LoaderOf(w, n) # n \/ PyFilename(w.file[n]) = "none" THEN NotFound
    ELSE Source(n, w.pkg[n])

\* SysModulesMethod
FindSysModules(w, n) ==
    IF w.entry[n] = "module" /\ w.name[n] = n /\ PyFilename(w.file[n]) = "py"
    THEN Source(n, w.pkg[n]) ELSE NotFound

\* The closest parent whose __spec__ is its own and that of a package.
SaneParent(w, n) ==
    LET sane == {p \in Parents(n) : w.entry[p] \in {"module", "other"} /\ w.spec[p] = p /\ w.pkg[p]}
    IN  IF sane = {} THEN NoName ELSE CHOOSE p \in sane : \A q \in sane : Len(q) <= Len(p)

\* ParentSpecEnumerationMethod: from there on down the disk is searched.
FindFromParent(w, n) ==
    LET between == {p \in Parents(n) : Len(p) > Len(SaneParent(w, n))}
    IN  IF /\ \A p \in between : w.disk[p] \in {"package", "namespace"}
           /\ w.disk[n] \in {"module", "package"}
        THEN Source(n, w.disk[n] = "package") ELSE NotFound

-----------------------------------------------------------------------------
(* The same with an older Python, where the disk is searched with imp.     *)

\* pkgutil.find_loader() asks for a file, whatever is in sys.modules.
FindPkgutilImp(w, n) ==
    IF Searchable(w, ParentOf(n)) /\ w.disk[n] \in {"module", "package"}
    THEN Source(n, w.disk[n] = "package") ELSE NotFound

\* _find_sane_parent(): the closest that has its own __name__ and a __path__.
SaneParentImp(w, n) ==
    LET sane == {p \in Parents(n) : w.entry[p] \in {"module", "other"} /\ w.name[p] = p /\ w.pkg[p]}
    IN  IF sane = {} THEN NoName ELSE CHOOSE p \in sane : \A q \in sane : Len(q) <= Len(p)

\* ParentImpEnumerationMethod: every component but the last must be a PKG_DIRECTORY, and
\* of an extension there is no source.
FindFromParentImp(w, n) ==
    IF /\ \A p \in {q \in Parents(n) : Len(q) > Len(SaneParentImp(w, n))} : w.disk[p] = "package"
       /\ w.disk[n] \in {"module", "package"}
    THEN Source(n, w.disk[n] = "package") ELSE NotFound

-----------------------------------------------------------------------------
\* get_module_source()
GetModuleSource(w, n) ==
    LET tries == IF w.old
                 THEN <<FindMain(w, n), FindPkgutilImp(w, n), FindSysModules(w, n), FindFromParentImp(w, n)>>
                 ELSE <<FindMain(w, n), FindPkgutil(w, n), FindSysModules(w, n), FindFromParent(w, n)>>
        found == SelectSeq(tries, LAMBDA s : s # NotFound)
    IN  IF found = <<>> THEN NotFound ELSE Head(found)

-----------------------------------------------------------------------------
(* The import statements of a module, as its code object shows them.       *)

\* What CPython compiles the statements to, each [level, mod, names]: a prologue,
\* then two constants, the import and a store for each.
Compiled(stmts) ==
    [code |-> <<0, 0>> \o FlattenSeq([i \in DOMAIN stmts |->
                <<LoadConst, 2 * i - 1, LoadConst, 2 * i, ImportName, i, StoreName, i>>]),
     consts |-> FlattenSeq([i \in DOMAIN stmts |-> <<stmts[i].level, stmts[i].names>>]),
     names |-> [i \in DOMAIN stmts |-> stmts[i].mod]]

\* _py36._code_imports(): each byte that could be an IMPORT_NAME, from the place on
\* (counted from 1) where three instructions fit.  Python 2 and its level -1 are left
\* out: find_related_imports() would try both spellings.
CodeImports(co) ==
    LET hits(start) == {i \in start .. Len(co.code) - 1 : co.code[i] = ImportName}
        from[start \in Nat] ==
            LET at == Min(hits(start))
            IN  IF hits(start) = {} THEN {}
                ELSE IF at % 2 = 0 THEN from[at + 1]
                ELSE IF co.code[at - 4] # LoadConst \/ co.code[at - 2] # LoadConst
                     THEN from[at + 2]
                ELSE {[level |-> co.consts[co.code[at - 3]], mod |-> co.names[co.code[at + 1]],
                       names |-> co.consts[co.code[at - 1]]]} \cup from[at + 6]
    IN  from[5]

-----------------------------------------------------------------------------
(* Related modules.                                                        *)

\* _reject_related_module()
Rejected(w, n) ==
    \/ n \notin Names
    \/ w.entry[n] \in {"absent", "none"}
    \/ n \in w.stdlib
    \/ n = Main

\* resolve_relpath(): the package a relative import of module n starts at.
ResolveRelpath(w, n, level) ==
    LET bits == IF w.entry[n] \in {"module", "other"} /\ w.pkg[n] THEN n \o <<"__init__">> ELSE n
    IN  IF level = 0 \/ Len(bits) <= level THEN NoName ELSE SubSeq(bits, 1, Len(bits) - level)

\* find_related_imports(): "from . import a" is spelled with two dots, so that it
\* names no module.
Spelled(rel, s) ==
    IF s.mod = NoName THEN {} ELSE {rel \o s.mod} \cup {rel \o s.mod \o <<x>> : x \in ToSet(s.names)}

FindRelatedImports(w, n) ==
    IF GetModuleSource(w, n) = NotFound THEN {}
    ELSE {m \in Parents(n) \cup UNION {Spelled(ResolveRelpath(w, n, s.level), s) :
                                          s \in CodeImports(Compiled(w.stmts[n]))} :
             ~Rejected(w, m)}

\* find_related(): a stack of modules to look at, and what was found so far.
FindRelated(w, n) ==
    LET explored[at \in Seq(Names) \X SUBSET Names] ==
            LET stack == at[1]  found == at[2]
                names == FindRelatedImports(w, Head(stack))
                more == names \ (found \cup ToSet(Tail(stack)))
            IN  IF stack = <<>> THEN found
                ELSE explored[<<Tail(stack) \o SetToSeq(more), found \cup names>>]
    IN  explored[<<<<n>>, {}>>] \ {n}

-----------------------------------------------------------------------------
(* Properties of the worlds in a set ws, and what they are measured by.    *)

\* What Python makes of an import statement of n, as long as it names a module of
\* the package: a level of 1 is the package n is in, or is.
Meant(w, n, s) ==
    LET package == IF w.pkg[n] THEN n ELSE ParentOf(n)
        base == IF s.level = 0 THEN NoName
                ELSE SubSeq(package, 1, Len(package) + 1 - s.level)
    IN  IF s.mod = NoName \/ (s.level > 0 /\ s.level > Len(package)) THEN {}
        ELSE {base \o s.mod} \cup {base \o s.mod \o <<x>> : x \in ToSet(s.names)}

Uses(w, n) ==
    {m \in Parents(n) \cup UNION {Meant(w, n, w.stmts[n][i]) : i \in DOMAIN w.stmts[n]} :
        /\ m \in Names \ (w.stdlib \cup {Main})
        /\ w.entry[m] \in {"module", "other"}}

\* A set of modules that holds what each of its own with a source uses, and n.
Closed(w, n, ms) ==
    \A m \in ms \cup {n} : GetModuleSource(w, m) # NotFound => Uses(w, m) \subseteq ms \cup {n}

\* The master serves the source of the module that was asked for, whatever has
\* put itself in its place in sys.modules, or in that of a package it is in: if it
\* is on the disk, it is served.
ServesItsOwn(ws) ==
    \A w \in ws, n \in Names :
        /\ GetModuleSource(w, n) # NotFound => GetModuleSource(w, n).of = n
        /\ (\A p \in Parents(n) : w.disk[p] = "package") /\ w.disk[n] \in {"module", "package"}
               => GetModuleSource(w, n) = Source(n, w.disk[n] = "package")

\* The related modules of a module are the least set that holds what it and they
\* use, and so the parents of each: none is sent that is not used, and none that
\* is used is left for the child to ask for.
RelatedIsClosure(ws) ==
    \A w \in ws, n \in Names :
        LET related == FindRelated(w, n)
        IN  /\ Closed(w, n, related)
            /\ \A ms \in SUBSET Names : Closed(w, n, ms) => related \subseteq ms \cup {n}
=============================================================================
