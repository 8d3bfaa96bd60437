----------------------------- MODULE Dependencies -----------------------------
(***************************************************************************)
(* The ansible.module_utils modules that a new-style Ansible module needs: *)
(* how ModuleDepService finds them on the controller                       *)
(* (ansible_mitogen.module_finder, services) and which ones the module is  *)
(* given on the target (ansible_mitogen.planner, target, runner).          *)
(*                                                                         *)
(* Everything is a function of a world w of which                          *)
(*   w.dirs    are the directories that may be searched; the last is       *)
(*             Ansible's own: each maps names to what is in the file,      *)
(*   w.tasks   are the tasks of one host, in order: a module's imports,    *)
(*             the directories searched for it, and whether a fork is      *)
(*             asked for,                                                  *)
(*   w.loaded  are Ansible's own modules every interpreter starts with.    *)
(* A name is the sequence of what comes after "ansible.module_utils.".  An *)
(* import has a level, a name and what is imported from it.                *)
(***************************************************************************)
EXTENDS Naturals, Sequences, FiniteSets, SequencesExt, FiniteSetsExt, TLC

Own(w) == Len(w.dirs)

\* A file is <<its directory, its name>>.
At(w, d, n) == w.dirs[d][n]
IsThere(w, d, n) == n \in DOMAIN w.dirs[d]
Source(w, file) == At(w, file[1], file[2]).imports

(***************************************************************************)
(* The controller.                                                         *)
(***************************************************************************)

\* walk_imports(): every package on the way, and everything that may be a module.  A
\* relative import does not begin with the prefix.
Walk(imports) ==
    UNION {{SubSeq(i.name, 1, k) : k \in 1..Len(i.name)} \cup {Append(i.name, l) : l \in i.leaves} :
           i \in {j \in Range(imports) : j.level = 0}}

\* importlib.util._find_spec() in the directories of a package; a directory without
\* __init__.py is found only if nothing else is, and has no origin.
NotFound == <<>>
FindSpec(w, ds, n) ==
    LET found == {i \in DOMAIN ds : IsThere(w, ds[i], n) /\ At(w, ds[i], n).kind # "bare"}
    IN  IF found = {} THEN NotFound ELSE <<ds[Min(found)], n>>

\* The spec of a name, given those of the names before it.
SpecOf(w, path, specs, n) ==
    IF Len(n) = 1 THEN FindSpec(w, path, n)
    ELSE LET parent == specs[Front(n)]
         IN  IF parent = NotFound \/ At(w, parent[1], parent[2]).kind # "pkg" THEN NotFound
             ELSE FindSpec(w, <<parent[1]>>, n)

\* One turn of the loop of _scan_importlib_find_spec(), on the head of the queue.
\* Parents come before what is in them.
ScanOne(w, path, s) ==
    LET names == SetToSortSeq(Walk(s.queue[1]), LAMBDA m, n : Len(m) < Len(n))
        add(t, n) ==
            IF n \in DOMAIN t.specs THEN t
            ELSE LET spec == SpecOf(w, path, t.specs, n)
                 IN  [specs |-> n :> spec @@ t.specs,
                      queue |-> IF spec = NotFound THEN t.queue ELSE Append(t.queue, Source(w, spec))]
    IN  FoldLeft(add, [s EXCEPT !.queue = Tail(@)], names)

\* A name is queued once.
Scan(w, path, imports) ==
    LET names == UNION {DOMAIN w.dirs[d] : d \in DOMAIN w.dirs}
        after[i \in 0..Cardinality(names) + 1] ==
            IF i = 0 THEN [queue |-> <<imports>>, specs |-> <<>>]
            ELSE LET last == after[i - 1] IN IF last.queue = <<>> THEN last ELSE ScanOne(w, path, last)
        specs == after[Cardinality(names) + 1].specs
    IN  {specs[n] : n \in DOMAIN specs} \ {NotFound}

\* Before Python 3.4.  find(): a component is looked for in the packages found so far and
\* then in the search path; the search ends with the first that is no package.
FindImp(w, path, n) ==
    LET look(s, c) ==
            LET hits == {i \in DOMAIN s.places : FindSpec(w, <<s.places[i][1]>>, Append(s.places[i][2], c)) # NotFound}
                file == LET at == s.places[Min(hits)] IN <<at[1], Append(at[2], c)>>
                name == Append(s.name, c)
            IN  IF s.over \/ hits = {} THEN [s EXCEPT !.over = TRUE]
                ELSE [places |-> <<file>> \o s.places, name |-> name,
                      over |-> At(w, file[1], file[2]).kind # "pkg", found |-> s.found \cup {<<name, file>>}]
    IN  FoldLeft(look, [places |-> [i \in DOMAIN path |-> <<path[i], <<>>>>], name |-> <<>>,
                        over |-> FALSE, found |-> {}], n).found

\* scan_fromlist()
Explicit(imports) ==
    UNION {IF i.leaves = {} THEN {i.name} ELSE {Append(i.name, l) : l \in i.leaves} :
           i \in {j \in Range(imports) : j.level = 0}}

\* _scan_imp_find_module(): under which names which files are found.
ScanImp(w, path, imports) ==
    LET names == UNION {DOMAIN w.dirs[d] : d \in DOMAIN w.dirs}
        more(i) == UNION {FindImp(w, path, n) : n \in Explicit(i)}
        after[k \in 0..Cardinality(names)] ==
            IF k = 0 THEN more(imports)
            ELSE LET last == after[k - 1] IN last \cup UNION {more(Source(w, f[2])) : f \in last}
    IN  after[Cardinality(names)]

\* ModuleDepService.scan()
Builtin(w, t) == {f \in Scan(w, t.path \o <<Own(w)>>, t.imports) : f[1] = Own(w)}
Custom(w, t) == {f \in Scan(w, t.path \o <<Own(w)>>, t.imports) : f[1] # Own(w)}

(***************************************************************************)
(* The target.                                                             *)
(***************************************************************************)

\* Mutant: a module with module_utils of its own runs in the shared interpreter.
ForksIfAsked(w, t) == t.fork

\* NewStylePlanner.should_fork(), or asynchronous.
ShouldFork(w, t) == t.fork \/ Custom(w, t) # {}

\* An interpreter: what is in its sys.modules, and the files ModuleUtilsImporters that
\* were put into its sys.meta_path know.
Fresh(w) == [modules |-> [n \in w.loaded |-> <<Own(w), n>>], finders |-> <<>>]

\* The first finder that knows a name; Importer, behind them, fetches Ansible's own.
Found(w, i, n) ==
    LET known == {k \in DOMAIN i.finders : \E f \in i.finders[k] : f[2] = n}
    IN  IF known # {} THEN CHOOSE f \in i.finders[Min(known)] : f[2] = n
        ELSE IF IsThere(w, Own(w), n) /\ At(w, Own(w), n).kind # "bare" THEN <<Own(w), n>>
        ELSE NotFound

\* What a file imports, a relative name being one of its package.
Needs(w, file) ==
    LET base(level) ==
            LET pkg == IF At(w, file[1], file[2]).kind = "pkg" THEN file[2] ELSE Front(file[2])
            IN  SubSeq(pkg, 1, Len(pkg) + 1 - level)
    IN  Walk(Source(w, file)) \cup
        UNION {Walk(<<[level |-> 0, name |-> base(i.level) \o i.name, leaves |-> i.leaves]>>) :
               i \in {j \in Range(Source(w, file)) : j.level > 0}}

\* Names are imported after the packages they are in, each once, and import others.
\* What cannot be found may be something else than a module.
Import(w, i, wanted) ==
    LET names == UNION {DOMAIN w.dirs[d] : d \in DOMAIN w.dirs}
        add(m, n) ==
            IF n \in DOMAIN m \/ Found(w, i, n) = NotFound THEN m
            ELSE IF Len(n) > 1 /\ Front(n) \notin DOMAIN m THEN m
            ELSE n :> Found(w, i, n) @@ m
        round(m) ==
            LET all == wanted \cup UNION {Needs(w, m[n]) : n \in DOMAIN m}
            IN  FoldLeft(add, m, SetToSortSeq(all, LAMBDA k, n : Len(k) < Len(n)))
        after[k \in 0..Cardinality(names)] == IF k = 0 THEN i.modules ELSE round(after[k - 1])
    IN  [i EXCEPT !.modules = after[Cardinality(names)]]

Names(files) == {f[2] : f \in files}

\* NewStyleRunner.setup(): a finder of what is custom, and _setup_imports().
SetUp(w, i, t) ==
    LET custom == Custom(w, t)
    IN  Import(w, [i EXCEPT !.finders = <<custom>> \o @], Names(custom \cup Builtin(w, t)))

\* NewStyleRunner._run(), in an interpreter: the finder of an earlier task stays there.
Run(w, i, t) == Import(w, SetUp(w, i, t), Walk(t.imports))

\* The interpreter task k ran in: the fork parent's child, or the account's.
RanIn(w, k) ==
    LET shared[j \in 0..Len(w.tasks)] ==
            IF j = 0 THEN Fresh(w)
            ELSE IF ShouldFork(w, w.tasks[j]) THEN shared[j - 1]
            ELSE Run(w, shared[j - 1], w.tasks[j])
    IN  IF ShouldFork(w, w.tasks[k]) THEN Run(w, Fresh(w), w.tasks[k]) ELSE shared[k]

-----------------------------------------------------------------------------
(* Properties.                                                             *)

Relative(w, f) == \E i \in Range(Source(w, f)) : i.level > 0

\* A package found in one directory hides what another has in its own of that name.
Hides(w, f) ==
    At(w, f[1], f[2]).kind = "pkg" /\
        \E d \in DOMAIN w.dirs \ {f[1]} : \E n \in DOMAIN w.dirs[d] :
            Len(n) > Len(f[2]) /\ IsPrefix(f[2], n)

\* Whatever ran on the target before, a task's module is given the file the scan found
\* for it, of every module_utils module it imports: the first in its own search path;
\* save what every interpreter starts with, which is Ansible's own.
RunsWhatWasFound(w) ==
    \A k \in DOMAIN w.tasks :
        LET t == w.tasks[k]
            has == RanIn(w, k).modules
        IN  \A f \in Scan(w, t.path \o <<Own(w)>>, t.imports) :
                f[2] \notin w.loaded => f[2] \in DOMAIN has /\ has[f[2]] = f

\* A controller of any version of Python finds the same; but an older one takes for a
\* module of a package what is outside of it and has that name.
SameWithImp(w) ==
    \A k \in DOMAIN w.tasks :
        LET t == w.tasks[k]
            path == t.path \o <<Own(w)>>
            found == ScanImp(w, path, t.imports)
        IN  (\A f \in found : f[1] = f[2][2]) => found = {<<f[2], f>> : f \in Scan(w, path, t.imports)}

\* "Ensure the local importer and PushFileService has everything for the Ansible module
\* before setup() completes" (_setup_imports()): the module finds nothing left to
\* fetch, unless relative imports, or the packages of two directories, misled the scan.
NothingLeftToFetch(w) ==
    \A k \in DOMAIN w.tasks :
        LET t == w.tasks[k]
            found == Scan(w, t.path \o <<Own(w)>>, t.imports)
            ready == SetUp(w, Fresh(w), t)
        IN  (\E f \in found : Relative(w, f) \/ Hides(w, f)) \/ Import(w, ready, Walk(t.imports)) = ready
=============================================================================
