----------------------------- MODULE Environment -----------------------------
(***************************************************************************)
(* The environment of the modules that run in a target's interpreter       *)
(* (ansible_mitogen.runner): EnvironmentFileWatcher, which applies the     *)
(* changes of ~/.pam_environment and /etc/environment to os.environ, and   *)
(* TemporaryEnvironment, which lends a module a changed one.  Everything   *)
(* is a function of a world w of which                                     *)
(*   w.inherits  is the environment the interpreter starts with,           *)
(*   w.files[k]  is what is in each file when task k begins; w.files[1],   *)
(*               when the watchers are installed: <<key, value>>s.  A file *)
(*               that is not there is as an empty one,                     *)
(*   w.differs[k]  are the files whose os.stat() is then another than when *)
(*               it was last looked at.  It compares whole seconds, and    *)
(*               the time of the last read: a change may go unnoticed, and *)
(*               a file that is as it was may differ,                      *)
(*   w.env[k]    is the environment that task k is to have,                *)
(*   w.leaves[k] is what its module does to os.environ.                    *)
(***************************************************************************)
EXTENDS Naturals, Sequences, SequencesExt, FiniteSetsExt, TLC

Files == <<"pam", "etc">>
Without(environ, keys) == [k \in DOMAIN environ \ keys |-> environ[k]]

(***************************************************************************)
(* EnvironmentFileWatcher.  A state is os.environ and the _keys of each.   *)
(***************************************************************************)

\* __init__(): the keys that appear to come from the file.
Installed(environ, content) ==
    {e[1] : e \in {x \in Range(content) : x[1] \in DOMAIN environ /\ environ[x[1]] = x[2]}}

Begin(w) ==
    [environ |-> w.inherits,
     keys |-> [f \in Range(Files) |-> Installed(w.inherits, w.files[1][f])]]

\* Mutant: what the file no longer holds stays.
KeepExisting(s, f) == s

\* _remove_existing()
RemoveExisting(s, f) == [s EXCEPT !.environ = Without(@, s.keys[f]), !.keys[f] = {}]

\* _on_file_changed()
OnFileChanged(s, f, content) ==
    LET add(t, e) ==
            IF e[1] \in DOMAIN t.environ THEN t
            ELSE [t EXCEPT !.environ = e[1] :> e[2] @@ @, !.keys[f] = @ \cup {e[1]}]
    IN  FoldLeft(add, s, content)

\* check()
Check(s, f, content, differs) ==
    IF differs THEN OnFileChanged(RemoveExisting(s, f), f, content) ELSE s

(***************************************************************************)
(* Runner._setup_environ(), _run() and revert().                           *)
(***************************************************************************)

\* TemporaryEnvironment(): a value of None, which is to delete the key, is first made a
\* text, "None".
None == "None object"
Lent(environ, env) == [k \in DOMAIN env |-> IF env[k] = None THEN "None" ELSE env[k]] @@ environ

Checked(w, s, k) == FoldLeft(LAMBDA t, f : Check(t, f, w.files[k][f], f \in w.differs[k]), s, Files)

\* TemporaryEnvironment.revert(): all is as before the module ran, whatever it left.
Reverted(before, env, after) == before

\* The state once task k has ended; task 1 is the installation.
After(w, k) ==
    LET ended[i \in 1..k] ==
            IF i = 1 THEN Begin(w)
            ELSE LET s == Checked(w, ended[i - 1], i)
                     after == w.leaves[i] @@ Lent(s.environ, w.env[i])
                 IN  [s EXCEPT !.environ = Reverted(@, w.env[i], after)]
    IN  ended[k]

\* What the module of task k finds in os.environ.
Sees(w, k) == Lent(Checked(w, After(w, k - 1), k).environ, w.env[k])

-----------------------------------------------------------------------------
(* Properties.                                                             *)

\* What a file last gave the environment by the time task k begins: when it was
\* installed, or the last time it was seen to differ.
LastSeen(w, k, f) == Max({1} \cup {i \in 2..k : f \in w.differs[i]})

\* The value of a key of a file is that of its first line.
Given(content) ==
    [k \in {e[1] : e \in Range(content)} |->
        content[Min({i \in DOMAIN content : content[i][1] = k})][2]]

Own(w) == Without(w.inherits, UNION {Begin(w).keys[f] : f \in Range(Files)})

Of(w, k, f) ==
    IF LastSeen(w, k, f) = 1 THEN [x \in Begin(w).keys[f] |-> w.inherits[x]]
    ELSE Without(Given(w.files[LastSeen(w, k, f)][f]), DOMAIN Own(w))

\* What the interpreter inherited from elsewhere than the two files, then what they
\* hold.  No key is in both of the files: of such a key the watchers keep the value of
\* the file that was looked at first, and drop it with that file's line.
Around(w, k) == Own(w) @@ Of(w, k, "pam") @@ Of(w, k, "etc")

\* A module finds the environment of its task, then that: nothing of what earlier tasks
\* had, what their modules did to it, or what the files used to hold (docs,
\* "Process Environment Emulation").  It says nothing of a value of None.
SeesNoOther(w) ==
    \A k \in 2..Len(w.files) :
        None \notin Range(w.env[k]) => Sees(w, k) = w.env[k] @@ Around(w, k)

\* "Values in the dict may be None to indicate the relevant key should be deleted."
NoneUnsets(w) ==
    \A k \in 2..Len(w.files) :
        LET unset == {x \in DOMAIN w.env[k] : w.env[k][x] = None}
        IN  Sees(w, k) = Without(w.env[k] @@ Around(w, k), unset)
=============================================================================
