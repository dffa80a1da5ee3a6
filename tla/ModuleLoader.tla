----------------------------- MODULE ModuleLoader -----------------------------
(***************************************************************************)
(* The module loader: core-runtime/src/module.rs and js/src/module.rs.     *)
(* Modules are compiled once per canonical path and kept in a registry of  *)
(* the runtime; the engine asks the load hook for every import of a graph, *)
(* then links and evaluates it.  The registry does not know about globals: *)
(* a server that gives each request a global of its own clears it first    *)
(* (serve_native.rs: evaluate_into_request_global).                        *)
(*                                                                         *)
(* A request for a module is the file it resolves to and its kind; how its *)
(* specifier spells the file depends on the directory of the importing     *)
(* module.  `disk' says what reading and compiling a file comes to.        *)
(***************************************************************************)
EXTENDS Integers, Sequences

CONSTANTS
    Files,       \* JavaScript files; the entry is one of them
    Entry,
    MaxModules,  \* bound on the module objects that are compiled
    MaxImports,  \* bound on dynamic imports
    MaxRealms,   \* bound on globals: 1 is the default one
    Careful      \* the initializer script imports nothing before the entry is evaluated

VARIABLE s

JsonFile == "data.json"
NativeName == "native"        \* a module of the embedding, by its name
SyntheticName == "interface"  \* one that is made for an imported interface
NoModule == 0

Js(f) == [file |-> f, kind |-> "js"]
Json(f) == [file |-> f, kind |-> "json"]
Requests == {Js(f) : f \in Files \cup {JsonFile, NativeName, SyntheticName}} \cup {Json(JsonFile)}

\* Requests without a file: the registry has them under their own name.
IsName(q) == q.file \in {NativeName, SyntheticName}

-----------------------------------------------------------------------------
(* The registry.                                                           *)

Lookup(r, key) == IF key \in DOMAIN r.registry THEN r.registry[key] ELSE NoModule
Insert(r, key, m) ==
    [r EXCEPT !.registry = [k \in DOMAIN r.registry \cup {key} |-> IF k = key THEN m ELSE r.registry[k]]]
Remove1(r, key) == [r EXCEPT !.registry = [k \in DOMAIN r.registry \ {key} |-> r.registry[k]]]

\* compile_module: a module object of the global whose realm is entered.  It has its imports,
\* and `loaded' are those that the hook has supplied.
Compile(r, q) ==
    [r EXCEPT !.modules = Append(@, [q |-> q, realm |-> r.realm, status |-> "new", runs |-> 0,
                                     loaded |-> [d \in {} |-> NoModule]])]

ImportsOf(r, m) == IF r.modules[m].q.kind = "js" /\ r.modules[m].q.file \in Files
                     THEN r.imports[r.modules[m].q.file] ELSE {}

\* referrer_base_dir: a module's imports are found from its own file, those of a script from the
\* base path, which is the directory of the entry.
BaseDir(r, m) == IF m = NoModule THEN Entry ELSE r.modules[m].q.file

\* Mutant: the key is the path as the importing module spells it.
CacheKey_AsSpelled(q, from) == [q |-> q, from |-> from]

\* resolve_file_module: the canonical path, whoever asks for it.
CacheKey(q, from) == [q |-> q, from |-> "any"]

NameKey(name) == [q |-> Js(name), from |-> "any"]

Readable(r, q) ==
    /\ q.kind = "js" => q.file # JsonFile
    /\ q.file \in Files => r.disk[q.file] = "ok"

Found(r, m) == [ok |-> TRUE, m |-> m, r |-> r]
NotFound(r) == [ok |-> FALSE, m |-> NoModule, r |-> r]

\* resolve_file_module: a file that is not registered under its path is compiled and registered.
ResolveFile(r, q, from) ==
    LET key == CacheKey(q, from)
        m == Len(r.modules) + 1
    IN IF Lookup(r, key) # NoModule THEN Found(r, Lookup(r, key))
       ELSE IF Readable(r, q) THEN Found(Insert(Compile(r, q), key, m), m)
       ELSE NotFound(r)

\* module_load_hook: the module for a request and whether there is one: a native module by its
\* name, any other by its file.
Hook(r, q, from) ==
    LET named == Lookup(r, NameKey(q.file))
    IN IF ~IsName(q) THEN ResolveFile(r, q, from)
       ELSE IF named # NoModule THEN Found(r, named) ELSE NotFound(r)

-----------------------------------------------------------------------------
(* The engine: loading a graph, linking and evaluating it.                 *)

\* All that a module reaches through what was loaded.
Reachable(r, m) ==
    LET step(set) == set \cup UNION {{r.modules[x].loaded[d] : d \in DOMAIN r.modules[x].loaded} : x \in set}
        reach[n \in 0..MaxModules] == IF n = 0 THEN {m} ELSE step(reach[n - 1])
    IN reach[MaxModules]

\* The imports of the graph that have not been loaded yet.
ToLoad(r, m) ==
    UNION {{[m |-> x, q |-> q] : q \in ImportsOf(r, x) \ DOMAIN r.modules[x].loaded} : x \in Reachable(r, m)}

\* FinishLoadingImportedModule.
Supply(r, m, q, dep) ==
    [r EXCEPT !.modules[m].loaded =
        [d \in DOMAIN r.modules[m].loaded \cup {q} |-> IF d = q THEN dep ELSE r.modules[m].loaded[d]]]

\* ModuleEvaluate: every module of the graph that has not run yet runs; one may throw, and then
\* those that did not run are in error with it.
RunGraph(r, m, throws) ==
    [r EXCEPT !.modules = [x \in DOMAIN r.modules |->
        IF x \in Reachable(r, m) /\ r.modules[x].status = "new"
          THEN [r.modules[x] EXCEPT !.status = IF throws THEN "error" ELSE "done", !.runs = @ + 1]
          ELSE r.modules[x]]]

-----------------------------------------------------------------------------
(* evaluate_module and dynamic import.                                     *)

HasRoom == Len(s.modules) < MaxModules
Idle == s.load.m = NoModule

NoLoad == [m |-> NoModule, then |-> "none"]

\* register_entry_module: the entry is its file's module, whatever is registered there.
RegisterEntry(r, m) == Insert(r, CacheKey(Js(Entry), Entry), m)

\* evaluate_module: the content script is compiled and registered, and its graph is loaded.
StartEntry(r) ==
    LET m == Len(r.modules) + 1
    IN IF r.disk[Entry] # "ok" THEN [r EXCEPT !.entry = "failed"]
       ELSE [RegisterEntry(Compile(r, Js(Entry)), m) EXCEPT
               !.entry = "loading", !.load = [m |-> m, then |-> "evaluate"]]

EvaluateModule ==
    /\ Idle /\ s.entry = "none" /\ HasRoom
    /\ s' = StartEntry(s)

\* load_rejected: the import that cannot be loaded ends the load of the graph.
LoadRejected(r) ==
    [r EXCEPT !.load = NoLoad, !.entry = IF r.load.then = "evaluate" THEN "failed" ELSE @]

\* load_requested_modules asks the hook for the next import of the graph.
LoadNext ==
    /\ ~Idle
    /\ \E w \in ToLoad(s, s.load.m) :
         LET h == Hook(s, w.q, BaseDir(s, w.m)) IN
         /\ Len(h.r.modules) <= MaxModules
         /\ s' = IF h.ok THEN Supply(h.r, w.m, w.q, h.m) ELSE LoadRejected(h.r)

\* The graph is loaded: the entry is linked and evaluated, a dynamic import in a promise job.
Loaded(throws) ==
    /\ ~Idle /\ ToLoad(s, s.load.m) = {}
    /\ s' = IF s.load.then = "evaluate"
              THEN [RunGraph(s, s.load.m, throws) EXCEPT !.load = NoLoad,
                                                        !.entry = IF throws THEN "failed" ELSE "done"]
              ELSE [s EXCEPT !.load = NoLoad, !.jobs = Append(@, s.load.m)]

\* import() in a module of the current global that has run, or in the initializer script.
DynamicImport(from, q) ==
    /\ Idle /\ s.made < MaxImports
    /\ \/ from # NoModule /\ s.modules[from].realm = s.realm /\ s.modules[from].runs > 0
       \/ from = NoModule /\ s.realm = 1 /\ (Careful => s.entry # "none")
    /\ LET h == Hook([s EXCEPT !.made = @ + 1], q, BaseDir(s, from)) IN
       /\ Len(h.r.modules) <= MaxModules
       /\ s' = IF h.ok THEN [h.r EXCEPT !.load = [m |-> h.m, then |-> "job"]] ELSE h.r

ImportJob(throws) ==
    /\ Idle /\ s.jobs # <<>>
    /\ s' = RunGraph([s EXCEPT !.jobs = Tail(@)], Head(s.jobs), throws)

-----------------------------------------------------------------------------
\* link_evaluate_and_populate, and its form for values: if linking, evaluating or setting an
\* export fails, the entry is taken back.
Populate(r, key, ok) ==
    IF ok THEN [r EXCEPT !.modules[r.registry[key]].status = "done"]
    ELSE Remove1([r EXCEPT !.modules[r.registry[key]].status = "error"], key)

\* The module is compiled and registered, and then evaluated.  Bound: an embedding registers one
\* module, before anything else.
Register(name, ok) ==
    /\ s.modules = <<>> /\ s.realm = 1 /\ s.entry = "none"
    /\ s' = Populate(Insert(Compile(s, Js(name)), NameKey(name), Len(s.modules) + 1), NameKey(name), ok)

\* A module that the embedding declares.
RegisterModule(ok) == Register(NativeName, ok)

\* A module that is made for an imported interface.
RegisterSyntheticModule(ok) == Register(SyntheticName, ok)

\* clear_module_registry.
ClearRegistry(r) == [r EXCEPT !.registry = [k \in {} |-> NoModule]]

\* Isolated mode: the next request gets a global, and its script is evaluated into it, once the
\* work of the one before is done (NativeServer).
NextRequest ==
    /\ Idle /\ s.jobs = <<>> /\ s.entry \in {"done", "failed"} /\ s.realm < MaxRealms /\ HasRoom
    /\ s' = StartEntry([ClearRegistry(s) EXCEPT !.realm = @ + 1])

-----------------------------------------------------------------------------
ImportSets == {{}, {Js(NativeName)}, {Js(SyntheticName)}, {Js(JsonFile)}, {Json(JsonFile)}}
             \cup {{Js(f)} : f \in Files} \cup {{Js(f), Js(g)} : f \in Files, g \in Files}

Init ==
    \E imports \in [Files -> ImportSets], disk \in [Files -> {"ok", "bad"}] :
        s = [imports |-> imports, disk |-> disk, registry |-> [k \in {} |-> NoModule], modules |-> <<>>,
             realm |-> 1, entry |-> "none", load |-> NoLoad, jobs |-> <<>>, made |-> 0]

Next ==
    \/ EvaluateModule \/ LoadNext \/ NextRequest
    \/ \E throws \in BOOLEAN : Loaded(throws) \/ ImportJob(throws)
    \/ \E ok \in BOOLEAN : RegisterModule(ok) \/ RegisterSyntheticModule(ok)
    \/ \E from \in 0..Len(s.modules), q \in Requests : DynamicImport(from, q)

Spec == Init /\ [][Next]_s

-----------------------------------------------------------------------------
(* Properties.                                                             *)

\* In one global, "the same file reached via different specifiers [...] is one module instance
\* (and its side effects run once)": through cycles, through the entry itself, through dynamic
\* imports, and after loads that failed (resolve_file_module, register_entry_module).
OneInstance ==
    \A m, n \in DOMAIN s.modules :
        /\ s.modules[m].runs <= 1
        /\ m # n /\ s.modules[m].realm = s.modules[n].realm
             => s.modules[m].q # s.modules[n].q \/ IsName(s.modules[m].q)

\* A module is linked with modules of its own global, and with no native module that was never
\* populated (clear_module_registry, register_module).
OwnModules ==
    \A m \in DOMAIN s.modules : \A d \in DOMAIN s.modules[m].loaded :
        LET dep == s.modules[s.modules[m].loaded[d]] IN
        /\ dep.realm = s.modules[m].realm
        /\ IsName(dep.q) => dep.status = "done"

=============================================================================
