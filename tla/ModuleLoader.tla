----------------------------- MODULE ModuleLoader -----------------------------
(***************************************************************************)
(* Loading, linking and evaluating a graph of modules (module_loader.rs,   *)
(* module_namespace.rs, and the plans collect.rs makes of a module's       *)
(* imports and exports).                                                   *)
(*                                                                         *)
(* load_and_evaluate and load_deferred call each other down the graph, and *)
(* a module body that reads a deferred namespace calls them again: `stack` *)
(* is that Rust stack, `ret` the answer of the call that just returned.    *)
(* An async body never runs inside the call of it: the call parks it, and  *)
(* a load that waits for it resumes whatever is parked and ready, in the   *)
(* order of the queue, bodies that other loads wait for included; so does  *)
(* the checkpoint, when no call is under way.                              *)
(*                                                                         *)
(* The bodies, and what the rest of the program imports and reads between  *)
(* them, are free: a body may read any deferred namespace it imports, may  *)
(* swallow or pass on the error of that read, may throw, and an async one  *)
(* may await what is settled and what is not.                              *)
(*                                                                         *)
(* A file is the sequence of its import and export declarations; a source  *)
(* is what the collector makes of it: its requests in order, its binding   *)
(* plan, its export stars and whether its main is async.  A cell is named  *)
(* by the record that owns it and the slot it was made for.                *)
(***************************************************************************)
EXTENDS Integers, Sequences, FiniteSets, SequencesExt

CONSTANTS
    Paths,        \* canonical paths
    Graphs,       \* the module graphs: functions from some of the paths to files
    MaxImports,   \* the bound on import() jobs and reads from outside the graph
    MaxAwaits     \* the bound on the awaits of one body

VARIABLES
    source,       \* the files: chosen once
    modules,      \* LoaderState.modules
    loading,      \* LoaderState.loading
    next_module_id,
    initialized,  \* the binding cells that hold a value
    stack,        \* the calls under way
    ret,          \* "none", "ok", "err", or "panic"
    ran,          \* how often the body of each record was called, and its path
    imports,      \* import() jobs and outside reads so far
    awaits,       \* Interp.pending_awaits: the bodies parked there
    settlements,  \* Interp.pending_settlements: the outcomes of async bodies
    delivered,    \* the records whose outcome a load or the checkpoint has taken
    dropped       \* the paths whose record a failed load has taken from the map

queues == <<awaits, settlements, delivered, dropped>>
vars == <<source, modules, loading, next_module_id, initialized, stack, ret, ran, imports, queues>>

Default == "default"
None == "none"

-----------------------------------------------------------------------------
(* What the collector makes of a file.  Without a local name an import is a *)
(* request only; an export with a specifier and no name is a star.          *)

ImportEntry(from, name, local, deferred) ==
    [from |-> from, name |-> name, local |-> local, deferred |-> deferred]
ExportEntry(from, name, local, exported) ==
    [from |-> from, name |-> name, local |-> local, exported |-> exported]

Entries(items, Of(_)) == FlattenSeq([i \in DOMAIN items |-> Of(items[i])])

\* import_decl, and the request that export ... from makes for each name.
import_decl(d) ==
    CASE d.kind = "import" ->
           IF d.names = <<>> THEN <<ImportEntry(d.from, None, None, d.deferred)>>
           ELSE [i \in DOMAIN d.names |->
                   ImportEntry(d.from, d.names[i].name, d.names[i].local, d.deferred)]
      [] d.kind = "export from" ->
           [i \in DOMAIN d.names |-> ImportEntry(d.from, None, None, FALSE)]
      [] d.kind = "export all" -> <<ImportEntry(d.from, None, None, FALSE)>>
      [] OTHER -> <<>>

\* export_decl and export_named_decl, export_from_decl, export_default_decl, and
\* export_all_decl (also that of `* as ns`, which gets no source name).
export_decl(d) ==
    CASE d.kind = "export" ->
           [i \in DOMAIN d.names |->
              ExportEntry(None, None, d.names[i].local, d.names[i].exported)]
      [] d.kind = "export from" ->
           [i \in DOMAIN d.names |->
              ExportEntry(d.from, d.names[i].name, None, d.names[i].exported)]
      [] d.kind = "export default" -> <<ExportEntry(None, None, d.local, Default)>>
      [] d.kind = "export all" -> <<ExportEntry(d.from, None, None, d.exported)>>
      [] OTHER -> <<>>

Binding(local, from, name, deferred, role, exports) ==
    [local |-> local, from |-> from, name |-> name, deferred |-> deferred,
     source |-> role, exports |-> exports]

\* One export joins the plan: a local symbol's names share its binding.
plan_export(plan, e) ==
    LET owners == {i \in DOMAIN plan : plan[i].local = e.local} IN
    CASE e.from # None /\ e.name # None ->
           Append(plan, Binding(None, e.from, e.name, FALSE, "reexport", {e.exported}))
      [] e.from # None /\ e.name = None -> plan
      [] e.from = None /\ e.local # None /\ owners # {} ->
           [plan EXCEPT ![CHOOSE i \in owners : TRUE].exports = @ \cup {e.exported}]
      [] e.from = None /\ e.local # None /\ owners = {} ->
           Append(plan, Binding(e.local, None, None, FALSE, "local", {e.exported}))
      [] e.from = None /\ e.local = None ->
           IF \E i \in DOMAIN plan : plan[i].source = "default" THEN plan
           ELSE Append(plan, Binding(None, None, None, FALSE, "default", {Default}))

build_module_binding_plans(imports_, exports_) ==
    LET bound == SelectSeq(imports_, LAMBDA e : e.local # None)
    IN FoldLeft(plan_export,
                [i \in DOMAIN bound |-> Binding(bound[i].local, bound[i].from, bound[i].name,
                                                bound[i].deferred, "import", {})],
                exports_)

\* The requests, each specifier once in each phase, where it first occurs.
requests_of(imports_) ==
    FoldLeft(LAMBDA rs, e :
               LET r == [path |-> e.from, deferred |-> e.deferred]
               IN IF r \in Range(rs) THEN rs ELSE Append(rs, r),
             <<>>, imports_)

stars_of(exports_) ==
    LET stars == SelectSeq(exports_, LAMBDA e : e.from # None /\ e.exported = "*")
    IN [i \in DOMAIN stars |-> stars[i].from]

\* read_and_compile.
compile(file) ==
    LET imports_ == Entries(file.items, import_decl)
        exports_ == Entries(file.items, export_decl)
    IN [broken |-> file.broken, async |-> file.async, requests |-> requests_of(imports_),
        plan |-> build_module_binding_plans(imports_, exports_), stars |-> stars_of(exports_)]

-----------------------------------------------------------------------------
Variants == {"eager", "deferred"}
Variant(deferred) == IF deferred THEN "deferred" ELSE "eager"
Other(v) == IF v = "eager" THEN "deferred" ELSE "eager"

Plan(p) == source[p].plan
Linked  == DOMAIN modules
Rec(p)  == modules[p]
Top     == Last(stack)

\* A file that is missing or does not compile.
Broken(p) == source[p].broken

\* The namespace object of a record, as the cell of `import * as ns`.
NamespaceCell(id) == <<id, 0>>

\* alloc_execution: one cell for each entry of the binding plan.
alloc_execution(p, id) == [i \in DOMAIN Plan(p) |-> <<id, i>>]

\* attach_namespace: the export names of the plan, each with its slot's cell.
attach_namespace(p, env) ==
    LET names == UNION {Plan(p)[i].exports : i \in DOMAIN Plan(p)}
    IN [n \in names |-> env[CHOOSE i \in DOMAIN Plan(p) : n \in Plan(p)[i].exports]]

new_record(p, id) ==
    LET env == alloc_execution(p, id) IN
    [id |-> id, env |-> env, has |-> {}, exports |-> [v \in Variants |-> attach_namespace(p, env)],
     evaluated |-> FALSE, tla_pending |-> FALSE, cached_error |-> FALSE]

\* A namespace of a variant the record lacks is made from its environment.
with_namespace(rec, p, v) ==
    IF v \in rec.has THEN rec
    ELSE [rec EXCEPT !.has = @ \cup {v}, !.exports[v] = attach_namespace(p, rec.env)]

record(mods, p, rec) == [q \in DOMAIN mods \cup {p} |-> IF q = p THEN rec ELSE mods[q]]
without(mods, p) == [q \in DOMAIN mods \ {p} |-> mods[q]]

\* The namespace the linker reads: the variant asked for, else the other.
child_ns(child, v) == child.exports[IF v \in child.has THEN v ELSE Other(v)]

-----------------------------------------------------------------------------
(* link_record *)

StarNames(mods, q) == DOMAIN child_ns(mods[q], "eager") \ {Default}

\* validate_export_stars: every starred module is linked, and no name comes
\* from two of them.
validate_export_stars(mods, p) ==
    LET stars == Range(source[p].stars) IN
    /\ stars \subseteq DOMAIN mods
    /\ \A q, r \in stars : q # r => StarNames(mods, q) \cap StarNames(mods, r) = {}

\* link_export_stars: the names of the starred modules join both namespaces.
link_export_stars(mods, p) ==
    LET added == UNION {StarNames(mods, q) : q \in Range(source[p].stars)}
        cell(n) == child_ns(mods[CHOOSE q \in Range(source[p].stars) :
                                   n \in StarNames(mods, q)], "eager")[n]
        extended(f) == [n \in DOMAIN f \cup added |-> IF n \in added THEN cell(n) ELSE f[n]]
    IN [mods EXCEPT ![p].exports = [v \in Variants |->
           IF v \in mods[p].has THEN extended(@[v]) ELSE @[v]]]

Imported(p) == {i \in DOMAIN Plan(p) : Plan(p)[i].source \in {"import", "reexport"}}

provider_ns(mods, b) == child_ns(mods[b.from], Variant(b.deferred))

\* link_binding_cells can go through: each request has its record, each name
\* its cell.
Provided(mods, p) ==
    \A i \in Imported(p) : LET b == Plan(p)[i] IN
      /\ b.from \in DOMAIN mods
      /\ b.name = "*" \/ b.name \in DOMAIN provider_ns(mods, b)

\* link_binding_cells: a named import and a re-export take the cell itself.
link_binding_cells(mods, p) ==
    LET cell(i) == LET b == Plan(p)[i] IN
          IF b.name = "*" THEN NamespaceCell(mods[b.from].id) ELSE provider_ns(mods, b)[b.name]
        env == [i \in DOMAIN Plan(p) |-> IF i \in Imported(p) THEN cell(i) ELSE mods[p].env[i]]
        reexported(n) == {i \in Imported(p) : Plan(p)[i].source = "reexport"
                                              /\ n \in Plan(p)[i].exports}
        relinked(f) == [n \in DOMAIN f |->
          IF reexported(n) = {} THEN f[n] ELSE cell(CHOOSE i \in reexported(n) : TRUE)]
    IN [mods EXCEPT ![p].env = env,
          ![p].exports = [v \in Variants |-> IF v \in mods[p].has THEN relinked(@[v]) ELSE @[v]]]

\* The record after link_record, and whether it went through.
link_record(mods, p) ==
    IF ~validate_export_stars(mods, p) THEN [ok |-> FALSE, mods |-> mods]
    ELSE LET starred == link_export_stars(mods, p) IN
         IF Provided(starred, p)
         THEN [ok |-> TRUE, mods |-> link_binding_cells(starred, p)]
         ELSE [ok |-> FALSE, mods |-> starred]

-----------------------------------------------------------------------------
(* The stack *)

\* Of a load or a deferred load: its next request and the targets it gathered;
\* of a deferred one also (for the properties) whether a load of the same module
\* has started inside it.
\* Of a body, from the call of it: its record, the namespaces it holds and those
\* it has read, the awaits it may still make.  Of a load that drains: what is
\* left of the pass, and whether the pass has resumed anything.
Frame(fn, p) == [fn |-> fn, path |-> p, pc |-> "start", next |-> 1, targets |-> <<>>,
                 entered |-> FALSE, id |-> 0, holds |-> {}, reads |-> {}, more |-> MaxAwaits,
                 left |-> 0, moved |-> FALSE]

Call(fn, p) == stack' = Append(stack, Frame(fn, p)) /\ ret' = "none"

\* The running call goes on at another point, and calls on from there.
At(pc)  == stack # <<>> /\ Top.pc = pc /\ ret # "panic"
Goto(f) == stack' = [stack EXCEPT ![Len(stack)] = f]
CallFrom(f, fn, p) ==
    /\ stack' = Append([stack EXCEPT ![Len(stack)] = f], Frame(fn, p))
    /\ ret' = "none"
Return(answer) == stack' = Front(stack) /\ ret' = answer

Panic == /\ ret' = "panic"
         /\ UNCHANGED <<source, modules, loading, next_module_id, initialized, stack, ran,
                        imports, queues>>

Untouched == UNCHANGED <<source, initialized, ran, imports, queues>>

Init ==
    /\ \E files \in Graphs : source = [p \in DOMAIN files |-> compile(files[p])]
    /\ modules = [p \in {} |-> 0] /\ loading = {} /\ next_module_id = 1
    /\ initialized = {} /\ stack = <<>> /\ ret = "none"
    /\ ran = [id \in {} |-> 0] /\ imports = 0
    /\ awaits = <<>> /\ settlements = <<>> /\ delivered = {} /\ dropped = {}

\* make_load_job: the job of an import() of any module.
Import(p) ==
    /\ stack = <<>> /\ imports < MaxImports
    /\ Call("load", p)
    /\ imports' = imports + 1
    /\ UNCHANGED <<source, modules, loading, next_module_id, initialized, ran, queues>>

\* ModuleEvaluatorAdapter::ensure_evaluated and ensure_deferred, for a read of a
\* namespace: TRUE when the read evaluates the module.
must_evaluate(p) ==
    p \in Linked /\ ~Rec(p).cached_error /\ ~Rec(p).evaluated
      /\ p \notin loading /\ ~Rec(p).tla_pending

\* Code outside the module bodies runs: at a checkpoint, or in an async function
\* of the program that the drain of a load resumes.
Elsewhere == stack = <<>> \/ At("drain")

\* Such code reads a deferred namespace.
ReadNamespace(p) ==
    /\ Elsewhere /\ imports < MaxImports
    /\ p \in Linked /\ "deferred" \in Rec(p).has /\ must_evaluate(p)
    /\ Call("load", p)
    /\ imports' = imports + 1
    /\ UNCHANGED <<source, modules, loading, next_module_id, initialized, ran, queues>>

-----------------------------------------------------------------------------
(* load_and_evaluate *)

\* Mutant: a load does not look for a main that is pending.
known_settled(p) == p \in Linked /\ (Rec(p).cached_error
                              \/ (Rec(p).evaluated /\ "eager" \in Rec(p).has))

\* What the map or `loading` answers at once.
known(p) == p \in Linked /\ (Rec(p).cached_error
                              \/ ((Rec(p).evaluated \/ Rec(p).tla_pending) /\ "eager" \in Rec(p).has))

Answered ==
    /\ At("start") /\ Top.fn = "load"
    /\ known(Top.path) \/ Top.path \in loading
    /\ Return(IF Top.path \in Linked /\ Rec(Top.path).cached_error THEN "err" ELSE "ok")
    /\ UNCHANGED <<modules, loading, next_module_id>> /\ Untouched

\* A file that cannot be read or compiled: read_and_compile.
Unreadable ==
    /\ At("start") /\ Broken(Top.path)
    /\ IF Top.fn = "load" THEN ~known(Top.path) /\ Top.path \notin loading
       ELSE Top.path \notin Linked
    /\ Return("err")
    /\ UNCHANGED <<modules, loading, next_module_id>> /\ Untouched

StartLoading ==
    /\ At("start") /\ Top.fn = "load" /\ ~Broken(Top.path)
    /\ ~known(Top.path) /\ Top.path \notin loading
    /\ LET p == Top.path
           rec == IF p \in Linked THEN Rec(p) ELSE new_record(p, next_module_id)
       IN /\ loading' = loading \cup {p}
          /\ modules' = record(modules, p, with_namespace(rec, p, "eager"))
          /\ next_module_id' = IF p \in Linked THEN next_module_id ELSE next_module_id + 1
    /\ stack' = [k \in DOMAIN stack |->
          IF k = Len(stack) THEN [Top EXCEPT !.pc = "requests"]
          ELSE [stack[k] EXCEPT !.entered = @ \/ (stack[k].fn = "deferred"
                                                  /\ stack[k].path = Top.path)]]
    /\ ret' = "none"
    /\ Untouched

\* The requests of the module, in order: those of a deferred load are linked only.
Request ==
    /\ At("requests") /\ ret # "err" /\ Top.next <= Len(source[Top.path].requests)
    /\ LET r == source[Top.path].requests[Top.next]
       IN CallFrom([Top EXCEPT !.next = @ + 1],
                   IF Top.fn = "deferred" \/ r.deferred THEN "deferred" ELSE "load", r.path)
    /\ UNCHANGED <<modules, loading, next_module_id>> /\ Untouched

\* The module leaves the map, with whatever its record held.
Drop(mods) ==
    /\ modules' = without(mods, Top.path)
    /\ loading' = IF Top.fn = "load" THEN loading \ {Top.path} ELSE loading
    /\ dropped' = dropped \cup {Top.path}
    /\ Return("err")

RequestFailed ==
    /\ At("requests") /\ ret = "err"
    /\ Drop(modules)
    /\ UNCHANGED <<next_module_id, source, initialized, ran, imports, awaits, settlements,
                   delivered>>

RequestsDone == At("requests") /\ ret # "err" /\ Top.next > Len(source[Top.path].requests)

\* link_record at the end of load_and_evaluate's or a fresh load_deferred's
\* requests.  It expects the record to be in the map.
LinkRecord ==
    /\ LET linked == link_record(modules, Top.path) IN
       IF linked.ok
       THEN /\ modules' = linked.mods
            /\ Goto([Top EXCEPT !.pc = IF Top.fn = "load" THEN "body" ELSE "gather"])
            /\ ret' = "none" /\ UNCHANGED <<loading, dropped>>
       ELSE Drop(linked.mods)
    /\ UNCHANGED <<next_module_id, source, initialized, ran, imports, awaits, settlements,
                   delivered>>

Link == RequestsDone /\ IF Top.path \in Linked THEN LinkRecord ELSE Panic

-----------------------------------------------------------------------------
(* Bodies *)

Times(id) == IF id \in DOMAIN ran THEN ran[id].times ELSE 0

\* The deferred namespaces a module imports, as its linked environment has them.
Held(p) == {Rec(p).env[i] : i \in {j \in Imported(p) : Plan(p)[j].deferred}}

\* call_program_main_with_env: a sync body runs, an async one is parked.
StartBody ==
    /\ At("body") /\ Top.fn = "load"
    /\ LET called == [Top EXCEPT !.id = Rec(Top.path).id, !.holds = Held(Top.path)]
       IN /\ ran' = (called.id :> [path |-> Top.path, times |-> Times(called.id) + 1]) @@ ran
          /\ IF source[Top.path].async
             THEN /\ Goto([called EXCEPT !.pc = "drain", !.left = Len(awaits) + 1])
                  /\ awaits' = Append(awaits, [body |-> [called EXCEPT !.fn = "task"],
                                              ready |-> TRUE])
             ELSE Goto([called EXCEPT !.pc = "running"]) /\ UNCHANGED awaits
    /\ ret' = "none"
    /\ UNCHANGED <<source, modules, loading, next_module_id, initialized, imports,
                   settlements, delivered, dropped>>

\* The first resumption of an async body.
BeginTask ==
    /\ At("body") /\ Top.fn = "task"
    /\ Goto([Top EXCEPT !.pc = "running"])
    /\ UNCHANGED <<modules, loading, next_module_id, ret>> /\ Untouched

\* The body reads a deferred namespace it holds.
BodyReads(q) ==
    /\ At("running") /\ q \notin Top.reads /\ must_evaluate(q)
    /\ NamespaceCell(Rec(q).id) \in Top.holds
    /\ CallFrom([Top EXCEPT !.reads = @ \cup {q}], "load", q)
    /\ UNCHANGED <<modules, loading, next_module_id>> /\ Untouched

\* cache_evaluation_error, for the body of a load that threw.
cache_evaluation_error(p) ==
    /\ modules' = [modules EXCEPT ![p].cached_error = TRUE, ![p].tla_pending = FALSE]
    /\ loading' = loading \ {p}
    /\ Return("err")

\* What a load does when the body has ended well.
evaluated_now(p) ==
    /\ modules' = [modules EXCEPT ![p].evaluated = TRUE]
    /\ loading' = loading \ {p}
    /\ Return("ok")

OwnCells(p, id) == {<<id, i>> : i \in DOMAIN Plan(p)}

\* A sync body throws, of itself or with the error of a read.
BodyThrows ==
    /\ At("running") /\ Top.fn = "load"
    /\ cache_evaluation_error(Top.path)
    /\ UNCHANGED next_module_id /\ Untouched

BodyReturns ==
    /\ At("running") /\ Top.fn = "load"
    /\ evaluated_now(Top.path)
    /\ initialized' = initialized \cup OwnCells(Top.path, Top.id)
    /\ UNCHANGED <<source, next_module_id, ran, imports, queues>>

\* The outcome of an async body is queued, not delivered.
Settled(answer) ==
    /\ settlements' = Append(settlements, [id |-> Top.id, answer |-> answer])
    /\ Return("none")
    /\ UNCHANGED <<source, modules, loading, next_module_id, ran, imports, awaits, delivered,
                   dropped>>

TaskReturns ==
    /\ At("running") /\ Top.fn = "task"
    /\ Settled("ok")
    /\ initialized' = initialized \cup OwnCells(Top.path, Top.id)

TaskThrows ==
    /\ At("running") /\ Top.fn = "task"
    /\ Settled("err")
    /\ UNCHANGED initialized

\* The body awaits: something settled, or something that is not.
TaskAwaits ==
    /\ At("running") /\ Top.fn = "task" /\ Top.more > 0
    /\ \E ready \in BOOLEAN :
          awaits' = Append(awaits, [body |-> [Top EXCEPT !.more = @ - 1], ready |-> ready])
    /\ Return("none")
    /\ UNCHANGED <<modules, loading, next_module_id, source, initialized, ran, imports,
                   settlements, delivered, dropped>>

-----------------------------------------------------------------------------
(* Resuming parked bodies *)

\* The queue after n entries were polled in vain and put back.
requeued(q, n) ==
    IF q = <<>> THEN q
    ELSE LET k == n % Len(q) IN SubSeq(q, k + 1, Len(q)) \o SubSeq(q, 1, k)

ReadyBefore(n) == {k \in DOMAIN awaits : k <= n /\ awaits[k].ready}

\* Running code settles what a parked body awaits.
AwaitedSettles(k) ==
    /\ k \in DOMAIN awaits /\ ~awaits[k].ready
    /\ Elsewhere \/ At("running")
    /\ awaits' = [awaits EXCEPT ![k].ready = TRUE]
    /\ UNCHANGED <<source, modules, loading, next_module_id, initialized, stack, ret, ran,
                   imports, settlements, delivered, dropped>>

\* run_jobs, up to the next body of the pass that is ready (resume_next_await).
ResumeNext ==
    /\ At("drain") /\ ReadyBefore(Top.left) # {}
    /\ LET k == Min(ReadyBefore(Top.left)) IN
       /\ awaits' = Tail(requeued(awaits, k - 1))
       /\ stack' = Append([stack EXCEPT ![Len(stack)].left = @ - k,
                                        ![Len(stack)].moved = TRUE], awaits[k].body)
    /\ ret' = "none"
    /\ UNCHANGED <<source, modules, loading, next_module_id, initialized, ran, imports,
                   settlements, delivered, dropped>>

\* A pass that resumed something is followed by another, over all of the queue.
PassDone == At("drain") /\ ReadyBefore(Top.left) = {}

NextPass ==
    /\ PassDone /\ Top.moved /\ awaits # <<>>
    /\ awaits' = requeued(awaits, Top.left)
    /\ Goto([Top EXCEPT !.left = Len(awaits), !.moved = FALSE])
    /\ UNCHANGED <<source, modules, loading, next_module_id, initialized, ret, ran, imports,
                   settlements, delivered, dropped>>

\* Mutant: the outcomes of other bodies are not handed back.
others_dropped(id) == <<>>

\* push_pending_settlement: the outcomes of other bodies, in their order.
others(id) == SelectSeq(settlements, LAMBDA s : s.id # id)

\* settle_evaluation_promise, when nothing parked is ready any more: the outcome
\* of the module's own body is taken; without one the module stays pending.
SettleEvaluation ==
    /\ PassDone /\ (~Top.moved \/ awaits = <<>>)
    /\ LET own == SelectSeq(settlements, LAMBDA s : s.id = Top.id) IN
       /\ \/ /\ own = <<>>
             /\ modules' = [modules EXCEPT ![Top.path].tla_pending = TRUE]
             /\ loading' = loading \ {Top.path}
             /\ Return("ok")
          \/ own # <<>> /\ Head(own).answer = "ok" /\ evaluated_now(Top.path)
          \/ own # <<>> /\ Head(own).answer = "err" /\ cache_evaluation_error(Top.path)
       /\ delivered' = delivered \cup {own[i].id : i \in DOMAIN own}
    /\ settlements' = others(Top.id)
    /\ awaits' = requeued(awaits, Top.left)
    /\ UNCHANGED <<source, next_module_id, initialized, ran, imports, dropped>>

\* The checkpoint polls the oldest parked body...
CheckpointPolls ==
    /\ stack = <<>> /\ awaits # <<>>
    /\ IF Head(awaits).ready
       THEN stack' = <<Head(awaits).body>> /\ awaits' = Tail(awaits)
       ELSE awaits' = requeued(awaits, 1) /\ UNCHANGED stack
    /\ ret' = "none"
    /\ UNCHANGED <<source, modules, loading, next_module_id, initialized, ran, imports,
                   settlements, delivered, dropped>>

\* ...and settles the promises of the bodies that ended.
CheckpointSettles ==
    /\ stack = <<>> /\ settlements # <<>>
    /\ settlements' = <<>>
    /\ delivered' = delivered \cup {settlements[i].id : i \in DOMAIN settlements}
    /\ UNCHANGED <<source, modules, loading, next_module_id, initialized, stack, ret, ran,
                   imports, awaits, dropped>>

-----------------------------------------------------------------------------
(* load_deferred *)

AnsweredDeferred ==
    /\ At("start") /\ Top.fn = "deferred"
    /\ Top.path \in Linked /\ "deferred" \in Rec(Top.path).has
    /\ Return("ok")
    /\ UNCHANGED <<modules, loading, next_module_id>> /\ Untouched

\* A record that exists only eagerly gets its second namespace, and keeps it if
\* it links.
AttachDeferred ==
    /\ At("start") /\ Top.fn = "deferred"
    /\ Top.path \in Linked /\ "deferred" \notin Rec(Top.path).has
    /\ LET p == Top.path
           linked == link_record([modules EXCEPT ![p] = with_namespace(@, p, "deferred")], p)
       IN IF linked.ok THEN modules' = linked.mods /\ Return("ok")
          ELSE /\ modules' = [linked.mods EXCEPT ![p].has = @ \ {"deferred"}]
               /\ Return("err")
    /\ UNCHANGED <<loading, next_module_id>> /\ Untouched

StartDeferred ==
    /\ At("start") /\ Top.fn = "deferred" /\ ~Broken(Top.path) /\ Top.path \notin Linked
    /\ LET p == Top.path IN
       modules' = record(modules, p,
                         with_namespace(new_record(p, next_module_id), p, "deferred"))
    /\ next_module_id' = next_module_id + 1
    /\ Goto([Top EXCEPT !.pc = "requests"]) /\ ret' = "none"
    /\ UNCHANGED loading /\ Untouched

\* gather_async_targets: the nearest async modules below a path, in request
\* order, each path looked at once; a file that does not compile fails it.
gather_async_targets(p) ==
    LET RECURSIVE visit(_, _)
        visit(q, acc) ==
          IF q \in acc.seen \/ acc.failed THEN acc
          ELSE LET seen == [acc EXCEPT !.seen = @ \cup {q}] IN
               IF (q \in Linked /\ Rec(q).evaluated) \/ q \in loading THEN seen
               ELSE IF Broken(q) THEN [seen EXCEPT !.failed = TRUE]
               ELSE IF source[q].async THEN [seen EXCEPT !.out = Append(@, q)]
               ELSE FoldLeft(LAMBDA a, r : visit(r.path, a), seen, source[q].requests)
    IN visit(p, [seen |-> {}, out |-> <<>>, failed |-> FALSE])

Gather ==
    /\ At("gather")
    /\ LET gathered == gather_async_targets(Top.path) IN
       IF gathered.failed THEN Return("err")
       ELSE /\ Goto([Top EXCEPT !.targets = gathered.out, !.pc = "targets"])
            /\ ret' = "none"
    /\ UNCHANGED <<modules, loading, next_module_id>> /\ Untouched

EvaluateTarget ==
    /\ At("targets") /\ ret # "err" /\ Top.targets # <<>>
    /\ CallFrom([Top EXCEPT !.targets = Tail(@)], "load", Head(Top.targets))
    /\ UNCHANGED <<modules, loading, next_module_id>> /\ Untouched

\* A target that failed fails the request; the record stays in the map.
TargetFailed ==
    /\ At("targets") /\ ret = "err" /\ Return("err")
    /\ UNCHANGED <<modules, loading, next_module_id>> /\ Untouched

\* expect("deferred namespace"): the record is in the map still.
DeferredDone ==
    /\ At("targets") /\ ret # "err" /\ Top.targets = <<>>
    /\ IF Top.path \notin Linked THEN Panic
       ELSE /\ Return("ok")
            /\ UNCHANGED <<modules, loading, next_module_id>> /\ Untouched

Next ==
    \/ \E p \in DOMAIN source : Import(p)
    \/ \E p \in DOMAIN source : ReadNamespace(p)
    \/ Answered \/ Unreadable \/ StartLoading \/ Request \/ RequestFailed
    \/ Link
    \/ StartBody \/ BeginTask \/ (\E q \in DOMAIN source : BodyReads(q))
    \/ BodyThrows \/ BodyReturns \/ TaskThrows \/ TaskReturns \/ TaskAwaits
    \/ (\E k \in DOMAIN awaits : AwaitedSettles(k))
    \/ ResumeNext \/ NextPass \/ SettleEvaluation
    \/ CheckpointPolls \/ CheckpointSettles
    \/ AnsweredDeferred \/ AttachDeferred \/ StartDeferred
    \/ Gather \/ EvaluateTarget \/ TargetFailed \/ DeferredDone

Spec == Init /\ [][Next]_vars

-----------------------------------------------------------------------------
(* Properties *)

Ids == {Rec(p).id : p \in Linked}

TypeOK ==
    /\ Linked \subseteq Paths /\ loading \subseteq Linked
    /\ \A p \in Linked : Rec(p).has \subseteq Variants /\ Rec(p).has # {}
    /\ \A p, q \in Linked : Rec(p).id = Rec(q).id => p = q
    /\ ret \in {"none", "ok", "err", "panic"}

\* The body of a record never runs twice, whoever imports its module, in whatever
\* phase, and whatever failed before.
BodyRunsOnce == \A id \in DOMAIN ran : ran[id].times = 1

\* An async body that was called is in one place, whichever load or checkpoint
\* drains the queues: parked, running, or with an outcome that waits or was taken.
\* A load that waits for a body takes its outcome itself.
Places(id) ==
      Cardinality({k \in DOMAIN awaits : awaits[k].body.id = id})
    + Cardinality({k \in DOMAIN stack : stack[k].fn = "task" /\ stack[k].id = id})
    + Cardinality({k \in DOMAIN settlements : settlements[k].id = id})
    + (IF id \in delivered THEN 1 ELSE 0)

NoBodyIsLost ==
    /\ \A id \in DOMAIN ran : source[ran[id].path].async => Places(id) = 1
    /\ \A k \in DOMAIN stack : stack[k].pc = "drain" => stack[k].id \notin delivered
    /\ \A p \in Linked : Rec(p).evaluated /\ source[p].async => Rec(p).id \in delivered

\* `loading` holds exactly the modules a load of theirs is under way for: no
\* error path leaves a module there to be taken for evaluating ever after.
LoadingIsTheStack ==
    loading = {stack[i].path : i \in {j \in DOMAIN stack :
                 stack[j].fn = "load" /\ stack[j].pc # "start"}}

\* When a body starts, each of its static imports has a namespace of its phase
\* to answer with, and each imported cell already holds its value unless its
\* module is still evaluating; nothing holds for a module whose record a failed
\* load has dropped (README, section 5).
UnderWay(p) == p \in loading \/ Rec(p).tla_pending

HasNamespace(r) == r.path \in Linked /\ Variant(r.deferred) \in Rec(r.path).has

HasValue(cell) ==
    \/ cell[2] = 0 \/ cell \in initialized
    \/ \E p \in Linked : Rec(p).id = cell[1] /\ UnderWay(p)

ImportsAreReady ==
    At("body") =>
      /\ \A r \in Range(source[Top.path].requests) : r.path \in dropped \/ HasNamespace(r)
      /\ Top.path \in Linked /\ Top.id \in {0, Rec(Top.path).id} =>
           \A i \in Imported(Top.path) :
             Plan(Top.path)[i].from \in dropped \/ HasValue(Rec(Top.path).env[i])

\* expect("linked module record"), expect("deferred namespace"): the record of a
\* load is in the map; that of a deferred load, too, unless the module was loaded
\* inside it, by a read of its namespace, and that load failed and dropped the
\* record (README, section 5).
NoPanic == ret = "panic" => Top.fn = "deferred" /\ Top.entered

LoadsInOrder ==
    BodyRunsOnce /\ NoBodyIsLost /\ LoadingIsTheStack /\ ImportsAreReady /\ NoPanic

\* The record of a module whose body was called stays, and what became of the body
\* stays in it.  Only a deferred load of the module itself drops it, when a request
\* fails after a cycle has evaluated the module (README, section 5).
DropsItself(p) ==
    At("requests") /\ Top.fn = "deferred" /\ Top.path = p /\ Top.entered /\ ret = "err"

BegunStays ==
    \A p \in Linked : Rec(p).id \in DOMAIN ran /\ ~DropsItself(p) =>
      /\ p \in DOMAIN modules' /\ modules'[p].id = Rec(p).id
      /\ Rec(p).evaluated => modules'[p].evaluated
      /\ Rec(p).cached_error => modules'[p].cached_error

\* ModuleBindingPlan.exports: "Export names backed by this same cell."
ExportsShareTheCell ==
    \A p \in Linked : Rec(p).evaluated =>
      \A i \in DOMAIN Plan(p) : \A n \in Plan(p)[i].exports : \A v \in Rec(p).has :
        Rec(p).exports[v][n] = Rec(p).env[i]

\* LoaderState.modules: "canonical path -> one canonical module record".
\* Whatever an evaluated module imported belongs to a record of the map.
OneCanonicalRecord ==
    \A p \in Linked : Rec(p).evaluated =>
      \A i \in Imported(p) : Rec(p).env[i][1] \in Ids
=============================================================================
