------------------------------ MODULE Importer ------------------------------
(***************************************************************************)
(* What the importer reads and writes (crates/importer/src/main.rs,        *)
(* common.rs and the modules of each kind): one file per CR, made of an    *)
(* object of Authentik and seeded with its id.                             *)
(*                                                                         *)
(* A run lists one kind after the other.  Objects refer to each other by   *)
(* primary key and CRs by name: a reference is resolved with the names     *)
(* that an earlier listing of the same run read, while people may change   *)
(* Authentik between any two calls.  A call that fails ends the run; the   *)
(* files stay, and the next run writes over those of the same name.        *)
(*                                                                         *)
(* Abstractions: of an object the kind, the name and the references are    *)
(* kept, and the first of the objects that share a place is a fixed one.   *)
(* An application's provider is part of the application; a certificate is  *)
(* named as a property mapping is.  Settings have no counterpart: most are *)
(* copied, but a group's attributes lose those that are not strings        *)
(* (groups.rs:64), and a flow beyond its list is written as "" where it is *)
(* kept here as no reference (applications.rs:116).  An access policy's    *)
(* name is the pair of names that the code joins with a dash, so that two  *)
(* pairs never share a file here ("a-b", "c" and "a", "b-c" do).  Adopting *)
(* the files (apply.rs) is RemoteObject's ImportCreates, ImportSeeds and   *)
(* ImportReleases.                                                         *)
(***************************************************************************)
EXTENDS Naturals, Sequences, FiniteSets

CONSTANTS
    Pks,          \* Authentik's objects, there or not
    KindOf,       \* KindOf[p]: the kind of p
    Names,
    SlugOf,       \* SlugOf[n]: n as the name of a Kubernetes object
    Embedded,     \* the name of Authentik's own outpost
    Beginnings,   \* bound: what Authentik holds at first
    Wanted,       \* the slugs of the applications to import
    Page,         \* the objects a list returns at most,
    BindingsPage, \* and that of an application's bindings, for which nothing is asked
    MaxRuns,      \* bound: runs of the importer
    MaxFaults,    \* bound: failed calls
    MaxHuman,     \* bound: changes people make in Authentik
    None          \* no name, no object

Kinds == {"group", "user", "flow", "mapping", "brand", "outpost", "application", "binding"}
\* The kinds an object refers to; an outpost lists applications, by their providers.
Targets == [group |-> {"group"}, user |-> {"group"}, flow |-> {}, mapping |-> {},
            brand |-> {"flow"}, outpost |-> {"application"},
            application |-> {"flow", "mapping"}, binding |-> {"application", "group"}]
\* Kinds of provider ("bare": none); a mapping of Authentik's own; an outpost no CR
\* can stand for.
Marks == {"plain", "proxy", "oauth2", "saml", "bare", "managed", "rac"}

Slugs == {SlugOf[n] : n \in Names}
ASSUME ObjectsAssumption ==
    /\ KindOf \in [Pks -> Kinds] /\ SlugOf \in [Names -> Slugs]
    /\ Embedded \in Names /\ Wanted \subseteq Names
    /\ None \notin Names \cup Slugs \cup Pks /\ IsFiniteSet(Pks)
ASSUME BoundsAssumption ==
    /\ Page \in Nat \ {0} /\ BindingsPage \in Nat \ {0}
    /\ MaxRuns \in Nat /\ MaxFaults \in Nat /\ MaxHuman \in Nat

Object == [live : BOOLEAN, name : Names \cup {None}, refs : SUBSET Pks, mark : Marks]
\* What Authentik's own constraints keep: everything but a binding has a name, which no
\* other of its kind has; references are of the kinds that Targets names, to what is there;
\* a binding is of one application, to at most one group.
Coherent(o) ==
    \A p \in Pks : o[p].live =>
        /\ o[p].name = None <=> KindOf[p] = "binding"
        /\ \A q \in o[p].refs : o[q].live /\ KindOf[q] \in Targets[KindOf[p]]
        /\ \A q \in Pks \ {p} : o[q].live /\ KindOf[q] = KindOf[p] =>
              KindOf[p] = "binding" \/ o[q].name # o[p].name
        /\ KindOf[p] = "binding" =>
              /\ \E a \in o[p].refs : KindOf[a] = "application"
              /\ \A q, r \in o[p].refs : KindOf[q] = KindOf[r] => q = r
ASSUME BeginningsAssumption == Beginnings \subseteq {o \in [Pks -> Object] : Coherent(o)}

VARIABLES
    objs,           \* Authentik's objects
    pc,             \* what the run reads next
    read,           \* the names it knows groups, flows and mappings by
    outposts,       \* the outposts it listed
    providers,      \* the providers it listed, by the slug of their application
    todo,           \* the applications left to write, with their providers
    files,          \* the CRs written, by kind and name
    runs, quiet,    \* the runs begun; nobody changed Authentik since the last began
    faults, human   \* what is left of the two budgets

vars == <<objs, pc, read, outposts, providers, todo, files, runs, quiet, faults, human>>

Live == {p \in Pks : objs[p].live}
Of(kind) == {p \in Live : KindOf[p] = kind}

Unread == [k \in {"group", "flow", "mapping"} |-> <<>>]

Init ==
    /\ objs \in Beginnings
    /\ pc = "idle"
    /\ read = Unread
    /\ outposts = {} /\ providers = {} /\ todo = {} /\ files = <<>>
    /\ runs = 0 /\ quiet = TRUE
    /\ faults = MaxFaults /\ human = MaxHuman
-----------------------------------------------------------------------------
(* People working in Authentik.                                            *)

Free(kind, n) == \A q \in Of(kind) : objs[q].name # n

People == human > 0 /\ human' = human - 1 /\ quiet' = FALSE

HumanRenames(p, n) ==
    /\ People /\ p \in Live /\ KindOf[p] # "binding" /\ Free(KindOf[p], n)
    /\ objs' = [objs EXCEPT ![p].name = n]
    /\ UNCHANGED <<pc, read, outposts, providers, todo, files, runs, faults>>

HumanRefers(p, refs) ==
    /\ People /\ p \in Live /\ KindOf[p] # "binding"
    /\ objs' = [objs EXCEPT ![p].refs = refs]
    /\ UNCHANGED <<pc, read, outposts, providers, todo, files, runs, faults>>

\* A binding goes with what it binds, a provider with its flow.
HumanDeletes(p) ==
    /\ People /\ p \in Live
    /\ objs' = [q \in Pks |->
          LET o == objs[q]
          IN [o EXCEPT !.live = @ /\ q # p /\ ~(KindOf[q] = "binding" /\ p \in o.refs),
                       !.refs = @ \ {p},
                       !.mark = IF KindOf[q] = "application" /\ KindOf[p] = "flow"
                                   /\ p \in o.refs THEN "bare" ELSE @]]
    /\ UNCHANGED <<pc, read, outposts, providers, todo, files, runs, faults>>

HumanCreates(p, n) ==
    /\ People /\ ~objs[p].live /\ KindOf[p] \in {"group", "user", "flow"}
    /\ Free(KindOf[p], n)
    /\ objs' = [objs EXCEPT ![p] = [live |-> TRUE, name |-> n, refs |-> {}, mark |-> "plain"]]
    /\ UNCHANGED <<pc, read, outposts, providers, todo, files, runs, faults>>
-----------------------------------------------------------------------------
(* A run.                                                                  *)

\* What a list of the objects in S answers: one page.
PageOf(S, max) ==
    {T \in SUBSET S : T = S \/ (Cardinality(T) = max /\ max < Cardinality(S))}
Pages(kind) == PageOf(Of(kind), Page)
BindingsOf(a) == {b \in Of("binding") : a \in objs[b].refs}

\* Applications and flows are known by their slug, everything else by its primary key.
IdOf(p) == IF KindOf[p] \in {"application", "flow"} THEN objs[p].name ELSE p

\* A bug: the name as it is, which Kubernetes refuses.
CrNameVerbatim(names) == names

\* A CR's name is made of names, each a slug; two names may share one.
CrName(names) == [i \in DOMAIN names |-> SlugOf[names[i]]]

\* A bug: references are resolved by the names of the CRs.
ResolvedAsSlugs(S, known, kind) ==
    {<<kind, SlugOf[known[kind][p]]>> : p \in S \cap DOMAIN known[kind]}

\* A bug: a reference is resolved by the name the object has now.
ResolvedNow(S, known, kind) ==
    {<<kind, objs[p].name>> : p \in {q \in S : KindOf[q] = kind}}

\* References, by the names known of their targets; what is not known is left out.
Resolved(S, known, kind) ==
    {<<kind, known[kind][p]>> : p \in S \cap DOMAIN known[kind]}

\* A CR has one parent: the first.
Parent(p) == IF objs[p].refs = {} THEN {} ELSE {CHOOSE q \in objs[p].refs : TRUE}

\* The references of a CR that stands for p.
RefsOf(p, known) ==
    CASE KindOf[p] = "group" -> Resolved(Parent(p), known, "group")
      [] KindOf[p] = "user" -> Resolved(objs[p].refs, known, "group")
      [] KindOf[p] = "brand" -> Resolved(objs[p].refs, known, "flow")
      [] OTHER -> {}

\* "to" is the application of an access policy, the outpost of an application.
Cr(id, name, refs, to) == [id |-> id, name |-> name, refs |-> refs, to |-> to, run |-> runs]

\* The files of a list's objects; of those with one name, one is left.
Written(S, known) ==
    LET key(p) == <<KindOf[p], CrName(<<objs[p].name>>)>>
    IN [k \in {key(p) : p \in S} |->
          LET p == CHOOSE q \in S : key(q) = k
          IN Cr(IdOf(p), objs[p].name, RefsOf(p, known), None)]

Begin ==
    /\ pc \in {"idle", "written"} /\ runs < MaxRuns
    /\ runs' = runs + 1 /\ quiet' = TRUE
    /\ pc' = "group"
    /\ read' = Unread
    /\ outposts' = {} /\ providers' = {} /\ todo' = {}
    /\ UNCHANGED <<objs, files, faults, human>>

\* A list is read whole, and its files written, before what follows is asked for.
Goes(next, new) ==
    /\ pc' = next
    /\ files' = [k \in DOMAIN new \cup DOMAIN files |->
                    IF k \in DOMAIN new THEN new[k] ELSE files[k]]
    /\ UNCHANGED <<objs, runs, quiet, faults, human>>

NamesOf(S) == [p \in S |-> objs[p].name]

\* Groups may be each other's parents: their own list names them.
ListGroups ==
    /\ pc = "group"
    /\ \E S \in Pages("group") :
          /\ read' = [read EXCEPT !.group = NamesOf(S)]
          /\ Goes("user", Written(S, read'))
    /\ UNCHANGED <<outposts, providers, todo>>

ListUsers ==
    /\ pc = "user"
    /\ \E S \in Pages("user") : Goes("flow", Written(S, read))
    /\ UNCHANGED <<read, outposts, providers, todo>>

ListFlows ==
    /\ pc = "flow"
    /\ \E S \in Pages("flow") :
          /\ read' = [read EXCEPT !.flow = NamesOf(S)]
          /\ Goes("mapping", Written(S, read'))
    /\ UNCHANGED <<outposts, providers, todo>>

\* Authentik's own mappings get no CR.
ListMappings ==
    /\ pc = "mapping"
    /\ \E S \in Pages("mapping") :
          Goes("brand", Written({p \in S : objs[p].mark # "managed"}, read))
    /\ UNCHANGED <<read, outposts, providers, todo>>

ListBrands ==
    /\ pc = "brand"
    /\ \E S \in Pages("brand") : Goes("outpost", Written(S, read))
    /\ UNCHANGED <<read, outposts, providers, todo>>

\* Neither does its own outpost, nor one of a type the CRD lacks.
ListOutposts ==
    /\ pc = "outpost"
    /\ \E S \in Pages("outpost") :
          /\ outposts' = {[name |-> objs[p].name, refs |-> objs[p].refs] : p \in S}
          /\ Goes("names", Written({p \in S : objs[p].name # Embedded /\ objs[p].mark # "rac"},
                                   read))
    /\ UNCHANGED <<read, providers, todo>>

\* Applications name their mappings from a list of their own.
ReadMappingNames ==
    /\ pc = "names"
    /\ \E S \in Pages("mapping") : read' = [read EXCEPT !.mapping = NamesOf(S)]
    /\ Goes("provider", <<>>)
    /\ UNCHANGED <<outposts, providers, todo>>

ListProviders ==
    /\ pc = "provider"
    /\ \E S \in Pages("application") :
          providers' = {[slug |-> objs[p].name, pk |-> p, mark |-> objs[p].mark] :
                            p \in {q \in S : objs[q].mark # "bare"}}
    /\ Goes("application", <<>>)
    /\ UNCHANGED <<read, outposts, todo>>

\* Left out: the applications nobody asked for, those without a provider, and those of a
\* provider the CRD lacks.
ListApplications ==
    /\ pc = "application"
    /\ \E S \in Pages("application") :
          LET asked(x) == x.slug \in Wanted /\ x.mark \in {"oauth2", "proxy"}
          IN todo' = {[slug |-> t[2].slug, pk |-> t[1], provider |-> t[2].pk,
                       mark |-> t[2].mark] :
                          t \in {t \in S \X providers :
                                     t[2].slug = objs[t[1]].name /\ asked(t[2])}}
    /\ Goes(IF todo' = {} THEN "written" ELSE "retrieve", <<>>)
    /\ UNCHANGED <<read, outposts, providers>>

First == CHOOSE x \in todo : TRUE

\* The outpost a proxied application is on, the first listed if there are several; none
\* stands for Authentik's own.
OutpostRef(p) ==
    LET on == {o \in outposts : p \in o.refs}
        name == (CHOOSE o \in on : TRUE).name
    IN IF on = {} \/ name = Embedded THEN None ELSE SlugOf[name]

AppCr(x) ==
    LET refs == objs[x.provider].refs
    IN Cr(x.slug, x.slug,
          Resolved(refs, read, "flow")
              \cup (IF x.mark = "oauth2" THEN Resolved(refs, read, "mapping") ELSE {}),
          IF x.mark = "proxy" THEN OutpostRef(x.provider) ELSE None)

RetrieveProvider ==
    /\ pc = "retrieve" /\ objs[First.provider].live /\ objs[First.provider].mark = First.mark
    /\ Goes("binding", [k \in {<<"application", CrName(<<First.slug>>)>>} |-> AppCr(First)])
    /\ UNCHANGED <<read, outposts, providers, todo>>

\* Each group bound to the application gets an access policy, named after both.
ListBindings ==
    /\ pc = "binding"
    /\ todo' = todo \ {First}
    /\ \E S \in PageOf(BindingsOf(First.pk), BindingsPage) :
          LET group(b) == CHOOSE g \in objs[b].refs \cap DOMAIN read.group : TRUE
              bound == {b \in S : objs[b].refs \cap DOMAIN read.group # {}}
              key(b) == <<"binding", CrName(<<First.slug, read.group[group(b)]>>)>>
          IN Goes(IF todo' = {} THEN "written" ELSE "retrieve",
                  [k \in {key(b) : b \in bound} |->
                      LET b == CHOOSE b \in bound : key(b) = k
                      IN Cr(b, None, Resolved(objs[b].refs, read, "group"), SlugOf[First.slug])])
    /\ UNCHANGED <<read, outposts, providers>>

\* A call fails, or asks for a provider that is gone: the run ends there.
CallFails ==
    /\ pc \notin {"idle", "written"}
    /\ \/ /\ faults > 0 /\ faults' = faults - 1
       \/ /\ pc = "retrieve" /\ UNCHANGED faults
          /\ ~(objs[First.provider].live /\ objs[First.provider].mark = First.mark)
    /\ pc' = "idle"
    /\ UNCHANGED <<objs, read, outposts, providers, todo, files, runs, quiet, human>>
-----------------------------------------------------------------------------
HumanStep ==
    \/ \E p \in Pks, n \in Names : HumanRenames(p, n) \/ HumanCreates(p, n)
    \/ \E p \in Pks : \E refs \in SUBSET {q \in Live \ {p} : KindOf[q] \in Targets[KindOf[p]]} :
          HumanRefers(p, refs)
    \/ \E p \in Pks : HumanDeletes(p)
RunStep ==
    \/ ListGroups \/ ListUsers \/ ListFlows \/ ListMappings \/ ListBrands \/ ListOutposts
    \/ ReadMappingNames \/ ListProviders \/ ListApplications
    \/ RetrieveProvider \/ ListBindings

Next == HumanStep \/ Begin \/ RunStep \/ CallFails

Spec == Init /\ [][Next]_vars
-----------------------------------------------------------------------------
(* Properties.                                                             *)

\* The values every variable ranges over; a file's name is one Kubernetes takes.
TypeOK ==
    /\ objs \in [Pks -> Object]
    /\ pc \in Kinds \cup {"idle", "names", "provider", "retrieve", "written"}
    /\ \A k \in DOMAIN read : read[k] \in [DOMAIN read[k] -> Names] /\ DOMAIN read[k] \subseteq Pks
    /\ \A k \in DOMAIN files :
          /\ k \in Kinds \X Seq(Slugs)
          /\ files[k].refs \subseteq (DOMAIN read) \X Names /\ files[k].to \in Slugs \cup {None}
    /\ runs \in 0..MaxRuns /\ quiet \in BOOLEAN
    /\ faults \in 0..MaxFaults /\ human \in 0..MaxHuman

\* The CRs of the last run.
Latest == {k \in DOMAIN files : files[k].run = runs}

\* Whatever people change while a run goes on, a group or a flow that a CR refers to has
\* a CR of its own, of that very name, in the same run (or one that shares its place):
\* once the CRs are adopted, the reference designates the object it was read from.
FilesAgree ==
    \A k \in Latest : \A ref \in files[k].refs :
        ref[1] \in {"group", "flow"} =>
            LET there == <<ref[1], CrName(<<ref[2]>>)>>
            IN /\ there \in Latest
               /\ \/ files[there].name = ref[2]
                  \/ \E n \in Names \ {ref[2]} : SlugOf[n] = SlugOf[ref[2]]

\* What a CR can say that p refers to: all of it, but for a group's other parents and the
\* mappings of a proxy.
Meant(p) ==
    CASE KindOf[p] = "group" -> Parent(p)
      [] KindOf[p] = "outpost" -> {}
      [] KindOf[p] = "application" /\ objs[p].mark = "proxy" -> objs[p].refs \cap Of("flow")
      [] OTHER -> objs[p].refs

\* What its CR replaces once it is adopted (update_group_impl and the like): of these
\* references, those that the CR does not name are removed.
Replaced(p) == IF KindOf[p] = "group" THEN objs[p].refs ELSE Meant(p)

\* The objects a CR refers to: by their names, an access policy's application by its CR.
Designated(k) ==
    {q \in Live : \/ <<KindOf[q], objs[q].name>> \in files[k].refs
                  \/ /\ KindOf[q] = "application" /\ k[1] = "binding"
                     /\ files[<<"application", <<files[k].to>>>>].id = IdOf(q)}

Proxied(p) == KindOf[p] = "application" /\ objs[p].mark = "proxy"
Serving(p) == {o \in Of("outpost") : p \in objs[o].refs}

\* Adopting k leaves p's references as they are, and p on the outposts it is on: the
\* operator puts an application on the one outpost that its CR names, and on no other.
LeavesAlone(k, p) ==
    /\ Designated(k) = Replaced(p)
    /\ Proxied(p) => {objs[o].name : o \in Serving(p)} =
                       {IF files[k].to = None THEN Embedded ELSE files[k].to}

\* The objects whose references the CRDs have room for: a group of one parent at most, an
\* application on one outpost, Authentik's own or one whose name is a slug.
Expressible(p) ==
    /\ KindOf[p] = "group" => Cardinality(objs[p].refs) <= 1
    /\ Proxied(p) => \E o \in Of("outpost") :
                        Serving(p) = {o} /\ objs[o].name \in {SlugOf[objs[o].name], Embedded}

\* The objects whose CR's name no other of their kind shares.
Alone(p) == \A q \in Of(KindOf[p]) \ {p} : SlugOf[objs[q].name] # SlugOf[objs[p].name]

Importable(a) == objs[a].name \in Wanted /\ objs[a].mark \in {"oauth2", "proxy"}
HasCr(p) ==
    CASE KindOf[p] = "mapping" -> objs[p].mark # "managed"
      [] KindOf[p] = "outpost" -> objs[p].name # Embedded /\ objs[p].mark # "rac"
      [] KindOf[p] = "application" -> Importable(p)
      [] KindOf[p] = "binding" ->
            /\ objs[p].refs \cap Of("group") # {}
            /\ \A a \in objs[p].refs \cap Of("application") : Importable(a) /\ Alone(a)
      [] OTHER -> TRUE

PlaceOf(p) ==
    LET of(kind) == CHOOSE q \in objs[p].refs : KindOf[q] = kind
    IN <<KindOf[p], CrName(IF KindOf[p] = "binding"
                          THEN <<objs[of("application")].name, objs[of("group")].name>>
                          ELSE <<objs[p].name>>)>>

\* Every list of a run would fit in its page.
ListsFit ==
    /\ \A kind \in Kinds \ {"binding"} : Cardinality(Of(kind)) <= Page
    /\ \A a \in Of("application") : Cardinality(BindingsOf(a)) <= BindingsPage

\* If nobody changed Authentik during a run, and every list fitted in its page, each CR of
\* the run stands for one object and says of its references what the CRDs can say; every
\* object that can have a CR has one, or shares its place with one that has.  Adopting a CR
\* leaves its object as it is if the CRDs have room for its references, and only then: a
\* group loses its other parents, an application on several outposts all but one, an
\* application on none is put on Authentik's own.
AsListed ==
    pc = "written" /\ quiet /\ ListsFit =>
    /\ \A k \in Latest : \E p \in Of(k[1]) :
          /\ files[k].id = IdOf(p) /\ files[k].name = objs[p].name
          /\ HasCr(p) => Designated(k) = Meant(p) /\ (LeavesAlone(k, p) <=> Expressible(p))
    /\ \A p \in Live : HasCr(p) => PlaceOf(p) \in Latest
=============================================================================
