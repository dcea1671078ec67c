---------------------------- MODULE Importer_proofs ----------------------------
(***************************************************************************)
(* What the importer promises for every Authentik, page size and number of *)
(* runs, failures and changes made while it reads: the types of what it    *)
(* writes, that the CRs of a run agree with each other, and what those of  *)
(* a run nobody disturbed say of what is there, and do to it once adopted. *)
(***************************************************************************)
EXTENDS Importer, FiniteSetTheorems, TLAPS

-----------------------------------------------------------------------------
(* What the operators return.                                              *)

\* The kinds references are resolved to.
Known == {"group", "flow", "mapping"}

LEMMA KnownIs ==
  /\ DOMAIN Unread = Known
  /\ \A k \in Known : DOMAIN Unread[k] = {} /\ Unread[k] \in [DOMAIN Unread[k] -> Names]
  /\ DOMAIN <<>> = {}
  <1>1. DOMAIN <<>> = {} /\ <<>> \in [{} -> Names]
    <2>1. <<>> \in Seq(Names) /\ Len(<<>>) = 0
      OBVIOUS
    <2>2. <<>> \in [1..0 -> Names]
      BY <2>1
    <2>3. 1..0 = {}
      OBVIOUS
    <2>4. QED BY <2>2, <2>3
  <1>2. DOMAIN Unread = Known /\ \A k \in Known : Unread[k] = <<>>
    BY DEF Unread, Known
  <1>3. QED BY <1>1, <1>2

LEMMA CrNameIs ==
  ASSUME NEW n \in Names, NEW m \in Names
  PROVE  /\ CrName(<<n>>) \in Seq(Slugs) /\ CrName(<<n, m>>) \in Seq(Slugs)
         /\ CrName(<<n>>) = CrName(<<m>>) => SlugOf[n] = SlugOf[m]
  <1>1. SlugOf[n] \in Slugs /\ SlugOf[m] \in Slugs
    BY DEF Slugs
  <1>2. CrName(<<n>>) = <<SlugOf[n]>> /\ CrName(<<m>>) = <<SlugOf[m]>>
    BY DEF CrName
  <1>3. CrName(<<n, m>>) = <<SlugOf[n], SlugOf[m]>>
    BY DEF CrName
  <1>4. <<SlugOf[n]>> = <<SlugOf[m]>> => SlugOf[n] = SlugOf[m]
    OBVIOUS
  <1>5. \A S : \A a, b \in S : <<a>> \in Seq(S) /\ <<a, b>> \in Seq(S)
    OBVIOUS
  <1>6. CrName(<<n>>) \in Seq(Slugs) /\ CrName(<<n, m>>) \in Seq(Slugs)
    BY <1>1, <1>2, <1>3, <1>5
  <1>7. QED BY <1>2, <1>4, <1>6
-----------------------------------------------------------------------------
(* The invariant.                                                          *)

\* What is named has a name, and what is left to write is there to be written.
Typed ==
    /\ TypeOK
    /\ DOMAIN read = Known
    /\ \A p \in Live : KindOf[p] # "binding" => objs[p].name \in Names
    /\ \A o \in outposts : o.name \in Names
    /\ \A x \in providers : x.slug \in Names
    /\ \A x \in todo : x.slug \in Names
    /\ pc \in {"retrieve", "binding"} => todo # {}
    /\ \A k \in DOMAIN files : files[k].run \in 0..runs

\* A run's CR of a group or a flow is filed under its name; whatever the run knows by
\* name, and whatever its CRs refer to, is filed there.
Filed(kind, n) == <<kind, CrName(<<n>>)>> \in Latest
Agreed ==
    /\ \A k \in Latest : k[1] \in {"group", "flow"} =>
          files[k].name \in Names /\ k[2] = CrName(<<files[k].name>>)
    /\ \A kind \in {"group", "flow"} : \A p \in DOMAIN read[kind] : Filed(kind, read[kind][p])
    /\ \A k \in Latest : \A ref \in files[k].refs :
          ref[1] \in {"group", "flow"} => ref[2] \in Names /\ Filed(ref[1], ref[2])
Inv == Typed /\ Agreed

\* What is known by name when files are written.
Names_of(known) ==
    /\ DOMAIN known = Known
    /\ \A kind \in Known : /\ known[kind] \in [DOMAIN known[kind] -> Names]
                           /\ DOMAIN known[kind] \subseteq Pks

\* Files made with it: they refer to what is known, and a group or a flow is filed under
\* its name.
Made(new, known) ==
    \A k \in DOMAIN new :
        /\ k \in Kinds \X Seq(Slugs)
        /\ new[k].to \in Slugs \cup {None} /\ new[k].run = runs
        /\ \A ref \in new[k].refs :
              \E kind \in Known : \E p \in DOMAIN known[kind] : ref = <<kind, known[kind][p]>>
        /\ k[1] \in {"group", "flow"} =>
              new[k].name \in Names /\ k[2] = CrName(<<new[k].name>>)

\* What was just read is filed at once.
Lists(new, known) ==
    \A kind \in {"group", "flow"} :
        \/ known[kind] = read[kind]
        \/ \A p \in DOMAIN known[kind] : <<kind, CrName(<<known[kind][p]>>)>> \in DOMAIN new

LEMMA GoesOn ==
  ASSUME Inv, NEW next, NEW new, NEW known, Goes(next, new), read' = known,
         Names_of(known), Made(new, known), Lists(new, known)
  PROVE  /\ \A k \in DOMAIN files' :
               /\ k \in Kinds \X Seq(Slugs)
               /\ files'[k].refs \subseteq Known \X Names /\ files'[k].to \in Slugs \cup {None}
               /\ files'[k].run \in 0..runs
         /\ Agreed'
  <1>1. /\ runs' = runs /\ runs \in Nat /\ DOMAIN files' = DOMAIN new \cup DOMAIN files
        /\ \A k \in DOMAIN new : files'[k] = new[k]
        /\ \A k \in DOMAIN files \ DOMAIN new : files'[k] = files[k]
    BY BoundsAssumption DEF Goes, Inv, Typed, TypeOK
  <1>2. \A k \in DOMAIN new : new[k].refs \subseteq Known \X Names
    <2>1. SUFFICES ASSUME NEW k \in DOMAIN new, NEW ref \in new[k].refs
                   PROVE  ref \in Known \X Names
      OBVIOUS
    <2>2. \E kind \in Known : \E p \in DOMAIN known[kind] : ref = <<kind, known[kind][p]>>
      BY DEF Made
    <2>3. PICK kind \in Known : \E p \in DOMAIN known[kind] : ref = <<kind, known[kind][p]>>
      BY <2>2
    <2>4. PICK p \in DOMAIN known[kind] : ref = <<kind, known[kind][p]>>
      BY <2>3
    <2>5. known[kind][p] \in Names
      BY DEF Names_of
    <2>6. QED BY <2>4, <2>5
  <1>3. \A k \in DOMAIN files' :
               /\ k \in Kinds \X Seq(Slugs)
               /\ files'[k].refs \subseteq Known \X Names /\ files'[k].to \in Slugs \cup {None}
               /\ files'[k].run \in 0..runs
    <2>0. \A k \in DOMAIN new : new[k].run = runs
      BY DEF Made
    <2>1. \A k \in DOMAIN new : new[k].run \in 0..runs
      <3>1. runs \in 0..runs
        BY <1>1
      <3>2. QED BY <2>0, <3>1
    <2>2. QED BY <1>1, <1>2, <2>1 DEF Made, Inv, Typed, TypeOK
  \* The CRs of the run so far stay, under their names.
  <1>4. Latest' = DOMAIN new \cup Latest
    BY <1>1 DEF Latest, Made
  <1>5. \A kind, n : Filed(kind, n) => <<kind, CrName(<<n>>)>> \in Latest'
    BY <1>4 DEF Filed
  <1>6. ASSUME NEW k \in Latest', k[1] \in {"group", "flow"}
        PROVE  files'[k].name \in Names /\ k[2] = CrName(<<files'[k].name>>)
    <2>1. CASE k \in DOMAIN new
      BY <1>1, <1>6, <2>1 DEF Made
    <2>2. CASE k \notin DOMAIN new
      BY <1>1, <1>4, <1>6, <2>2 DEF Inv, Agreed, Latest
    <2>3. QED BY <2>1, <2>2
  <1>7. ASSUME NEW kind \in {"group", "flow"}, NEW p \in DOMAIN known[kind]
        PROVE  <<kind, CrName(<<known[kind][p]>>)>> \in Latest'
    BY <1>4, <1>5, <1>7 DEF Lists, Inv, Agreed
  <1>8. ASSUME NEW k \in Latest', NEW ref \in files'[k].refs, ref[1] \in {"group", "flow"}
        PROVE  ref[2] \in Names /\ <<ref[1], CrName(<<ref[2]>>)>> \in Latest'
    <2>1. CASE k \in DOMAIN new
      <3>0. \E kind \in Known : \E p \in DOMAIN known[kind] : ref = <<kind, known[kind][p]>>
        <4>1. ref \in new[k].refs
          BY <1>1, <1>8, <2>1
        <4>2. QED BY <2>1, <4>1 DEF Made
      <3>1. PICK kind \in Known : \E p \in DOMAIN known[kind] : ref = <<kind, known[kind][p]>>
        BY <3>0
      <3>p. PICK p \in DOMAIN known[kind] : ref = <<kind, known[kind][p]>>
        BY <3>1
      <3>2. ref[1] = kind /\ ref[2] = known[kind][p] /\ ref[2] \in Names
        BY <3>p DEF Names_of
      <3>3. QED BY <1>7, <1>8, <3>2
    <2>2. CASE k \notin DOMAIN new
      <3>1. k \in Latest /\ files'[k] = files[k]
        BY <1>1, <1>4, <1>8, <2>2 DEF Latest
      <3>2. QED BY <1>5, <1>8, <3>1 DEF Inv, Agreed
    <2>3. QED BY <2>1, <2>2
  <1>9. \A kind, n : Filed(kind, n)' <=> <<kind, CrName(<<n>>)>> \in Latest'
    BY DEF Filed, CrName
  <1>10. QED BY <1>3, <1>6, <1>7, <1>8, <1>9 DEF Agreed

LEMMA WrittenMakes ==
  ASSUME Typed, NEW known, Names_of(known), NEW S, S \subseteq Live,
         \A p \in S : KindOf[p] # "binding"
  PROVE  /\ Made(Written(S, known), known)
         /\ \A p \in S : <<KindOf[p], CrName(<<objs[p].name>>)>> \in DOMAIN Written(S, known)
  <1> DEFINE key(p) == <<KindOf[p], CrName(<<objs[p].name>>)>>
  <1>1. /\ DOMAIN Written(S, known) = {key(p) : p \in S}
        /\ \A k \in {key(p) : p \in S} : \E p \in S :
              key(p) = k /\ Written(S, known)[k] = Cr(IdOf(p), objs[p].name, RefsOf(p, known), None)
    BY DEF Written
  <1>2. ASSUME NEW p \in S
        PROVE  /\ key(p) \in Kinds \X Seq(Slugs) /\ objs[p].name \in Names
               /\ \A ref \in RefsOf(p, known) :
                     \E kind \in Known : \E q \in DOMAIN known[kind] : ref = <<kind, known[kind][q]>>
    <2>1. p \in Pks /\ KindOf[p] \in Kinds /\ objs[p].name \in Names
      BY ObjectsAssumption DEF Live, Typed
    <2>2. CrName(<<objs[p].name>>) \in Seq(Slugs)
      BY <2>1, CrNameIs
    <2>3. ASSUME NEW T, NEW kind \in Known
          PROVE  \A ref \in Resolved(T, known, kind) :
                     \E q \in DOMAIN known[kind] : ref = <<kind, known[kind][q]>>
      BY DEF Resolved
    <2>4. \A ref \in RefsOf(p, known) :
              \E kind \in Known : \E q \in DOMAIN known[kind] : ref = <<kind, known[kind][q]>>
      <3>1. \/ RefsOf(p, known) = {}
            \/ \E T : \E kind \in Known : RefsOf(p, known) = Resolved(T, known, kind)
        BY DEF RefsOf, Known
      <3>2. QED BY <2>3, <3>1
    <2>5. QED BY <2>1, <2>2, <2>4
  <1>3. ASSUME NEW k \in {key(p) : p \in S}
        PROVE  LET f == Written(S, known)[k]
               IN /\ k \in Kinds \X Seq(Slugs) /\ f.to \in Slugs \cup {None} /\ f.run = runs
                  /\ \A ref \in f.refs :
                        \E kind \in Known : \E q \in DOMAIN known[kind] : ref = <<kind, known[kind][q]>>
                  /\ f.name \in Names /\ k[2] = CrName(<<f.name>>)
    <2>1. PICK p \in S : key(p) = k
                         /\ Written(S, known)[k] = Cr(IdOf(p), objs[p].name, RefsOf(p, known), None)
      BY <1>1, <1>3
    <2>2. /\ Written(S, known)[k].to = None /\ Written(S, known)[k].run = runs
          /\ Written(S, known)[k].refs = RefsOf(p, known)
          /\ Written(S, known)[k].name = objs[p].name
      BY <2>1 DEF Cr
    <2>3. k[2] = CrName(<<objs[p].name>>)
      BY <2>1
    <2>4. QED BY <1>2, <2>1, <2>2, <2>3
  <1>4. QED BY <1>1, <1>3 DEF Made
-----------------------------------------------------------------------------
(* Every step keeps it.                                                    *)

LEMMA InitInv == Init => Inv
  <1> SUFFICES ASSUME Init PROVE Inv
    OBVIOUS
  <1>1. objs \in [Pks -> Object] /\ \A p \in Live : KindOf[p] # "binding" => objs[p].name \in Names
    <2>0. objs \in [Pks -> Object] /\ Coherent(objs)
      BY BeginningsAssumption DEF Init
    <2>1. objs \in [Pks -> Object]
          /\ \A p \in Pks : objs[p].live /\ KindOf[p] # "binding" => objs[p].name # None
      BY <2>0 DEF Coherent
    <2>2. \A p \in Pks : objs[p].name \in Names \cup {None}
      BY <2>1 DEF Object
    <2>3. QED BY <2>1, <2>2 DEF Live
  <1>2. /\ DOMAIN read = Known /\ DOMAIN files = {}
        /\ \A k \in Known : read[k] \in [DOMAIN read[k] -> Names] /\ DOMAIN read[k] = {}
    BY KnownIs DEF Init
  <1>3. TypeOK
    BY <1>1, <1>2, BoundsAssumption DEF Init, TypeOK
  <1>4. Typed
    BY <1>1, <1>2, <1>3 DEF Init, Typed
  <1>5. Latest = {}
    BY <1>2 DEF Latest
  <1>6. \A kind \in {"group", "flow"} : DOMAIN read[kind] = {}
    BY <1>2 DEF Known
  <1>7. QED BY <1>4, <1>5, <1>6 DEF Inv, Agreed

\* What was written, and what is known of it, stays as it was.
LEMMA AgreedStays ==
  ASSUME Agreed, UNCHANGED <<read, files, runs>>
  PROVE  Agreed'
  BY DEF Agreed, Filed, Latest, CrName

\* People change the objects, and nothing that was read.
LEMMA PeopleKeep ==
  ASSUME Inv, HumanStep
  PROVE  Inv'
  <1> USE DEF Inv
  <1>1. objs \in [Pks -> Object] /\ human \in Nat /\ human <= MaxHuman /\ MaxHuman \in Nat
    BY BoundsAssumption DEF Typed, TypeOK
  <1>2. UNCHANGED <<pc, read, outposts, providers, todo, files, runs, faults>> /\ People
    BY DEF HumanStep, HumanRenames, HumanCreates, HumanRefers, HumanDeletes
  <1>3. SUFFICES /\ objs' \in [Pks -> Object]
                 /\ \A p \in Pks : objs'[p].live /\ KindOf[p] # "binding" => objs'[p].name \in Names
    <2>1. human' \in 0..MaxHuman /\ quiet' \in BOOLEAN
      <3>1. human > 0 /\ human' = human - 1 /\ quiet' = FALSE
        BY <1>2 DEF People
      <3>2. human' \in 0..MaxHuman
        BY <1>1, <3>1
      <3>3. QED BY <3>1, <3>2
    <2>2. TypeOK'
      BY <1>2, <1>3, <2>1 DEF Typed, TypeOK
    <2>3. Typed'
      BY <1>2, <1>3, <2>2 DEF Typed, Live
    <2>4. QED BY <1>2, <2>3, AgreedStays
  <1>4. \A p \in Pks : objs[p].live /\ KindOf[p] # "binding" => objs[p].name \in Names
    BY DEF Typed, Live
  <1>5. ASSUME NEW p \in Pks, NEW o \in Object, objs' = [objs EXCEPT ![p] = o],
               o.live /\ KindOf[p] # "binding" => o.name \in Names
        PROVE  /\ objs' \in [Pks -> Object]
               /\ \A q \in Pks : objs'[q].live /\ KindOf[q] # "binding" => objs'[q].name \in Names
    BY <1>1, <1>4, <1>5
  <1>6. ASSUME NEW p \in Pks, NEW n \in Names, HumanRenames(p, n)
        PROVE  /\ objs' \in [Pks -> Object]
               /\ \A q \in Pks : objs'[q].live /\ KindOf[q] # "binding" => objs'[q].name \in Names
    <2>1. [objs[p] EXCEPT !.name = n] \in Object /\ [objs[p] EXCEPT !.name = n].name \in Names
      BY <1>1 DEF Object
    <2>2. objs' = [objs EXCEPT ![p] = [objs[p] EXCEPT !.name = n]]
      BY <1>6 DEF HumanRenames
    <2>3. QED BY <1>5, <2>1, <2>2
  <1>7. ASSUME NEW p \in Pks, NEW n \in Names, HumanCreates(p, n)
        PROVE  /\ objs' \in [Pks -> Object]
               /\ \A q \in Pks : objs'[q].live /\ KindOf[q] # "binding" => objs'[q].name \in Names
    <2> DEFINE o == [live |-> TRUE, name |-> n, refs |-> {}, mark |-> "plain"]
    <2>1. o \in Object /\ o.name \in Names
      BY DEF Object, Marks
    <2>2. objs' = [objs EXCEPT ![p] = o]
      BY <1>7 DEF HumanCreates
    <2> HIDE DEF o
    <2>3. QED BY <1>5, <2>1, <2>2
  <1>8. ASSUME NEW p \in Pks, NEW refs \in SUBSET Pks, HumanRefers(p, refs)
        PROVE  /\ objs' \in [Pks -> Object]
               /\ \A q \in Pks : objs'[q].live /\ KindOf[q] # "binding" => objs'[q].name \in Names
    <2>1. /\ [objs[p] EXCEPT !.refs = refs] \in Object
          /\ [objs[p] EXCEPT !.refs = refs].name = objs[p].name
          /\ [objs[p] EXCEPT !.refs = refs].live = objs[p].live
      BY <1>1 DEF Object
    <2>2. objs' = [objs EXCEPT ![p] = [objs[p] EXCEPT !.refs = refs]]
      BY <1>8 DEF HumanRefers
    <2>3. QED BY <1>4, <1>5, <2>1, <2>2
  <1>9. ASSUME NEW p \in Pks, HumanDeletes(p)
        PROVE  /\ objs' \in [Pks -> Object]
               /\ \A q \in Pks : objs'[q].live /\ KindOf[q] # "binding" => objs'[q].name \in Names
    <2>2. ASSUME NEW q \in Pks
          PROVE  /\ objs'[q] \in Object /\ objs'[q].name = objs[q].name
                 /\ objs'[q].live => objs[q].live
      <3>1. objs[q] \in Object /\ objs[q].live \in BOOLEAN /\ objs[q].mark \in Marks
        BY <1>1 DEF Object
      <3>2. PICK live \in BOOLEAN :
               live = (objs[q].live /\ q # p /\ ~(KindOf[q] = "binding" /\ p \in objs[q].refs))
        OBVIOUS
      <3>3. PICK mark \in Marks :
               mark = IF KindOf[q] = "application" /\ KindOf[p] = "flow" /\ p \in objs[q].refs
                      THEN "bare" ELSE objs[q].mark
        BY <3>1 DEF Marks
      <3>4. PICK refs \in SUBSET Pks : refs = objs[q].refs \ {p}
        BY <1>1 DEF Object
      <3>5. objs'[q] = [objs[q] EXCEPT !.live = live, !.refs = refs, !.mark = mark]
        BY <1>9, <3>1, <3>2, <3>3, <3>4 DEF HumanDeletes
      <3>o. PICK o \in Object : o = objs[q]
        BY <3>1
      <3>n. objs'[q] = [o EXCEPT !.live = live, !.refs = refs, !.mark = mark]
        BY <3>5, <3>o
      <3>d. DOMAIN o = {"live", "name", "refs", "mark"}
        BY DEF Object
      <3>6. objs'[q] \in Object /\ objs'[q].live = live /\ objs'[q].name = o.name
        <4>1. ASSUME NEW N, NEW R, NEW M,
                     NEW x \in [live : BOOLEAN, name : N, refs : R, mark : M],
                     NEW r \in R, NEW m \in M
              PROVE  [x EXCEPT !.live = live, !.refs = r, !.mark = m]
                         \in [live : BOOLEAN, name : N, refs : R, mark : M]
          OBVIOUS
        <4>2. [o EXCEPT !.live = live, !.refs = refs, !.mark = mark] \in Object
          BY <4>1 DEF Object
        <4>3. [o EXCEPT !.live = live, !.refs = refs, !.mark = mark].live = live
          BY <3>d
        <4>4. [o EXCEPT !.live = live, !.refs = refs, !.mark = mark].name = o.name
          BY <3>d
        <4>5. QED BY <3>n, <4>2, <4>3, <4>4
      <3>7. QED BY <3>2, <3>6, <3>o
    <2>3. objs' = [q \in Pks |-> objs'[q]]
      BY <1>9 DEF HumanDeletes
    <2>4. QED BY <1>4, <2>2, <2>3
  <1>10. QED BY <1>6, <1>7, <1>8, <1>9 DEF HumanStep, Live

LEMMA BeginKeeps ==
  ASSUME Inv, Begin
  PROVE  Inv'
  <1> USE DEF Inv
  <1>1. /\ DOMAIN read' = Known
        /\ \A k \in Known : read'[k] \in [DOMAIN read'[k] -> Names] /\ DOMAIN read'[k] = {}
    BY KnownIs DEF Begin
  <1>2. /\ runs' = runs + 1 /\ runs \in Nat /\ runs' \in 0..MaxRuns /\ files' = files
        /\ objs' = objs /\ todo' = {} /\ outposts' = {} /\ providers' = {} /\ pc' = "group"
    BY BoundsAssumption DEF Begin, Typed, TypeOK
  <1>3. TypeOK'
    BY <1>1, <1>2 DEF Begin, Typed, TypeOK, Kinds
  <1>4. \A k \in DOMAIN files : files[k].run \in 0..runs
    BY DEF Typed
  <1>5. Typed'
    <2>1. \A k \in DOMAIN files' : files'[k].run \in 0..runs'
      BY <1>2, <1>4
    <2>2. QED BY <1>1, <1>2, <1>3, <2>1 DEF Typed, Live
  <1>6. Latest' = {}
    BY <1>2, <1>4 DEF Latest
  <1>7. \A kind \in {"group", "flow"} : DOMAIN read'[kind] = {}
    BY <1>1 DEF Known
  <1>8. QED BY <1>5, <1>6, <1>7 DEF Agreed

LEMMA FailsKeeps ==
  ASSUME Inv, CallFails
  PROVE  Inv'
  <1>1. faults' \in 0..MaxFaults
    BY BoundsAssumption DEF CallFails, Inv, Typed, TypeOK
  <1>2. Typed'
    BY <1>1 DEF CallFails, Inv, Typed, TypeOK, Live
  <1>3. QED BY <1>2, AgreedStays DEF CallFails, Inv

\* A step of the run keeps the invariant if what it writes is made of what it knows.
LEMMA GoesKeeps ==
  ASSUME Inv, NEW next \in Kinds \cup {"idle", "names", "provider", "retrieve", "written"},
         NEW new, NEW known, Goes(next, new), read' = known,
         Names_of(known), Made(new, known), Lists(new, known),
         \A o \in outposts' : o.name \in Names,
         \A x \in providers' : x.slug \in Names,
         \A x \in todo' : x.slug \in Names,
         next \in {"retrieve", "binding"} => todo' # {}
  PROVE  Inv'
  <1>1. /\ \A k \in DOMAIN files' :
               /\ k \in Kinds \X Seq(Slugs)
               /\ files'[k].refs \subseteq Known \X Names /\ files'[k].to \in Slugs \cup {None}
               /\ files'[k].run \in 0..runs
        /\ Agreed'
    BY GoesOn
  <1>2. pc' = next /\ UNCHANGED <<objs, runs, quiet, faults, human>>
    BY DEF Goes
  <1>3. /\ DOMAIN read' = Known
        /\ \A k \in Known : read'[k] \in [DOMAIN read'[k] -> Names] /\ DOMAIN read'[k] \subseteq Pks
    BY DEF Names_of
  <1>4. TypeOK'
    BY <1>1, <1>2, <1>3 DEF Inv, Typed, TypeOK
  <1>5. Typed'
    BY <1>1, <1>2, <1>3, <1>4 DEF Inv, Typed, Live
  <1>6. QED BY <1>1, <1>5 DEF Inv

LEMMA ReadIsNames == Inv => Names_of(read) /\ \A new : Lists(new, read)
  BY DEF Inv, Typed, TypeOK, Names_of, Lists

\* What a list answers.
LEMMA PagesAre ==
  ASSUME NEW kind, NEW S \in Pages(kind)
  PROVE  S \subseteq Live /\ S \subseteq Pks /\ \A p \in S : KindOf[p] = kind
  BY DEF Pages, PageOf, Of, Live

\* What the run knew and what a list names.
LEMMA NamesRead ==
  ASSUME Inv, NEW kind \in Known, NEW S \in Pages(kind), NEW known,
         known = [read EXCEPT ![kind] = NamesOf(S)]
  PROVE  /\ Names_of(known) /\ known[kind] = NamesOf(S) /\ DOMAIN NamesOf(S) = S
         /\ \A p \in S : NamesOf(S)[p] = objs[p].name
         /\ \A other \in Known \ {kind} : known[other] = read[other]
  <1>1. DOMAIN read = Known /\ Names_of(read)
    BY ReadIsNames DEF Inv, Typed
  <1>2. /\ DOMAIN NamesOf(S) = S /\ S \subseteq Pks
        /\ \A p \in S : NamesOf(S)[p] = objs[p].name
    BY PagesAre DEF NamesOf
  <1>3. \A p \in S : objs[p].name \in Names
    BY PagesAre DEF Inv, Typed, Known
  <1>4. NamesOf(S) \in [S -> Names]
    BY <1>3 DEF NamesOf
  <1>5. /\ DOMAIN known = Known /\ known[kind] = NamesOf(S)
        /\ \A other \in Known \ {kind} : known[other] = read[other]
    BY <1>1
  <1>6. Names_of(known)
    BY <1>1, <1>2, <1>4, <1>5 DEF Names_of
  <1>7. QED BY <1>2, <1>5, <1>6

LEMMA GroupsKeep ==
  ASSUME Inv, ListGroups
  PROVE  Inv'
  <1>1. PICK S \in Pages("group") :
           read' = [read EXCEPT !.group = NamesOf(S)] /\ Goes("user", Written(S, read'))
    BY DEF ListGroups
  <1>2. PICK known : known = [read EXCEPT !.group = NamesOf(S)] /\ read' = known
                     /\ Goes("user", Written(S, known))
    BY <1>1
  <1>3. Names_of(known) /\ Made(Written(S, known), known)
    BY <1>2, NamesRead, PagesAre, WrittenMakes DEF Known, Inv
  <1>4. \A p \in S : <<KindOf[p], CrName(<<objs[p].name>>)>> \in DOMAIN Written(S, known)
    BY <1>3, PagesAre, WrittenMakes DEF Inv
  <1>5. /\ known["group"] = NamesOf(S) /\ DOMAIN NamesOf(S) = S
        /\ \A p \in S : NamesOf(S)[p] = objs[p].name
        /\ \A other \in Known \ {"group"} : known[other] = read[other]
    BY <1>2, NamesRead DEF Known
  <1>6. Lists(Written(S, known), known)
    <2>1. \A p \in DOMAIN known["group"] : KindOf[p] = "group" /\ known["group"][p] = objs[p].name
      BY <1>5, PagesAre
    <2>2. \A p \in DOMAIN known["group"] :
             <<"group", CrName(<<known["group"][p]>>)>> \in DOMAIN Written(S, known)
      BY <1>4, <1>5, <2>1
    <2>3. known["flow"] = read["flow"]
      BY <1>5 DEF Known
    <2>4. QED BY <2>2, <2>3 DEF Lists
  <1>7. QED BY <1>2, <1>3, <1>6, GoesKeeps DEF ListGroups, Inv, Typed, Kinds

LEMMA FlowsKeep ==
  ASSUME Inv, ListFlows
  PROVE  Inv'
  <1>1. PICK S \in Pages("flow") :
           read' = [read EXCEPT !.flow = NamesOf(S)] /\ Goes("mapping", Written(S, read'))
    BY DEF ListFlows
  <1>2. PICK known : known = [read EXCEPT !.flow = NamesOf(S)] /\ read' = known
                     /\ Goes("mapping", Written(S, known))
    BY <1>1
  <1>3. Names_of(known) /\ Made(Written(S, known), known)
    BY <1>2, NamesRead, PagesAre, WrittenMakes DEF Known, Inv
  <1>4. \A p \in S : <<KindOf[p], CrName(<<objs[p].name>>)>> \in DOMAIN Written(S, known)
    BY <1>3, PagesAre, WrittenMakes DEF Inv
  <1>5. /\ known["flow"] = NamesOf(S) /\ DOMAIN NamesOf(S) = S
        /\ \A p \in S : NamesOf(S)[p] = objs[p].name
        /\ \A other \in Known \ {"flow"} : known[other] = read[other]
    BY <1>2, NamesRead DEF Known
  <1>6. Lists(Written(S, known), known)
    <2>1. \A p \in DOMAIN known["flow"] : KindOf[p] = "flow" /\ known["flow"][p] = objs[p].name
      BY <1>5, PagesAre
    <2>2. \A p \in DOMAIN known["flow"] :
             <<"flow", CrName(<<known["flow"][p]>>)>> \in DOMAIN Written(S, known)
      BY <1>4, <1>5, <2>1
    <2>3. known["group"] = read["group"]
      BY <1>5 DEF Known
    <2>4. QED BY <2>2, <2>3 DEF Lists
  <1>7. QED BY <1>2, <1>3, <1>6, GoesKeeps DEF ListFlows, Inv, Typed, Kinds

\* The lists whose names are not read.
LEMMA ListsKeep ==
  ASSUME Inv, NEW next \in {"flow", "brand", "outpost", "names"},
         NEW kind \in Kinds \ {"binding"}, NEW S \in Pages(kind), NEW T, T \subseteq S,
         Goes(next, Written(T, read)), UNCHANGED <<read, providers, todo>>,
         \A o \in outposts' : o.name \in Names
  PROVE  Inv'
  <1>1. Names_of(read) /\ Lists(Written(T, read), read)
    BY ReadIsNames
  <1>2. Made(Written(T, read), read)
    BY <1>1, PagesAre, WrittenMakes DEF Inv
  <1>3. next \in Kinds \cup {"idle", "names", "provider", "retrieve", "written"}
    BY DEF Kinds
  <1>4. next \notin {"retrieve", "binding"}
    OBVIOUS
  <1>5. (\A x \in providers' : x.slug \in Names) /\ (\A x \in todo' : x.slug \in Names)
    BY DEF Inv, Typed
  <1>6. PICK known : known = read
    OBVIOUS
  <1>7. QED BY <1>1, <1>2, <1>3, <1>4, <1>5, <1>6, GoesKeeps

LEMMA UsersKeep ==
  ASSUME Inv, ListUsers
  PROVE  Inv'
  <1>1. PICK S \in Pages("user") : Goes("flow", Written(S, read))
    BY DEF ListUsers
  <1>2. "user" \in Kinds \ {"binding"} /\ \A o \in outposts' : o.name \in Names
    BY DEF ListUsers, Inv, Typed, Kinds
  <1>3. QED BY <1>1, <1>2, ListsKeep DEF ListUsers

LEMMA MappingsKeep ==
  ASSUME Inv, ListMappings
  PROVE  Inv'
  <1>1. PICK S \in Pages("mapping") :
           Goes("brand", Written({p \in S : objs[p].mark # "managed"}, read))
    BY DEF ListMappings
  <1>2. "mapping" \in Kinds \ {"binding"} /\ \A o \in outposts' : o.name \in Names
    BY DEF ListMappings, Inv, Typed, Kinds
  <1>3. QED BY <1>1, <1>2, ListsKeep DEF ListMappings

LEMMA BrandsKeep ==
  ASSUME Inv, ListBrands
  PROVE  Inv'
  <1>1. PICK S \in Pages("brand") : Goes("outpost", Written(S, read))
    BY DEF ListBrands
  <1>2. "brand" \in Kinds \ {"binding"} /\ \A o \in outposts' : o.name \in Names
    BY DEF ListBrands, Inv, Typed, Kinds
  <1>3. QED BY <1>1, <1>2, ListsKeep DEF ListBrands

LEMMA OutpostsKeep ==
  ASSUME Inv, ListOutposts
  PROVE  Inv'
  <1>0. \E S \in Pages("outpost") :
           /\ outposts' = {[name |-> objs[p].name, refs |-> objs[p].refs] : p \in S}
           /\ Goes("names", Written({p \in S : objs[p].name # Embedded /\ objs[p].mark # "rac"},
                                    read))
    BY DEF ListOutposts
  <1>1. PICK S \in Pages("outpost") :
           /\ outposts' = {[name |-> objs[p].name, refs |-> objs[p].refs] : p \in S}
           /\ Goes("names", Written({p \in S : objs[p].name # Embedded /\ objs[p].mark # "rac"},
                                    read))
    BY <1>0
  <1>2. \A p \in S : objs[p].name \in Names
    BY PagesAre DEF Inv, Typed
  <1>3. "outpost" \in Kinds \ {"binding"} /\ \A o \in outposts' : o.name \in Names
    BY <1>1, <1>2 DEF Kinds
  <1>4. QED BY <1>1, <1>3, ListsKeep DEF ListOutposts

\* The lists that write nothing.
LEMMA NothingMade ==
  ASSUME NEW known
  PROVE  Made(<<>>, known)
  BY KnownIs DEF Made

LEMMA MappingNamesKeep ==
  ASSUME Inv, ReadMappingNames
  PROVE  Inv'
  <1>1. PICK S \in Pages("mapping") : read' = [read EXCEPT !.mapping = NamesOf(S)]
    BY DEF ReadMappingNames
  <1>2. PICK known : known = [read EXCEPT !.mapping = NamesOf(S)] /\ read' = known
    BY <1>1
  <1>3. /\ Names_of(known)
        /\ \A other \in Known \ {"mapping"} : known[other] = read[other]
    BY <1>2, NamesRead DEF Known
  <1>4. Lists(<<>>, known)
    BY <1>3 DEF Lists, Known
  <1>5. Goes("provider", <<>>)
    BY DEF ReadMappingNames
  <1>6. QED BY <1>2, <1>3, <1>4, <1>5, NothingMade, GoesKeeps
            DEF ReadMappingNames, Inv, Typed, Kinds

LEMMA ProvidersKeep ==
  ASSUME Inv, ListProviders
  PROVE  Inv'
  <1>1. PICK S \in Pages("application") :
           providers' = {[slug |-> objs[p].name, pk |-> p, mark |-> objs[p].mark] :
                             p \in {q \in S : objs[q].mark # "bare"}}
    BY DEF ListProviders
  <1>2. \A p \in S : objs[p].name \in Names
    BY PagesAre DEF Inv, Typed
  <1>3. \A x \in providers' : x.slug \in Names
    BY <1>1, <1>2
  <1>4. PICK known : known = read
    OBVIOUS
  <1>5. Goes("application", <<>>) /\ read' = read /\ outposts' = outposts /\ todo' = todo
    BY DEF ListProviders
  <1>6. QED BY <1>3, <1>4, <1>5, ReadIsNames, NothingMade, GoesKeeps DEF Inv, Typed, Kinds

LEMMA ApplicationsKeep ==
  ASSUME Inv, ListApplications
  PROVE  Inv'
  <1>1. PICK S \in Pages("application") :
           LET asked(x) == x.slug \in Wanted /\ x.mark \in {"oauth2", "proxy"}
           IN todo' = {[slug |-> t[2].slug, pk |-> t[1], provider |-> t[2].pk,
                        mark |-> t[2].mark] :
                           t \in {t \in S \X providers :
                                      t[2].slug = objs[t[1]].name /\ asked(t[2])}}
    BY DEF ListApplications
  <1>2. \A x \in todo' : x.slug \in Wanted
    BY <1>1
  <1>3. \A x \in todo' : x.slug \in Names
    BY <1>2, ObjectsAssumption
  <1>4. PICK known : known = read
    OBVIOUS
  <1>5. PICK next : next = IF todo' = {} THEN "written" ELSE "retrieve"
    OBVIOUS
  <1>6. Goes(next, <<>>) /\ read' = read /\ outposts' = outposts /\ providers' = providers
    BY <1>5 DEF ListApplications
  <1>7. next \in {"written", "retrieve"} /\ (next = "retrieve" => todo' # {})
    BY <1>5
  <1>8. QED BY <1>3, <1>4, <1>6, <1>7, ReadIsNames, NothingMade, GoesKeeps DEF Inv, Typed

\* What is resolved is known.
LEMMA ResolvedIsKnown ==
  ASSUME NEW T, NEW known, NEW kind \in Known, NEW ref \in Resolved(T, known, kind)
  PROVE  \E other \in Known : \E p \in DOMAIN known[other] : ref = <<other, known[other][p]>>
  BY DEF Resolved

LEMMA RetrieveKeeps ==
  ASSUME Inv, RetrieveProvider
  PROVE  Inv'
  <1> DEFINE here == <<"application", CrName(<<First.slug>>)>>
             new == [k \in {here} |-> AppCr(First)]
  <1>1. First \in todo /\ First.slug \in Names /\ todo # {}
    BY DEF RetrieveProvider, First, Inv, Typed
  <1>2. here \in Kinds \X Seq(Slugs)
    BY <1>1, CrNameIs DEF Kinds
  <1>3. OutpostRef(First.provider) \in Slugs \cup {None}
    <2> DEFINE on == {o \in outposts : First.provider \in o.refs}
               name == (CHOOSE o \in on : TRUE).name
    <2>1. OutpostRef(First.provider) = IF on = {} \/ name = Embedded THEN None ELSE SlugOf[name]
      BY DEF OutpostRef
    <2>2. on # {} => (CHOOSE o \in on : TRUE) \in on
      OBVIOUS
    <2>3. on # {} => name \in Names
      BY <2>2 DEF Inv, Typed
    <2>4. on # {} => SlugOf[name] \in Slugs
      BY <2>3 DEF Slugs
    <2>5. QED BY <2>1, <2>4
  <1>4. /\ AppCr(First).to \in Slugs \cup {None} /\ AppCr(First).run = runs
        /\ AppCr(First).refs = Resolved(objs[First.provider].refs, read, "flow")
              \cup (IF First.mark = "oauth2"
                    THEN Resolved(objs[First.provider].refs, read, "mapping") ELSE {})
    BY <1>3 DEF AppCr, Cr
  <1>5. \A ref \in AppCr(First).refs :
           \E kind \in Known : \E p \in DOMAIN read[kind] : ref = <<kind, read[kind][p]>>
    <2>1. TAKE ref \in AppCr(First).refs
    <2>2. \/ ref \in Resolved(objs[First.provider].refs, read, "flow")
          \/ ref \in Resolved(objs[First.provider].refs, read, "mapping")
      BY <1>4
    <2>3. "flow" \in Known /\ "mapping" \in Known
      BY DEF Known
    <2>4. QED BY <2>2, <2>3, ResolvedIsKnown
  <1>6. DOMAIN new = {here} /\ new[here] = AppCr(First)
    OBVIOUS
  <1>7. here[1] = "application"
    OBVIOUS
  <1>8. Goes("binding", new) /\ UNCHANGED <<read, outposts, providers, todo>>
    BY DEF RetrieveProvider
  <1> HIDE DEF here, new
  <1>9. Made(new, read)
    BY <1>2, <1>4, <1>5, <1>6, <1>7 DEF Made
  <1>10. PICK known : known = read
    OBVIOUS
  <1>11. "binding" \in Kinds
    BY DEF Kinds
  <1>12. QED BY <1>1, <1>8, <1>9, <1>10, <1>11, ReadIsNames, GoesKeeps DEF Inv, Typed

LEMMA BindingsKeep ==
  ASSUME Inv, ListBindings
  PROVE  Inv'
  <1> DEFINE group(b) == CHOOSE g \in objs[b].refs \cap DOMAIN read.group : TRUE
             key(b) == <<"binding", CrName(<<First.slug, read.group[group(b)]>>)>>
             bound(S) == {b \in S : objs[b].refs \cap DOMAIN read.group # {}}
             cr(b) == Cr(b, None, Resolved(objs[b].refs, read, "group"), SlugOf[First.slug])
             new(S) == [k \in {key(b) : b \in bound(S)} |->
                           LET b == CHOOSE b \in bound(S) : key(b) = k IN cr(b)]
  <1>1. First \in todo /\ First.slug \in Names /\ SlugOf[First.slug] \in Slugs
    <2>1. todo # {}
      BY DEF ListBindings, Inv, Typed
    <2>2. First \in todo
      BY <2>1 DEF First
    <2>3. QED BY <2>2 DEF Inv, Typed, Slugs
  <1>2. PICK next : next = IF todo' = {} THEN "written" ELSE "retrieve"
    OBVIOUS
  <1>3. next \in {"written", "retrieve"} /\ (next = "retrieve" => todo' # {})
    BY <1>2
  <1>4. PICK S \in PageOf(BindingsOf(First.pk), BindingsPage) : Goes(next, new(S))
    BY <1>2 DEF ListBindings
  <1>5. ASSUME NEW b \in bound(S)
        PROVE  /\ key(b) \in Kinds \X Seq(Slugs) /\ key(b)[1] = "binding"
               /\ cr(b).to \in Slugs \cup {None} /\ cr(b).run = runs
               /\ \A ref \in cr(b).refs :
                     \E kind \in Known : \E p \in DOMAIN read[kind] : ref = <<kind, read[kind][p]>>
    <2>1. group(b) \in DOMAIN read["group"]
      OBVIOUS
    <2>2. read["group"][group(b)] \in Names
      BY <2>1, ReadIsNames DEF Names_of, Known
    <2>3. CrName(<<First.slug, read["group"][group(b)]>>) \in Seq(Slugs)
      BY <1>1, <2>2, CrNameIs
    <2>4. key(b) \in Kinds \X Seq(Slugs) /\ key(b)[1] = "binding"
      BY <2>3 DEF Kinds
    <2>5. /\ cr(b).to = SlugOf[First.slug] /\ cr(b).run = runs
          /\ cr(b).refs = Resolved(objs[b].refs, read, "group")
      BY DEF Cr
    <2>6. "group" \in Known
      BY DEF Known
    <2>7. QED BY <1>1, <2>4, <2>5, <2>6, ResolvedIsKnown
  <1>6. PICK made : made = new(S)
    OBVIOUS
  <1>7. /\ DOMAIN made = {key(b) : b \in bound(S)}
        /\ \A k \in DOMAIN made : \E b \in bound(S) : key(b) = k /\ made[k] = cr(b)
    <2>1. DOMAIN made = {key(b) : b \in bound(S)}
      BY <1>6
    <2>2. ASSUME NEW k \in DOMAIN made
          PROVE  \E b \in bound(S) : key(b) = k /\ made[k] = cr(b)
      <3> DEFINE c == CHOOSE b \in bound(S) : key(b) = k
      <3>1. \E b \in bound(S) : key(b) = k
        BY <2>1
      <3>2. c \in bound(S) /\ key(c) = k
        BY <3>1
      <3>3. made[k] = cr(c)
        BY <1>6, <2>1
      <3>4. QED BY <3>2, <3>3
    <2>3. QED BY <2>1, <2>2
  <1>8. Made(made, read)
    <2> SUFFICES ASSUME NEW k \in DOMAIN made
        PROVE  /\ k \in Kinds \X Seq(Slugs) /\ k[1] = "binding"
               /\ made[k].to \in Slugs \cup {None} /\ made[k].run = runs
               /\ \A ref \in made[k].refs :
                     \E kind \in Known : \E p \in DOMAIN read[kind] : ref = <<kind, read[kind][p]>>
      BY DEF Made
    <2>1. PICK b \in bound(S) : key(b) = k /\ made[k] = cr(b)
      BY <1>7
    <2> HIDE DEF key, cr, bound, group
    <2>2. QED BY <1>5, <2>1
  <1>9. \A x \in todo' : x.slug \in Names
    BY DEF ListBindings, Inv, Typed
  <1>10. UNCHANGED <<read, outposts, providers>> /\ Goes(next, made)
    BY <1>4, <1>6 DEF ListBindings
  <1>11. PICK known : known = read
    OBVIOUS
  <1> HIDE DEF group, key, bound, cr, new
  <1>12. QED BY <1>3, <1>8, <1>9, <1>10, <1>11, ReadIsNames, GoesKeeps DEF Inv, Typed
-----------------------------------------------------------------------------
(* The theorems.                                                           *)

LEMMA NextInv == Inv /\ [Next]_vars => Inv'
  <1> SUFFICES ASSUME Inv, [Next]_vars PROVE Inv'
    OBVIOUS
  <1>1. CASE HumanStep
    BY <1>1, PeopleKeep
  <1>2. CASE Begin
    BY <1>2, BeginKeeps
  <1>3. CASE RunStep
    BY <1>3, GroupsKeep, UsersKeep, FlowsKeep, MappingsKeep, BrandsKeep, OutpostsKeep,
       MappingNamesKeep, ProvidersKeep, ApplicationsKeep, RetrieveKeeps, BindingsKeep
       DEF RunStep
  <1>4. CASE CallFails
    BY <1>4, FailsKeeps
  <1>5. CASE UNCHANGED vars
    <2>1. UNCHANGED <<objs, pc, read, outposts, providers, todo, files, runs, quiet, faults, human>>
      BY <1>5 DEF vars
    <2>2. Typed'
      BY <2>1 DEF Inv, Typed, TypeOK, Live
    <2>3. QED BY <2>1, <2>2, AgreedStays DEF Inv
  <1>6. QED BY <1>1, <1>2, <1>3, <1>4, <1>5 DEF Next

LEMMA AlwaysInv == Spec => []Inv
  BY InitInv, NextInv, PTL DEF Spec

\* Every state of the importer is well typed, whatever Authentik answers and holds and
\* wherever a run ends: a file is named as Kubernetes takes it, and it refers to names.
THEOREM TypeCorrect == Spec => []TypeOK
  <1>1. Inv => TypeOK
    BY DEF Inv, Typed
  <1>2. QED BY <1>1, AlwaysInv, PTL

\* A group or a flow that a CR refers to has a CR of the same run, of that very name
\* unless another name shares its place: what was read under a name is filed under it at
\* once, and a reference is resolved with what was read, never with what Authentik says
\* later, so that a run that people interfere with, or that ends half-way, leaves CRs that
\* agree with each other.
THEOREM CrsAgree == Spec => []FilesAgree
  <1>1. ASSUME Inv PROVE FilesAgree
    <2>1. SUFFICES ASSUME NEW k \in Latest, NEW ref \in files[k].refs,
                          ref[1] \in {"group", "flow"}
                   PROVE  LET there == <<ref[1], CrName(<<ref[2]>>)>>
                          IN /\ there \in Latest
                             /\ \/ files[there].name = ref[2]
                                \/ \E n \in Names \ {ref[2]} : SlugOf[n] = SlugOf[ref[2]]
      BY DEF FilesAgree
    <2> DEFINE there == <<ref[1], CrName(<<ref[2]>>)>>
               n == files[there].name
    <2>2. ref[2] \in Names /\ there \in Latest
      BY <1>1, <2>1 DEF Inv, Agreed, Filed
    <2>3. there[1] \in {"group", "flow"} /\ there[2] = CrName(<<ref[2]>>)
      BY <2>1
    <2> HIDE DEF there
    <2>4. n \in Names /\ CrName(<<n>>) = CrName(<<ref[2]>>)
      BY <1>1, <2>2, <2>3 DEF Inv, Agreed
    <2>5. SlugOf[n] = SlugOf[ref[2]]
      BY <2>2, <2>4, CrNameIs
    <2>6. QED BY <2>2, <2>4, <2>5 DEF there
  <1>2. QED BY <1>1, AlwaysInv, PTL
-----------------------------------------------------------------------------
(* A run that nobody interferes with, and whose lists fit in their pages.  *)

\* The references that a CR of p has by name, and the CR that stands for p.
Linked(p) == {q \in Meant(p) : KindOf[q] # "application"}
Refers(p) == {<<KindOf[q], objs[q].name>> : q \in Linked(p)}
Stands(cr, p) ==
    /\ cr.id = IdOf(p) /\ cr.name = objs[p].name /\ cr.refs = Refers(p)
    /\ KindOf[p] = "binding" =>
          \A a \in objs[p].refs : KindOf[a] = "application" => cr.to = SlugOf[objs[a].name]
    /\ KindOf[p] = "application" /\ objs[p].mark = "proxy" =>
          \A o \in Of("outpost") : {q \in Of("outpost") : p \in objs[q].refs} = {o} =>
             cr.to = IF objs[o].name = Embedded THEN None ELSE SlugOf[objs[o].name]

\* The run knows what there is of each kind it has listed.
Late == {"retrieve", "binding", "written"}
Item(p) == [slug |-> objs[p].name, pk |-> p, provider |-> p, mark |-> objs[p].mark]
Before(kind) ==
    CASE kind = "group" -> {"group"}
      [] kind = "user" -> {"group", "user"}
      [] kind = "flow" -> {"group", "user", "flow"}
      [] kind = "mapping" -> {"group", "user", "flow", "mapping"}
      [] kind = "brand" -> {"group", "user", "flow", "mapping", "brand"}
      [] OTHER -> {"group", "user", "flow", "mapping", "brand", "outpost"}
Knows ==
    /\ pc \notin Before("group") => read["group"] = NamesOf(Of("group"))
    /\ pc \notin Before("flow") => read["flow"] = NamesOf(Of("flow"))
    /\ pc \notin Before("outpost") =>
          outposts = {[name |-> objs[p].name, refs |-> objs[p].refs] : p \in Of("outpost")}
    /\ pc \notin Before("outpost") \cup {"names"} => read["mapping"] = NamesOf(Of("mapping"))
    /\ pc = "application" =>
          providers = {[slug |-> objs[p].name, pk |-> p, mark |-> objs[p].mark] :
                           p \in {q \in Of("application") : objs[q].mark # "bare"}}
    /\ pc \in Late => \A x \in todo : \E p \in Of("application") : x = Item(p) /\ Importable(p)
    /\ pc = "written" => todo = {}

\* Each of its CRs stands for an object, an access policy's beside its application's.
FilesRight == \A k \in Latest : \E p \in Of(k[1]) : k = PlaceOf(p) /\ Stands(files[k], p)
BesideTheirs ==
    \A k \in Latest : k[1] = "binding" => <<"application", <<files[k].to>>>> \in Latest

\* What it has dealt with has a CR.
Listed(p) ==
    CASE KindOf[p] = "application" ->
            pc \in Late /\ ((\A x \in todo : x.pk # p) \/ (pc = "binding" /\ First.pk = p))
      [] KindOf[p] = "binding" -> pc \in Late /\ \A x \in todo : x.pk \notin objs[p].refs
      [] OTHER -> pc \notin Before(KindOf[p])
Covered == \A p \in Live : HasCr(p) /\ Listed(p) => PlaceOf(p) \in Latest

Undisturbed == quiet /\ ListsFit /\ pc # "idle"
Filing == FilesRight /\ BesideTheirs /\ Covered
Exact == Undisturbed => Knows /\ Filing
Faithful == Inv /\ Coherent(objs) /\ Exact

LEMMA PageIsAll ==
  ASSUME NEW K, NEW all \in SUBSET Of(K), NEW max \in Nat, Cardinality(all) <= max,
         NEW S \in PageOf(all, max)
  PROVE  S = all
  <1>1. Cardinality(all) \in Nat
    <2>1. IsFiniteSet(all)
      BY FS_Subset, ObjectsAssumption DEF Of, Live
    <2>2. QED BY <2>1, FS_CardinalityType
  <1>2. ~(max < Cardinality(all))
    BY <1>1
  <1>3. QED BY <1>2 DEF PageOf

LEMMA ListIsAll ==
  ASSUME ListsFit, NEW kind \in Kinds \ {"binding"}, NEW S \in Pages(kind)
  PROVE  S = Of(kind)
  BY PageIsAll, BoundsAssumption DEF ListsFit, Pages

\* What CRs refer to stays as long as the objects do.
LEMMA RefersStay ==
  ASSUME objs' = objs
  PROVE  Of("outpost")' = Of("outpost") /\ \A p : Refers(p)' = Refers(p)
  <1>1. ASSUME NEW p PROVE Refers(p)' = Refers(p)
    <2>1. Meant(p)' = Meant(p)
      BY Zenon DEF Meant, Parent, Of, Live
    <2>2. Linked(p)' = Linked(p)
      BY <2>1 DEF Linked
    <2>3. QED BY <2>2 DEF Refers
  <1>2. QED BY <1>1, Zenon DEF Of, Live

\* So does the rest of what is said of the objects.
LEMMA Unmoved ==
  ASSUME objs' = objs
  PROVE  /\ Live' = Live /\ (ListsFit' <=> ListsFit)
         /\ \A kind : Of(kind)' = Of(kind) /\ NamesOf(Of(kind))' = NamesOf(Of(kind))
         /\ \A p : /\ PlaceOf(p)' = PlaceOf(p) /\ Item(p)' = Item(p)
                   /\ (HasCr(p)' <=> HasCr(p)) /\ (Importable(p)' <=> Importable(p))
         /\ \A cr, p : Stands(cr, p)' <=> Stands(cr, p)
  <1>1. Live' = Live /\ (ListsFit' <=> ListsFit) /\ \A kind : Of(kind)' = Of(kind)
    BY Zenon DEF ListsFit, BindingsOf, Of, Live
  <1>2. \A kind : NamesOf(Of(kind))' = NamesOf(Of(kind))
    BY <1>1 DEF NamesOf
  <1>3. ASSUME NEW p PROVE PlaceOf(p)' = PlaceOf(p) /\ Item(p)' = Item(p)
    BY DEF PlaceOf, CrName, Item
  <1>4. ASSUME NEW p PROVE (HasCr(p)' <=> HasCr(p)) /\ (Importable(p)' <=> Importable(p))
    BY Zenon DEF HasCr, Importable, Alone, Of, Live
  <1>6. \A p : Refers(p)' = Refers(p)
    BY RefersStay
  <1>7. ASSUME NEW cr, NEW p PROVE Stands(cr, p)' <=> Stands(cr, p)
    BY <1>1, <1>6, Zenon DEF Stands, IdOf
  <1>8. QED BY <1>1, <1>2, <1>3, <1>4, <1>7
-----------------------------------------------------------------------------
(* What Authentik's constraints say of the objects and their CRs.          *)

LEMMA CoherentIs ==
  ASSUME Typed, Coherent(objs), NEW p \in Live
  PROVE  /\ p \in Pks /\ KindOf[p] \in Kinds /\ objs[p].refs \subseteq Live
         /\ \A q \in objs[p].refs : KindOf[q] \in Targets[KindOf[p]] /\ KindOf[q] # "binding"
         /\ KindOf[p] # "binding" =>
               \A q \in Live : KindOf[q] = KindOf[p] /\ objs[q].name = objs[p].name => q = p
         /\ KindOf[p] = "binding" =>
               /\ \E a \in objs[p].refs : KindOf[a] = "application"
               /\ \A q, r \in objs[p].refs : KindOf[q] = KindOf[r] => q = r
  <1>1. p \in Pks /\ KindOf[p] \in Kinds /\ objs[p] \in Object /\ objs[p].live
    BY ObjectsAssumption DEF Live, Typed, TypeOK
  <1>2. objs[p].refs \subseteq Pks
    BY <1>1 DEF Object
  <1>3. \A kind \in Kinds : "binding" \notin Targets[kind]
    BY DEF Kinds, Targets
  <1>4. \A q \in objs[p].refs : objs[q].live /\ KindOf[q] \in Targets[KindOf[p]]
    BY <1>1 DEF Coherent
  <1>5. KindOf[p] # "binding" =>
           \A q \in Live : KindOf[q] = KindOf[p] /\ objs[q].name = objs[p].name => q = p
    BY <1>1 DEF Coherent, Live
  <1>6. KindOf[p] = "binding" =>
               /\ \E a \in objs[p].refs : KindOf[a] = "application"
               /\ \A q, r \in objs[p].refs : KindOf[q] = KindOf[r] => q = r
    BY <1>1 DEF Coherent
  <1>7. QED BY <1>1, <1>2, <1>3, <1>4, <1>5, <1>6 DEF Live

\* Only an access policy refers to an application.
LEMMA MeantIs ==
  ASSUME Typed, Coherent(objs), NEW p \in Live
  PROVE  /\ Meant(p) \subseteq objs[p].refs
         /\ KindOf[p] # "binding" => Linked(p) = Meant(p)
  <1>1. objs[p].refs # {} => (CHOOSE q \in objs[p].refs : TRUE) \in objs[p].refs
    OBVIOUS
  <1>2. Parent(p) \subseteq objs[p].refs
    BY <1>1 DEF Parent
  <1>3. Meant(p) \subseteq objs[p].refs
    BY <1>2 DEF Meant
  <1>4. KindOf[p] \in Kinds /\ \A q \in objs[p].refs : KindOf[q] \in Targets[KindOf[p]]
    BY CoherentIs
  <1>5. \A kind \in Kinds \ {"binding", "outpost"} : "application" \notin Targets[kind]
    BY DEF Kinds, Targets
  <1>6. KindOf[p] = "outpost" => Meant(p) = {}
    BY DEF Meant
  <1>7. ASSUME KindOf[p] # "binding", NEW q \in Meant(p) PROVE KindOf[q] # "application"
    BY <1>3, <1>4, <1>5, <1>6, <1>7
  <1>8. QED BY <1>3, <1>7 DEF Linked

\* References are the names of those listed.
LEMMA ResolvedIs ==
  ASSUME NEW T, NEW kind, NEW known, known[kind] = NamesOf(Of(kind))
  PROVE  Resolved(T, known, kind) = {<<KindOf[q], objs[q].name>> : q \in T \cap Of(kind)}
  <1>1. /\ DOMAIN known[kind] = Of(kind)
        /\ \A q \in Of(kind) : known[kind][q] = objs[q].name /\ KindOf[q] = kind
    BY DEF NamesOf, Of
  <1>2. QED BY <1>1 DEF Resolved

\* The kinds whose CRs a list writes.
Plain == Kinds \ {"application", "binding"}
Informed(known, kind) ==
    /\ kind \in {"group", "user"} => known["group"] = NamesOf(Of("group"))
    /\ kind = "brand" => known["flow"] = NamesOf(Of("flow"))

LEMMA RefsAre ==
  ASSUME Typed, Coherent(objs), NEW p \in Live, KindOf[p] \in Plain,
         NEW known, Informed(known, KindOf[p])
  PROVE  RefsOf(p, known) = Refers(p)
  <1>1. /\ KindOf[p] \in Kinds /\ objs[p].refs \subseteq Live
        /\ \A q \in objs[p].refs : KindOf[q] \in Targets[KindOf[p]]
    BY CoherentIs
  <1>2. Meant(p) \subseteq objs[p].refs /\ Linked(p) = Meant(p)
    BY MeantIs DEF Plain
  <1>3. CASE KindOf[p] = "group"
    <2>1. Meant(p) = Parent(p)
      BY <1>3 DEF Meant
    <2>2. Parent(p) \subseteq Of("group")
      BY <1>1, <1>2, <1>3, <2>1 DEF Of, Targets
    <2>3. RefsOf(p, known) = Resolved(Parent(p), known, "group")
      BY <1>3 DEF RefsOf
    <2>4. Parent(p) \cap Of("group") = Linked(p)
      BY <1>2, <2>1, <2>2
    <2>5. known["group"] = NamesOf(Of("group"))
      BY <1>3 DEF Informed
    <2>6. QED BY <2>3, <2>4, <2>5, ResolvedIs DEF Refers
  <1>4. CASE KindOf[p] = "user"
    <2>1. Meant(p) = objs[p].refs
      BY <1>4 DEF Meant
    <2>2. objs[p].refs \subseteq Of("group")
      BY <1>1, <1>4 DEF Of, Targets
    <2>3. RefsOf(p, known) = Resolved(objs[p].refs, known, "group")
      BY <1>4 DEF RefsOf
    <2>4. objs[p].refs \cap Of("group") = Linked(p)
      BY <1>2, <2>1, <2>2
    <2>5. known["group"] = NamesOf(Of("group"))
      BY <1>4 DEF Informed
    <2>6. QED BY <2>3, <2>4, <2>5, ResolvedIs DEF Refers
  <1>5. CASE KindOf[p] = "brand"
    <2>1. Meant(p) = objs[p].refs
      BY <1>5 DEF Meant
    <2>2. objs[p].refs \subseteq Of("flow")
      BY <1>1, <1>5 DEF Of, Targets
    <2>3. RefsOf(p, known) = Resolved(objs[p].refs, known, "flow")
      BY <1>5 DEF RefsOf
    <2>4. objs[p].refs \cap Of("flow") = Linked(p)
      BY <1>2, <2>1, <2>2
    <2>5. known["flow"] = NamesOf(Of("flow"))
      BY <1>5 DEF Informed
    <2>6. QED BY <2>3, <2>4, <2>5, ResolvedIs DEF Refers
  <1>6. CASE KindOf[p] \in {"flow", "mapping", "outpost"}
    <2>1. RefsOf(p, known) = {}
      BY <1>6 DEF RefsOf
    <2>2. Targets["flow"] = {} /\ Targets["mapping"] = {}
      BY DEF Targets
    <2>3. KindOf[p] = "outpost" => Meant(p) = {}
      BY DEF Meant
    <2>4. Meant(p) = {}
      BY <1>1, <1>2, <1>6, <2>2, <2>3
    <2>5. Refers(p) = {}
      BY <1>2, <2>4 DEF Refers
    <2>6. QED BY <2>1, <2>5
  <1>7. QED BY <1>3, <1>4, <1>5, <1>6 DEF Plain, Kinds
-----------------------------------------------------------------------------
(* Authentik's constraints hold whatever people do.                        *)

LEMMA InitCoherent == Init => Coherent(objs)
  BY BeginningsAssumption DEF Init

\* One object's name or references change, or it appears.
LEMMA CoherentNamed ==
  ASSUME Inv, Coherent(objs), NEW p \in Pks, NEW n \in Names, HumanRenames(p, n)
  PROVE  Coherent(objs')
  <1>1. /\ p \in Live /\ KindOf[p] # "binding" /\ n # None
        /\ \A q \in Of(KindOf[p]) : objs[q].name # n
    BY ObjectsAssumption DEF HumanRenames, Free
  <1>2. ASSUME NEW q \in Pks
        PROVE  /\ objs'[q].live = objs[q].live /\ objs'[q].refs = objs[q].refs
               /\ objs'[q].name = IF q = p THEN n ELSE objs[q].name
    <2>1. \A o \in Object : /\ [o EXCEPT !.name = n].live = o.live
                            /\ [o EXCEPT !.name = n].refs = o.refs
                            /\ [o EXCEPT !.name = n].name = n
      BY DEF Object
    <2>2. objs \in [Pks -> Object] /\ objs' = [objs EXCEPT ![p] = [objs[p] EXCEPT !.name = n]]
      BY DEF HumanRenames, Inv, Typed, TypeOK
    <2>3. QED BY <2>1, <2>2
  <1>3. \A q \in Pks : objs[q].live /\ KindOf[q] = KindOf[p] => objs[q].name # n
    BY <1>1 DEF Of, Live
  <1>4. SUFFICES ASSUME NEW q \in Pks, objs[q].live
                 PROVE  /\ objs'[q].name = None <=> KindOf[q] = "binding"
                        /\ \A r \in Pks \ {q} : objs[r].live /\ KindOf[r] = KindOf[q] =>
                              KindOf[q] = "binding" \/ objs'[r].name # objs'[q].name
    <2>1. \A q \in Pks : objs[q].live => \A r \in objs[q].refs : r \in Pks
      BY CoherentIs DEF Live, Inv
    <2>2. QED BY <1>2, <1>4, <2>1 DEF Coherent
  <1>5. /\ objs[q].name = None <=> KindOf[q] = "binding"
        /\ \A r \in Pks \ {q} : objs[r].live /\ KindOf[r] = KindOf[q] =>
              KindOf[q] = "binding" \/ objs[r].name # objs[q].name
    BY <1>4 DEF Coherent
  <1>6. objs'[q].name = None <=> KindOf[q] = "binding"
    BY <1>1, <1>2, <1>5
  <1>7. ASSUME NEW r \in Pks \ {q}, objs[r].live, KindOf[r] = KindOf[q], KindOf[q] # "binding"
        PROVE  objs'[r].name # objs'[q].name
    <2>1. objs[r].name # objs[q].name
      BY <1>5, <1>7
    <2>2. CASE q = p
      BY <1>2, <1>3, <1>7, <2>2
    <2>3. CASE r = p
      BY <1>2, <1>3, <1>4, <1>7, <2>3
    <2>4. CASE q # p /\ r # p
      BY <1>2, <1>7, <2>1, <2>4
    <2>5. QED BY <2>2, <2>3, <2>4
  <1>8. QED BY <1>6, <1>7

LEMMA CoherentReferred ==
  ASSUME Inv, Coherent(objs), NEW p \in Pks,
         NEW refs \in SUBSET {q \in Live \ {p} : KindOf[q] \in Targets[KindOf[p]]},
         HumanRefers(p, refs)
  PROVE  Coherent(objs')
  <1>1. p \in Live /\ KindOf[p] # "binding"
    BY DEF HumanRefers
  <1>2. ASSUME NEW q \in Pks
        PROVE  /\ objs'[q].live = objs[q].live /\ objs'[q].name = objs[q].name
               /\ objs'[q].refs = IF q = p THEN refs ELSE objs[q].refs
    <2>1. \A o \in Object : /\ [o EXCEPT !.refs = refs].live = o.live
                            /\ [o EXCEPT !.refs = refs].name = o.name
                            /\ [o EXCEPT !.refs = refs].refs = refs
      BY DEF Object
    <2>2. objs \in [Pks -> Object] /\ objs' = [objs EXCEPT ![p] = [objs[p] EXCEPT !.refs = refs]]
      BY DEF HumanRefers, Inv, Typed, TypeOK
    <2>3. QED BY <2>1, <2>2
  <1>3. \A q \in refs : q \in Pks /\ objs[q].live /\ KindOf[q] \in Targets[KindOf[p]]
    BY DEF Live
  <1>4. \A q \in Pks : objs[q].live => \A r \in objs[q].refs : r \in Pks
    BY CoherentIs DEF Live, Inv
  <1>5. QED BY <1>1, <1>2, <1>3, <1>4 DEF Coherent

LEMMA CoherentCreated ==
  ASSUME Inv, Coherent(objs), NEW p \in Pks, NEW n \in Names, HumanCreates(p, n)
  PROVE  Coherent(objs')
  <1>1. /\ ~objs[p].live /\ KindOf[p] # "binding" /\ n # None
        /\ \A q \in Pks : objs[q].live /\ KindOf[q] = KindOf[p] => objs[q].name # n
    BY ObjectsAssumption DEF HumanCreates, Free, Of, Live
  <1>2. /\ objs'[p].live /\ objs'[p].name = n /\ objs'[p].refs = {}
        /\ \A q \in Pks \ {p} : objs'[q] = objs[q]
    BY DEF HumanCreates, Inv, Typed, TypeOK
  <1>3. \A q \in Pks : objs[q].live => \A r \in objs[q].refs : r \in Pks
    BY CoherentIs DEF Live, Inv
  <1>4. QED BY <1>1, <1>2, <1>3 DEF Coherent

LEMMA CoherentDeleted ==
  ASSUME Inv, Coherent(objs), NEW p \in Pks, HumanDeletes(p)
  PROVE  Coherent(objs')
  <1>1. ASSUME NEW q \in Pks
        PROVE  /\ objs'[q].live <=> objs[q].live /\ q # p
                                    /\ ~(KindOf[q] = "binding" /\ p \in objs[q].refs)
               /\ objs'[q].name = objs[q].name /\ objs'[q].refs = objs[q].refs \ {p}
    <2>1. ASSUME NEW o \in Object, NEW live, NEW refs, NEW mark
          PROVE  LET m == [o EXCEPT !.live = live, !.refs = refs, !.mark = mark]
                 IN m.live = live /\ m.refs = refs /\ m.name = o.name
      BY DEF Object
    <2>2. objs[q] \in Object
      BY DEF Inv, Typed, TypeOK
    <2>3. PICK live \in BOOLEAN :
             live = (objs[q].live /\ q # p /\ ~(KindOf[q] = "binding" /\ p \in objs[q].refs))
      OBVIOUS
    <2>4. PICK mark : mark = IF KindOf[q] = "application" /\ KindOf[p] = "flow"
                                /\ p \in objs[q].refs THEN "bare" ELSE objs[q].mark
      OBVIOUS
    <2>5. PICK o \in Object : o = objs[q]
      BY <2>2
    <2>6. objs'[q] = [objs[q] EXCEPT !.live = live, !.refs = objs[q].refs \ {p}, !.mark = mark]
      BY <2>2, <2>3, <2>4 DEF HumanDeletes, Object
    <2>7. objs'[q] = [o EXCEPT !.live = live, !.refs = objs[q].refs \ {p}, !.mark = mark]
      BY <2>5, <2>6
    <2>8. objs'[q].live = live /\ objs'[q].refs = objs[q].refs \ {p} /\ objs'[q].name = o.name
      BY <2>1, <2>7
    <2>9. QED BY <2>3, <2>5, <2>8
  <1>2. \A q \in Pks : objs[q].live =>
           \A r \in objs[q].refs : r \in Pks /\ objs[r].live /\ KindOf[r] # "binding"
    BY CoherentIs DEF Live, Inv
  <1>3. ASSUME NEW q \in Pks, objs'[q].live
        PROVE  /\ objs'[q].name = None <=> KindOf[q] = "binding"
               /\ \A r \in objs'[q].refs : objs'[r].live /\ KindOf[r] \in Targets[KindOf[q]]
    <2>1. objs[q].live /\ objs'[q].name = objs[q].name /\ objs'[q].refs = objs[q].refs \ {p}
      BY <1>1, <1>3
    <2>2. \A r \in objs'[q].refs : r \in objs[q].refs /\ r # p /\ r \in Pks /\ objs[r].live
                                   /\ KindOf[r] # "binding"
      BY <1>2, <2>1
    <2>3. \A r \in objs'[q].refs : objs'[r].live
      BY <1>1, <2>2
    <2>4. QED BY <2>1, <2>2, <2>3 DEF Coherent
  <1>4. ASSUME NEW q \in Pks, objs'[q].live, KindOf[q] = "binding"
        PROVE  objs[q].live /\ objs'[q].refs = objs[q].refs
    BY <1>1, <1>4
  <1>5. QED BY <1>1, <1>3, <1>4 DEF Coherent

LEMMA CoherentStays == Inv /\ Coherent(objs) /\ [Next]_vars => Coherent(objs)'
  <1> SUFFICES ASSUME Inv, Coherent(objs), [Next]_vars PROVE Coherent(objs')
    OBVIOUS
  <1>1. CASE HumanStep
    BY <1>1, CoherentNamed, CoherentReferred, CoherentCreated, CoherentDeleted DEF HumanStep
  <1>2. CASE UNCHANGED objs
    BY <1>2
  <1>3. RunStep \/ Begin \/ CallFails \/ UNCHANGED vars => UNCHANGED objs
    BY DEF RunStep, ListGroups, ListUsers, ListFlows, ListMappings, ListBrands, ListOutposts,
           ReadMappingNames, ListProviders, ListApplications, RetrieveProvider, ListBindings,
           Goes, Begin, CallFails, vars
  <1>4. QED BY <1>1, <1>2, <1>3 DEF Next
-----------------------------------------------------------------------------
(* An undisturbed run writes what is there.                                *)

\* Files made now stand for objects.
Right(new) == \A k \in DOMAIN new :
    new[k].run = runs /\ \E p \in Of(k[1]) : k = PlaceOf(p) /\ Stands(new[k], p)

LEMMA LatestGrows ==
  ASSUME NEW next, NEW new, Goes(next, new), \A k \in DOMAIN new : new[k].run = runs
  PROVE  /\ Latest' = DOMAIN new \cup Latest
         /\ \A k \in DOMAIN new : files'[k] = new[k]
         /\ \A k \in Latest' \ DOMAIN new : k \in Latest /\ files'[k] = files[k]
  BY DEF Goes, Latest

LEMMA RightStays ==
  ASSUME FilesRight, NEW next, NEW new, Goes(next, new), Right(new)
  PROVE  FilesRight'
  <1>1. /\ Latest' = DOMAIN new \cup Latest
        /\ \A k \in DOMAIN new : files'[k] = new[k]
        /\ \A k \in Latest' \ DOMAIN new : k \in Latest /\ files'[k] = files[k]
    BY LatestGrows DEF Right
  <1>2. objs' = objs
    BY DEF Goes
  <1>3. ASSUME NEW k \in Latest'
        PROVE  \E p \in Of(k[1]) : k = PlaceOf(p) /\ Stands(files'[k], p)
    <2>1. CASE k \in DOMAIN new
      BY <1>1, <2>1 DEF Right
    <2>2. CASE k \notin DOMAIN new
      BY <1>1, <1>3, <2>2 DEF FilesRight
    <2>3. QED BY <2>1, <2>2
  <1>4. \A k : Of(k[1])' = Of(k[1]) /\ \A p : PlaceOf(p)' = PlaceOf(p)
    BY <1>2, Unmoved
  <1>5. \A k, p : Stands(files[k], p)' <=> Stands(files'[k], p)
    <2>1. SUFFICES ASSUME NEW k, NEW p PROVE Stands(files[k], p)' <=> Stands(files'[k], p)
      OBVIOUS
    <2>2. PICK cr : cr = files'[k]
      OBVIOUS
    <2>3. Refers(p)' = Refers(p) /\ Of("outpost")' = Of("outpost")
      BY <1>2, RefersStay
    <2>4. QED BY <1>2, <2>3, Zenon DEF Stands, IdOf
  <1>6. ASSUME NEW k \in Latest'
        PROVE  \E p \in Of(k[1])' : k = PlaceOf(p)' /\ Stands(files[k], p)'
    <2>1. PICK p \in Of(k[1]) : k = PlaceOf(p) /\ Stands(files'[k], p)
      BY <1>3, <1>6
    <2>2. p \in Of(k[1])' /\ k = PlaceOf(p)'
      BY <1>4, <2>1
    <2>3. Stands(files[k], p)'
      BY <1>5, <2>1
    <2>4. QED BY <2>2, <2>3
  <1>7. QED BY <1>6 DEF FilesRight

\* An access policy's CR stays beside its application's; other files disturb neither.
LEMMA BesideStays ==
  ASSUME BesideTheirs, NEW next, NEW new, Goes(next, new),
         \A k \in DOMAIN new :
            /\ new[k].run = runs
            /\ k[1] = "binding" => <<"application", <<new[k].to>>>> \in Latest
  PROVE  BesideTheirs'
  <1>1. /\ Latest' = DOMAIN new \cup Latest
        /\ \A k \in DOMAIN new : files'[k] = new[k]
        /\ \A k \in Latest' \ DOMAIN new : k \in Latest /\ files'[k] = files[k]
    BY LatestGrows
  <1>2. ASSUME NEW k \in Latest', k[1] = "binding"
        PROVE  <<"application", <<files'[k].to>>>> \in Latest'
    <2>1. CASE k \in DOMAIN new
      BY <1>1, <1>2, <2>1
    <2>2. CASE k \notin DOMAIN new
      BY <1>1, <1>2, <2>2 DEF BesideTheirs
    <2>3. QED BY <2>1, <2>2
  <1>3. QED BY <1>2 DEF BesideTheirs

\* What a step has newly dealt with must be filed.
LEMMA CoveredStays ==
  ASSUME Covered, NEW next, NEW new, Goes(next, new), \A k \in DOMAIN new : new[k].run = runs,
         \A p \in Live : HasCr(p) /\ Listed(p)' => Listed(p) \/ PlaceOf(p) \in DOMAIN new
  PROVE  Covered'
  <1>1. Latest' = DOMAIN new \cup Latest /\ objs' = objs
    BY LatestGrows DEF Goes
  <1>2. \A p \in Live : HasCr(p) /\ Listed(p)' => PlaceOf(p) \in Latest'
    BY <1>1 DEF Covered
  <1>3. Live' = Live /\ \A p : (HasCr(p)' <=> HasCr(p)) /\ PlaceOf(p)' = PlaceOf(p)
    BY <1>1, Unmoved
  <1>4. QED BY <1>2, <1>3 DEF Covered

\* The files of a list.
LEMMA WrittenRight ==
  ASSUME Typed, Coherent(objs), NEW kind \in Plain, NEW S, S \subseteq Of(kind),
         NEW known, Informed(known, kind)
  PROVE  /\ Right(Written(S, known))
         /\ \A k \in DOMAIN Written(S, known) : k[1] = kind
         /\ \A p \in S : PlaceOf(p) \in DOMAIN Written(S, known)
  <1> DEFINE key(p) == <<KindOf[p], CrName(<<objs[p].name>>)>>
  <1>1. /\ DOMAIN Written(S, known) = {key(p) : p \in S}
        /\ \A k \in {key(p) : p \in S} : \E p \in S :
              key(p) = k /\ Written(S, known)[k] = Cr(IdOf(p), objs[p].name, RefsOf(p, known), None)
    BY DEF Written
  <1>2. ASSUME NEW p \in S
        PROVE  /\ p \in Live /\ KindOf[p] = kind /\ PlaceOf(p) = key(p) /\ key(p)[1] = kind
               /\ RefsOf(p, known) = Refers(p)
    <2>1. p \in Live /\ KindOf[p] = kind
      BY DEF Of
    <2>2. PlaceOf(p) = key(p)
      BY <2>1 DEF PlaceOf, Plain
    <2>3. QED BY <2>1, <2>2, RefsAre
  <1>3. ASSUME NEW k \in DOMAIN Written(S, known)
        PROVE  /\ Written(S, known)[k].run = runs /\ k[1] = kind
               /\ \E p \in Of(k[1]) : k = PlaceOf(p) /\ Stands(Written(S, known)[k], p)
    <2>1. PICK p \in S :
             key(p) = k /\ Written(S, known)[k] = Cr(IdOf(p), objs[p].name, RefsOf(p, known), None)
      BY <1>1
    <2>2. PICK cr : cr = Written(S, known)[k]
      OBVIOUS
    <2>3. cr.id = IdOf(p) /\ cr.name = objs[p].name /\ cr.refs = RefsOf(p, known) /\ cr.run = runs
      BY <2>1, <2>2 DEF Cr
    <2>4. KindOf[p] = kind /\ PlaceOf(p) = k /\ k[1] = kind /\ cr.refs = Refers(p)
      BY <1>2, <2>1, <2>3
    <2>5. Stands(cr, p)
      BY <2>3, <2>4 DEF Stands, Plain
    <2>6. QED BY <2>2, <2>3, <2>4, <2>5
  <1>4. \A p \in S : PlaceOf(p) \in DOMAIN Written(S, known)
    BY <1>1, <1>2
  <1>5. QED BY <1>3, <1>4 DEF Right

\* What it has read is what there is, until it reads more.
LEMMA KnowsStays ==
  ASSUME Knows, objs' = objs,
         read' = read /\ outposts' = outposts /\ providers' = providers /\ todo' = todo,
         \A kind \in {"group", "flow", "outpost"} :
            pc' \notin Before(kind) => pc \notin Before(kind),
         pc' \notin Before("outpost") \cup {"names"} => pc \notin Before("outpost") \cup {"names"},
         pc' \in Late => pc \in Late,
         pc' \notin {"application", "written"}
  PROVE  Knows'
  <1>1. \A kind : Of(kind)' = Of(kind) /\ NamesOf(Of(kind))' = NamesOf(Of(kind))
    BY Unmoved, Zenon
  <1>2. \A p : Item(p)' = Item(p) /\ (Importable(p)' <=> Importable(p))
    BY Unmoved, Zenon
  <1>3. pc' \notin Before("group") => read'["group"] = NamesOf(Of("group"))'
    BY <1>1 DEF Knows
  <1>4. pc' \notin Before("flow") => read'["flow"] = NamesOf(Of("flow"))'
    BY <1>1 DEF Knows
  <1>5. pc' \notin Before("outpost") =>
          outposts' = {[name |-> objs'[p].name, refs |-> objs'[p].refs] : p \in Of("outpost")'}
    BY <1>1 DEF Knows
  <1>6. pc' \notin Before("outpost") \cup {"names"} => read'["mapping"] = NamesOf(Of("mapping"))'
    BY <1>1 DEF Knows
  <1>7. pc' \in Late => \A x \in todo' : \E p \in Of("application")' : x = Item(p)' /\ Importable(p)'
    BY <1>1, <1>2, Zenon DEF Knows
  <1>8. QED BY <1>3, <1>4, <1>5, <1>6, <1>7 DEF Knows, Before, Late
-----------------------------------------------------------------------------
(* Every step keeps that.                                                  *)

\* A step to one that comes before the applications deals with its own kind only.
LEMMA ListFiles ==
  ASSUME Inv, Coherent(objs), Filing, NEW kind \in Plain, pc = kind,
         NEW T, T \subseteq Of(kind), \A p \in Of(kind) : HasCr(p) => p \in T,
         NEW known, Informed(known, kind), NEW next, next \notin Late,
         Goes(next, Written(T, known)),
         \A other \in Plain \ {kind} : next \notin Before(other) => kind \notin Before(other)
  PROVE  Filing'
  <1>1. PICK new : new = Written(T, known)
    OBVIOUS
  <1>2. /\ Right(new) /\ Goes(next, new) /\ \A k \in DOMAIN new : k[1] = kind
        /\ \A p \in T : PlaceOf(p) \in DOMAIN new
    BY <1>1, WrittenRight DEF Inv
  <1>3. \A k \in DOMAIN new : new[k].run = runs /\ k[1] # "binding"
    BY <1>2 DEF Right, Plain
  <1>4. ASSUME NEW p \in Live, HasCr(p), Listed(p)'
        PROVE  Listed(p) \/ PlaceOf(p) \in DOMAIN new
    <2>1. pc' = next /\ KindOf[p] \in Kinds
      BY <1>2, CoherentIs DEF Goes, Inv
    <2>2. KindOf[p] \in Plain
      BY <1>4, <2>1 DEF Listed, Plain
    <2>3. next \notin Before(KindOf[p])
      BY <1>4, <2>1, <2>2 DEF Listed, Plain, Before
    <2>4. CASE KindOf[p] = kind
      BY <1>2, <1>4, <2>4 DEF Of
    <2>5. CASE KindOf[p] # kind
      <3>1. pc \notin Before(KindOf[p])
        BY <2>2, <2>3, <2>5
      <3>2. QED BY <2>2, <3>1 DEF Listed, Plain
    <2>6. QED BY <2>4, <2>5
  <1>5. FilesRight'
    BY <1>2, RightStays DEF Filing
  <1>6. BesideTheirs'
    BY <1>2, <1>3, BesideStays DEF Filing
  <1>7. Covered'
    BY <1>2, <1>3, <1>4, CoveredStays DEF Filing
  <1>8. QED BY <1>5, <1>6, <1>7 DEF Filing

\* A list that writes nothing.
LEMMA ReadFiles ==
  ASSUME Inv, Coherent(objs), Filing, NEW next, Goes(next, <<>>),
         \A p \in Live : HasCr(p) /\ Listed(p)' => Listed(p)
  PROVE  Filing'
  <1>1. PICK new : new = <<>>
    OBVIOUS
  <1>2. DOMAIN new = {} /\ Goes(next, new)
    BY <1>1, KnownIs
  <1>3. Right(new)
    BY <1>2 DEF Right
  <1>4. FilesRight'
    BY <1>2, <1>3, RightStays DEF Filing
  <1>5. BesideTheirs'
    BY <1>2, BesideStays DEF Filing
  <1>6. Covered'
    BY <1>2, CoveredStays DEF Filing
  <1>7. QED BY <1>4, <1>5, <1>6 DEF Filing

LEMMA GroupsExact ==
  ASSUME Inv, Coherent(objs), ListsFit, Knows, Filing, ListGroups
  PROVE  (Knows /\ Filing)'
  <1>1. PICK S \in Pages("group") :
           read' = [read EXCEPT !.group = NamesOf(S)] /\ Goes("user", Written(S, read'))
    BY DEF ListGroups
  <1>2. S = Of("group")
    BY ListIsAll DEF Kinds
  <1>3. PICK known : known = [read EXCEPT !.group = NamesOf(S)] /\ read' = known
                     /\ Goes("user", Written(S, known))
    BY <1>1
  <1>4. known["group"] = NamesOf(Of("group"))
    BY <1>2, <1>3 DEF Inv, Typed, Known
  <1>5. pc = "group" /\ pc' = "user" /\ objs' = objs
    BY <1>3 DEF ListGroups, Goes
  <1>6. Informed(known, "group")
    BY <1>4 DEF Informed
  <1>7. Filing'
    <2>1. "group" \in Plain /\ "user" \notin Late
          /\ \A other \in Plain \ {"group"} : "user" \in Before(other)
      BY DEF Plain, Kinds, Late, Before
    <2>2. QED BY <1>2, <1>3, <1>5, <1>6, <2>1, ListFiles
  <1>8. NamesOf(Of("group"))' = NamesOf(Of("group"))
    BY <1>5, Unmoved
  <1>9. Knows'
    BY <1>3, <1>4, <1>5, <1>8 DEF Knows, Before, Late
  <1>10. QED BY <1>7, <1>9

LEMMA UsersExact ==
  ASSUME Inv, Coherent(objs), ListsFit, Knows, Filing, ListUsers
  PROVE  (Knows /\ Filing)'
  <1>1. PICK S \in Pages("user") : Goes("flow", Written(S, read))
    BY DEF ListUsers
  <1>2. S = Of("user")
    BY ListIsAll DEF Kinds
  <1>3. pc = "user" /\ pc' = "flow" /\ objs' = objs /\ UNCHANGED <<read, outposts, providers, todo>>
    BY <1>1 DEF ListUsers, Goes
  <1>4. Informed(read, "user")
    BY <1>3 DEF Informed, Knows, Before
  <1>5. Filing'
    <2>1. "user" \in Plain /\ "flow" \notin Late
          /\ \A other \in Plain \ {"user"} : "flow" \notin Before(other) => "user" \notin Before(other)
      BY DEF Plain, Kinds, Late, Before
    <2>2. QED BY <1>1, <1>2, <1>3, <1>4, <2>1, ListFiles
  <1>6. Knows'
    <2>1. \A kind \in {"group", "flow", "outpost"} :
             "flow" \notin Before(kind) => "user" \notin Before(kind)
      BY DEF Before
    <2>2. "flow" \notin Late /\ "flow" \in Before("outpost")
      BY DEF Before, Late
    <2>3. QED BY <1>3, <2>1, <2>2, KnowsStays
  <1>7. QED BY <1>5, <1>6

LEMMA FlowsExact ==
  ASSUME Inv, Coherent(objs), ListsFit, Knows, Filing, ListFlows
  PROVE  (Knows /\ Filing)'
  <1>1. PICK S \in Pages("flow") :
           read' = [read EXCEPT !.flow = NamesOf(S)] /\ Goes("mapping", Written(S, read'))
    BY DEF ListFlows
  <1>2. S = Of("flow")
    BY ListIsAll DEF Kinds
  <1>3. PICK known : known = [read EXCEPT !.flow = NamesOf(S)] /\ read' = known
                     /\ Goes("mapping", Written(S, known))
    BY <1>1
  <1>4. known["flow"] = NamesOf(Of("flow")) /\ known["group"] = read["group"]
    BY <1>2, <1>3 DEF Inv, Typed, Known
  <1>5. pc = "flow" /\ pc' = "mapping" /\ objs' = objs
    BY <1>3 DEF ListFlows, Goes
  <1>6. Informed(known, "flow")
    BY DEF Informed
  <1>7. Filing'
    <2>1. "flow" \in Plain /\ "mapping" \notin Late
          /\ \A other \in Plain \ {"flow"} :
                "mapping" \notin Before(other) => "flow" \notin Before(other)
      BY DEF Plain, Kinds, Late, Before
    <2>2. QED BY <1>2, <1>3, <1>5, <1>6, <2>1, ListFiles
  <1>8. \A kind : NamesOf(Of(kind))' = NamesOf(Of(kind))
    BY <1>5, Unmoved
  <1>9. read["group"] = NamesOf(Of("group"))
    BY <1>5 DEF Knows, Before
  <1>10. Knows'
    BY <1>3, <1>4, <1>5, <1>8, <1>9 DEF Knows, Before, Late
  <1>11. QED BY <1>7, <1>10

LEMMA MappingsExact ==
  ASSUME Inv, Coherent(objs), ListsFit, Knows, Filing, ListMappings
  PROVE  (Knows /\ Filing)'
  <1> DEFINE T(S) == {p \in S : objs[p].mark # "managed"}
  <1>1. PICK S \in Pages("mapping") : Goes("brand", Written(T(S), read))
    BY DEF ListMappings
  <1>2. S = Of("mapping")
    BY ListIsAll DEF Kinds
  <1>3. pc = "mapping" /\ pc' = "brand" /\ objs' = objs
        /\ UNCHANGED <<read, outposts, providers, todo>>
    BY <1>1 DEF ListMappings, Goes
  <1>4. T(S) \subseteq Of("mapping") /\ \A p \in Of("mapping") : HasCr(p) => p \in T(S)
    BY <1>2 DEF HasCr, Of
  <1>5. Filing'
    <2>1. "mapping" \in Plain /\ "brand" \notin Late /\ Informed(read, "mapping")
          /\ \A other \in Plain \ {"mapping"} :
                "brand" \notin Before(other) => "mapping" \notin Before(other)
      BY DEF Plain, Kinds, Late, Before, Informed
    <2> HIDE DEF T
    <2>2. QED BY <1>1, <1>3, <1>4, <2>1, ListFiles
  <1>6. Knows'
    <2>1. \A kind \in {"group", "flow", "outpost"} :
             "brand" \notin Before(kind) => "mapping" \notin Before(kind)
      BY DEF Before
    <2>2. "brand" \notin Late /\ "brand" \in Before("outpost")
      BY DEF Before, Late
    <2>3. QED BY <1>3, <2>1, <2>2, KnowsStays
  <1>7. QED BY <1>5, <1>6

LEMMA BrandsExact ==
  ASSUME Inv, Coherent(objs), ListsFit, Knows, Filing, ListBrands
  PROVE  (Knows /\ Filing)'
  <1>1. PICK S \in Pages("brand") : Goes("outpost", Written(S, read))
    BY DEF ListBrands
  <1>2. S = Of("brand")
    BY ListIsAll DEF Kinds
  <1>3. pc = "brand" /\ pc' = "outpost" /\ objs' = objs
        /\ UNCHANGED <<read, outposts, providers, todo>>
    BY <1>1 DEF ListBrands, Goes
  <1>4. Informed(read, "brand")
    BY <1>3 DEF Informed, Knows, Before
  <1>5. Filing'
    <2>1. "brand" \in Plain /\ "outpost" \notin Late
          /\ \A other \in Plain \ {"brand"} :
                "outpost" \notin Before(other) => "brand" \notin Before(other)
      BY DEF Plain, Kinds, Late, Before
    <2>2. QED BY <1>1, <1>2, <1>3, <1>4, <2>1, ListFiles
  <1>6. Knows'
    <2>1. \A kind \in {"group", "flow", "outpost"} :
             "outpost" \notin Before(kind) => "brand" \notin Before(kind)
      BY DEF Before
    <2>2. "outpost" \notin Late /\ "outpost" \in Before("outpost")
      BY DEF Before, Late
    <2>3. QED BY <1>3, <2>1, <2>2, KnowsStays
  <1>7. QED BY <1>5, <1>6

LEMMA OutpostsExact ==
  ASSUME Inv, Coherent(objs), ListsFit, Knows, Filing, ListOutposts
  PROVE  (Knows /\ Filing)'
  <1> DEFINE T(S) == {p \in S : objs[p].name # Embedded /\ objs[p].mark # "rac"}
             entry(p) == [name |-> objs[p].name, refs |-> objs[p].refs]
  <1>0. \E S \in Pages("outpost") :
           outposts' = {entry(p) : p \in S} /\ Goes("names", Written(T(S), read))
    BY DEF ListOutposts
  <1>1. PICK S \in Pages("outpost") :
           outposts' = {entry(p) : p \in S} /\ Goes("names", Written(T(S), read))
    BY <1>0
  <1>2. S = Of("outpost")
    BY ListIsAll DEF Kinds
  <1>3. pc = "outpost" /\ pc' = "names" /\ objs' = objs /\ UNCHANGED <<read, providers, todo>>
    BY <1>1 DEF ListOutposts, Goes
  <1>4. T(S) \subseteq Of("outpost") /\ \A p \in Of("outpost") : HasCr(p) => p \in T(S)
    BY <1>2 DEF HasCr, Of
  <1>5. Filing'
    <2>1. "outpost" \in Plain /\ "names" \notin Late /\ Informed(read, "outpost")
          /\ \A other \in Plain \ {"outpost"} :
                "names" \notin Before(other) => "outpost" \notin Before(other)
      BY DEF Plain, Kinds, Late, Before, Informed
    <2> HIDE DEF T
    <2>2. QED BY <1>1, <1>3, <1>4, <2>1, ListFiles
  <1>6. \A kind : Of(kind)' = Of(kind) /\ NamesOf(Of(kind))' = NamesOf(Of(kind))
    BY <1>3, Unmoved
  <1>7. read["group"] = NamesOf(Of("group")) /\ read["flow"] = NamesOf(Of("flow"))
    BY <1>3 DEF Knows, Before
  <1>8. outposts' = {[name |-> objs'[p].name, refs |-> objs'[p].refs] : p \in Of("outpost")'}
    BY <1>1, <1>2, <1>3, <1>6
  <1>9. Knows'
    BY <1>3, <1>6, <1>7, <1>8 DEF Knows, Before, Late
  <1>10. QED BY <1>5, <1>9

LEMMA MappingNamesExact ==
  ASSUME Inv, Coherent(objs), ListsFit, Knows, Filing, ReadMappingNames
  PROVE  (Knows /\ Filing)'
  <1>1. PICK S \in Pages("mapping") : read' = [read EXCEPT !.mapping = NamesOf(S)]
    BY DEF ReadMappingNames
  <1>2. S = Of("mapping")
    BY ListIsAll DEF Kinds
  <1>3. /\ read'["mapping"] = NamesOf(Of("mapping"))
        /\ read'["group"] = read["group"] /\ read'["flow"] = read["flow"]
    BY <1>1, <1>2 DEF Inv, Typed, Known
  <1>4. /\ pc = "names" /\ pc' = "provider" /\ objs' = objs
        /\ Goes("provider", <<>>) /\ UNCHANGED <<outposts, providers, todo>>
    BY DEF ReadMappingNames, Goes
  <1>5. Filing'
    <2>1. "provider" \notin Late /\ \A kind \in Plain : "names" \notin Before(kind)
      BY DEF Plain, Kinds, Late, Before
    <2>2. ASSUME NEW p \in Live, HasCr(p), Listed(p)' PROVE Listed(p)
      <3>1. KindOf[p] \in Kinds
        BY CoherentIs DEF Inv
      <3>2. KindOf[p] \in Plain
        BY <1>4, <2>1, <2>2, <3>1 DEF Listed, Plain
      <3>3. QED BY <1>4, <2>1, <3>2 DEF Listed, Plain
    <2>3. QED BY <1>4, <2>2, ReadFiles
  <1>6. \A kind : Of(kind)' = Of(kind) /\ NamesOf(Of(kind))' = NamesOf(Of(kind))
    BY <1>4, Unmoved
  <1>7. /\ read["group"] = NamesOf(Of("group")) /\ read["flow"] = NamesOf(Of("flow"))
        /\ outposts = {[name |-> objs[p].name, refs |-> objs[p].refs] : p \in Of("outpost")}
    BY <1>4 DEF Knows, Before
  <1>8. outposts' = {[name |-> objs'[p].name, refs |-> objs'[p].refs] : p \in Of("outpost")'}
    BY <1>4, <1>6, <1>7
  <1>9. Knows'
    BY <1>3, <1>4, <1>6, <1>7, <1>8 DEF Knows, Before, Late
  <1>10. QED BY <1>5, <1>9

\* What is known before the applications is known from there on.
Informative ==
    /\ read["group"] = NamesOf(Of("group")) /\ read["flow"] = NamesOf(Of("flow"))
    /\ read["mapping"] = NamesOf(Of("mapping"))
    /\ outposts = {[name |-> objs[p].name, refs |-> objs[p].refs] : p \in Of("outpost")}

LEMMA InformativeIs ==
  ASSUME Knows, pc \in {"provider", "application"} \cup Late
  PROVE  Informative
  BY DEF Knows, Before, Late, Informative

LEMMA InformativeStays ==
  ASSUME Informative, objs' = objs, read' = read, outposts' = outposts
  PROVE  Informative'
  <1>1. \A kind : Of(kind)' = Of(kind) /\ NamesOf(Of(kind))' = NamesOf(Of(kind))
    BY Unmoved
  <1>2. outposts' = {[name |-> objs'[p].name, refs |-> objs'[p].refs] : p \in Of("outpost")'}
    BY <1>1 DEF Informative
  <1>3. QED BY <1>1, <1>2 DEF Informative

LEMMA ProvidersExact ==
  ASSUME Inv, Coherent(objs), ListsFit, Knows, Filing, ListProviders
  PROVE  (Knows /\ Filing)'
  <1> DEFINE entry(p) == [slug |-> objs[p].name, pk |-> p, mark |-> objs[p].mark]
  <1>1. PICK S \in Pages("application") :
           providers' = {entry(p) : p \in {q \in S : objs[q].mark # "bare"}}
    BY DEF ListProviders
  <1>2. S = Of("application")
    BY ListIsAll DEF Kinds
  <1>3. /\ pc = "provider" /\ pc' = "application" /\ objs' = objs
        /\ Goes("application", <<>>) /\ UNCHANGED <<read, outposts, todo>>
    BY DEF ListProviders, Goes
  <1>4. Filing'
    <2>1. "application" \notin Late /\ \A kind \in Plain : "provider" \notin Before(kind)
      BY DEF Plain, Kinds, Late, Before
    <2>2. ASSUME NEW p \in Live, HasCr(p), Listed(p)' PROVE Listed(p)
      <3>1. KindOf[p] \in Kinds
        BY CoherentIs DEF Inv
      <3>2. KindOf[p] \in Plain
        BY <1>3, <2>1, <2>2, <3>1 DEF Listed, Plain
      <3>3. QED BY <1>3, <2>1, <3>2 DEF Listed, Plain
    <2>3. QED BY <1>3, <2>2, ReadFiles
  <1>5. Of("application")' = Of("application")
    BY <1>3, Unmoved
  <1>6. providers' = {[slug |-> objs'[p].name, pk |-> p, mark |-> objs'[p].mark] :
                          p \in {q \in Of("application")' : objs'[q].mark # "bare"}}
    BY <1>1, <1>2, <1>3, <1>5
  <1>7. Informative'
    BY <1>3, InformativeIs, InformativeStays
  <1>8. pc' \notin Late /\ pc' # "written"
    BY <1>3 DEF Late
  <1>9. Knows'
    BY <1>6, <1>7, <1>8 DEF Knows, Informative
  <1>10. QED BY <1>4, <1>9

\* Every application that can have a CR is left to write, and no other.
LEMMA AskedAre ==
  ASSUME Inv, Coherent(objs), ListsFit, Knows, ListApplications
  PROVE  /\ \A x \in todo' : \E p \in Of("application") : x = Item(p) /\ Importable(p)
         /\ \A p \in Of("application") : Importable(p) => Item(p) \in todo'
  <1> DEFINE asked(x) == x.slug \in Wanted /\ x.mark \in {"oauth2", "proxy"}
             item(t) == [slug |-> t[2].slug, pk |-> t[1], provider |-> t[2].pk, mark |-> t[2].mark]
             pairs(S) == {t \in S \X providers : t[2].slug = objs[t[1]].name /\ asked(t[2])}
             entry(p) == [slug |-> objs[p].name, pk |-> p, mark |-> objs[p].mark]
  <1>1. PICK S \in Pages("application") : todo' = {item(t) : t \in pairs(S)}
    BY DEF ListApplications
  <1>2. S = Of("application")
    BY ListIsAll DEF Kinds
  <1>3. providers = {entry(p) : p \in {q \in Of("application") : objs[q].mark # "bare"}}
    BY DEF ListApplications, Knows
  <1>4. \A p, q \in Of("application") : objs[p].name = objs[q].name => p = q
    BY CoherentIs DEF Of, Inv
  <1>5. ASSUME NEW x \in todo'
        PROVE  \E p \in Of("application") : x = Item(p) /\ Importable(p)
    <2>1. PICK t \in pairs(S) : x = item(t)
      BY <1>1
    <2>2. t[1] \in Of("application") /\ t[2] \in providers /\ t[2].slug = objs[t[1]].name
          /\ asked(t[2])
      BY <1>2
    <2>3. PICK p \in Of("application") : t[2] = entry(p)
      BY <1>3, <2>2
    <2>4. t[2].slug = objs[p].name /\ t[2].pk = p /\ t[2].mark = objs[p].mark
      BY <2>3
    <2>5. t[1] = p
      BY <1>4, <2>2, <2>4
    <2>6. x = Item(p)
      BY <2>1, <2>4, <2>5 DEF Item
    <2>7. Importable(p)
      BY <2>2, <2>4 DEF Importable
    <2>8. QED BY <2>6, <2>7
  <1>6. ASSUME NEW p \in Of("application"), Importable(p)
        PROVE  Item(p) \in todo'
    <2>1. objs[p].mark # "bare" /\ objs[p].mark \in {"oauth2", "proxy"} /\ objs[p].name \in Wanted
      BY <1>6 DEF Importable
    <2>2. entry(p) \in providers
      BY <1>3, <2>1
    <2>3. entry(p).slug = objs[p].name /\ entry(p).mark = objs[p].mark /\ entry(p).pk = p
      OBVIOUS
    <2>4. PICK e : e = entry(p)
      OBVIOUS
    <2>5. <<p, e>> \in pairs(S)
      BY <1>2, <2>1, <2>2, <2>3, <2>4
    <2>6. item(<<p, e>>) = Item(p)
      BY <2>3, <2>4 DEF Item
    <2>7. QED BY <1>1, <2>5, <2>6
  <1>7. QED BY <1>5, <1>6

LEMMA ApplicationsExact ==
  ASSUME Inv, Coherent(objs), ListsFit, Knows, Filing, ListApplications
  PROVE  (Knows /\ Filing)'
  <1>1. PICK next : next = IF todo' = {} THEN "written" ELSE "retrieve"
    OBVIOUS
  <1>2. /\ pc = "application" /\ pc' = next /\ objs' = objs
        /\ Goes(next, <<>>) /\ UNCHANGED <<read, outposts, providers>>
    BY <1>1 DEF ListApplications, Goes
  <1>3. next \in {"written", "retrieve"} /\ (next = "written" => todo' = {})
    BY <1>1
  <1>4. /\ \A x \in todo' : \E p \in Of("application") : x = Item(p) /\ Importable(p)
        /\ \A p \in Of("application") : Importable(p) => Item(p) \in todo'
    BY AskedAre
  <1>5. Filing'
    <2>1. \A kind \in Plain : "application" \notin Before(kind)
      BY DEF Plain, Kinds, Before
    <2>2. ASSUME NEW p \in Live, HasCr(p), Listed(p)' PROVE Listed(p)
      <3>1. KindOf[p] \in Kinds
        BY CoherentIs DEF Inv
      <3>2. CASE KindOf[p] \in Plain
        BY <1>2, <2>1, <3>2 DEF Listed, Plain
      <3>3. ASSUME NEW a \in Of("application"), Importable(a)
            PROVE  \E x \in todo' : x.pk = a
        BY <1>4, <3>3 DEF Item
      <3>4. CASE KindOf[p] = "application"
        <4>1. p \in Of("application") /\ Importable(p)
          BY <2>2, <3>4 DEF HasCr, Of
        <4>2. \A x \in todo' : x.pk # p
          BY <1>2, <1>3, <2>2, <3>4 DEF Listed
        <4>3. QED BY <3>3, <4>1, <4>2
      <3>5. CASE KindOf[p] = "binding"
        <4>1. PICK a \in objs[p].refs : KindOf[a] = "application"
          BY <3>5, CoherentIs DEF Inv
        <4>2. a \in Of("application")
          BY <4>1, CoherentIs DEF Of, Inv
        <4>3. Importable(a)
          BY <2>2, <3>5, <4>1, <4>2 DEF HasCr
        <4>4. \A x \in todo' : x.pk \notin objs[p].refs
          BY <1>2, <2>2, <3>5 DEF Listed
        <4>5. QED BY <3>3, <4>1, <4>2, <4>3, <4>4
      <3>6. QED BY <3>1, <3>2, <3>4, <3>5 DEF Plain
    <2>3. QED BY <1>2, <2>2, ReadFiles
  <1>6. Informative'
    BY <1>2, InformativeIs, InformativeStays
  <1>7. \A x \in todo' : \E p \in Of("application")' : x = Item(p)' /\ Importable(p)'
    <2>1. /\ Of("application")' = Of("application")
          /\ \A p : Item(p)' = Item(p) /\ (Importable(p)' <=> Importable(p))
      BY <1>2, Unmoved
    <2>2. QED BY <1>4, <2>1
  <1>8. Knows'
    BY <1>2, <1>3, <1>6, <1>7 DEF Knows, Informative
  <1>9. QED BY <1>5, <1>8

\* The application whose turn it is.
LEMMA FirstIs ==
  ASSUME Inv, Coherent(objs), Knows, pc \in {"retrieve", "binding"}
  PROVE  /\ First \in todo
         /\ \E p \in Of("application") : First = Item(p) /\ Importable(p)
  <1>1. First \in todo
    BY DEF First, Inv, Typed
  <1>2. QED BY <1>1 DEF Knows, Late

\* What the provider asks for, by the names that were read.
LEMMA AppCrStands ==
  ASSUME Inv, Coherent(objs), Informative, NEW p \in Of("application"), Importable(p)
  PROVE  Stands(AppCr(Item(p)), p)
  <1> DEFINE refs == objs[p].refs
             cr == AppCr(Item(p))
  <1>1. /\ p \in Live /\ KindOf[p] = "application" /\ objs[p].mark \in {"oauth2", "proxy"}
        /\ Item(p).slug = objs[p].name /\ Item(p).provider = p /\ Item(p).mark = objs[p].mark
    BY DEF Of, Importable, Item
  <1>2. /\ cr.id = objs[p].name /\ cr.name = objs[p].name
        /\ cr.refs = Resolved(refs, read, "flow")
              \cup (IF objs[p].mark = "oauth2" THEN Resolved(refs, read, "mapping") ELSE {})
        /\ cr.to = IF objs[p].mark = "proxy" THEN OutpostRef(p) ELSE None
    BY <1>1 DEF AppCr, Cr
  <1>3. cr.refs = Refers(p)
    <2>1. refs \subseteq Live /\ \A q \in refs : KindOf[q] \in {"flow", "mapping"}
      BY <1>1, CoherentIs DEF Targets, Inv
    <2>2. Linked(p) = Meant(p)
      BY <1>1, MeantIs DEF Inv
    <2>3. /\ Resolved(refs, read, "flow")
                 = {<<KindOf[q], objs[q].name>> : q \in refs \cap Of("flow")}
          /\ Resolved(refs, read, "mapping")
                 = {<<KindOf[q], objs[q].name>> : q \in refs \cap Of("mapping")}
      BY ResolvedIs DEF Informative
    <2>4. CASE objs[p].mark = "proxy"
      <3>1. Meant(p) = refs \cap Of("flow")
        BY <1>1, <2>4 DEF Meant
      <3>2. QED BY <1>2, <2>2, <2>3, <2>4, <3>1 DEF Refers
    <2>5. CASE objs[p].mark = "oauth2"
      <3>1. Meant(p) = refs
        BY <1>1, <2>5 DEF Meant
      <3>2. refs = (refs \cap Of("flow")) \cup (refs \cap Of("mapping"))
        BY <2>1 DEF Of
      <3>3. QED BY <1>2, <2>2, <2>3, <2>5, <3>1, <3>2 DEF Refers
    <2>6. QED BY <1>1, <2>4, <2>5
  <1>4. ASSUME objs[p].mark = "proxy", NEW o \in Of("outpost"),
               {q \in Of("outpost") : p \in objs[q].refs} = {o}
        PROVE  cr.to = IF objs[o].name = Embedded THEN None ELSE SlugOf[objs[o].name]
    <2> DEFINE entry(q) == [name |-> objs[q].name, refs |-> objs[q].refs]
               on == {e \in outposts : p \in e.refs}
    <2>1. outposts = {entry(q) : q \in Of("outpost")}
      BY DEF Informative
    <2>2. on = {entry(o)}
      <3>1. \A e \in on : e = entry(o)
        BY <1>4, <2>1
      <3>2. entry(o) \in on
        BY <1>4, <2>1
      <3>3. QED BY <3>1, <3>2
    <2>3. PICK first : first = (CHOOSE e \in on : TRUE)
      OBVIOUS
    <2>4. first = entry(o) /\ on # {}
      BY <2>2, <2>3
    <2>5. first.name = objs[o].name
      BY <2>4
    <2>6. OutpostRef(p) = IF objs[o].name = Embedded THEN None ELSE SlugOf[objs[o].name]
      BY <2>3, <2>4, <2>5 DEF OutpostRef
    <2>7. QED BY <1>2, <1>4, <2>6
  <1>5. IdOf(p) = objs[p].name
    BY <1>1 DEF IdOf
  <1> HIDE DEF cr
  <1>6. Stands(cr, p)
    BY <1>1, <1>2, <1>3, <1>4, <1>5 DEF Stands
  <1>7. QED BY <1>6 DEF cr

LEMMA RetrieveExact ==
  ASSUME Inv, Coherent(objs), ListsFit, Knows, Filing, RetrieveProvider
  PROVE  (Knows /\ Filing)'
  <1> DEFINE here == <<"application", CrName(<<First.slug>>)>>
  <1>1. PICK new : new = [k \in {here} |-> AppCr(First)]
    OBVIOUS
  <1>2. /\ pc = "retrieve" /\ pc' = "binding" /\ objs' = objs /\ Goes("binding", new)
        /\ UNCHANGED <<read, outposts, providers, todo>>
    BY <1>1 DEF RetrieveProvider, Goes
  <1>3. PICK p \in Of("application") : First = Item(p) /\ Importable(p)
    BY <1>2, FirstIs
  <1>4. Informative
    BY <1>2, InformativeIs DEF Late
  <1>5. /\ here = PlaceOf(p) /\ First.pk = p /\ here[1] = "application"
    <2>1. First.slug = objs[p].name /\ First.pk = p
      BY <1>3 DEF Item
    <2>2. KindOf[p] = "application"
      BY DEF Of
    <2>3. QED BY <2>1, <2>2 DEF PlaceOf
  <1> HIDE DEF here
  <1>6. DOMAIN new = {here} /\ new[here] = AppCr(First)
    BY <1>1
  <1>7. new[here].run = runs
    BY <1>6 DEF AppCr, Cr
  <1>8. Stands(new[here], p)
    BY <1>3, <1>4, <1>6, AppCrStands
  <1>9. Right(new)
    BY <1>5, <1>6, <1>7, <1>8 DEF Right
  <1>10. First' = First
    BY <1>2 DEF First
  <1>11. ASSUME NEW q \in Live, HasCr(q), Listed(q)'
         PROVE  Listed(q) \/ PlaceOf(q) \in DOMAIN new
    <2>1. KindOf[q] \in Kinds
      BY CoherentIs DEF Inv
    <2>2. CASE KindOf[q] \in Plain
      BY <1>2, <2>2 DEF Listed, Plain, Before
    <2>3. CASE KindOf[q] = "application"
      <3>1. (\A x \in todo : x.pk # q) \/ First.pk = q
        BY <1>2, <1>10, <1>11, <2>3 DEF Listed
      <3>2. QED BY <1>2, <1>5, <1>6, <2>3, <3>1 DEF Listed, Late
    <2>4. CASE KindOf[q] = "binding"
      BY <1>2, <1>11, <2>4 DEF Listed, Late
    <2>5. QED BY <2>1, <2>2, <2>3, <2>4 DEF Plain
  <1>12. Filing'
    <2>1. FilesRight'
      BY <1>2, <1>9, RightStays DEF Filing
    <2>2. BesideTheirs'
      BY <1>2, <1>5, <1>6, <1>7, BesideStays DEF Filing
    <2>3. Covered'
      BY <1>2, <1>6, <1>7, <1>11, CoveredStays DEF Filing
    <2>4. QED BY <2>1, <2>2, <2>3 DEF Filing
  <1>13. Informative'
    BY <1>2, <1>4, InformativeStays
  <1>14. \A x \in todo' : \E q \in Of("application")' : x = Item(q)' /\ Importable(q)'
    <2>1. /\ Of("application")' = Of("application")
          /\ \A q : Item(q)' = Item(q) /\ (Importable(q)' <=> Importable(q))
      BY <1>2, Unmoved
    <2>2. \A x \in todo : \E q \in Of("application") : x = Item(q) /\ Importable(q)
      BY <1>2 DEF Knows, Late
    <2>3. QED BY <1>2, <2>1, <2>2
  <1>15. Knows'
    BY <1>2, <1>13, <1>14 DEF Knows, Informative
  <1>16. QED BY <1>12, <1>15

\* The access policies of an application.
LEMMA BindingCrs ==
  ASSUME Inv, Coherent(objs), Informative, NEW a \in Of("application"),
         NEW b \in Of("binding"), a \in objs[b].refs, objs[b].refs \cap Of("group") # {},
         NEW cr, cr = Cr(b, None, Resolved(objs[b].refs, read, "group"), SlugOf[objs[a].name])
  PROVE  /\ \E g \in Of("group") :
               /\ objs[b].refs \cap Of("group") = {g}
               /\ PlaceOf(b) = <<"binding", CrName(<<objs[a].name, objs[g].name>>)>>
         /\ Stands(cr, b) /\ cr.to = SlugOf[objs[a].name]
  <1>1. /\ b \in Live /\ KindOf[b] = "binding" /\ KindOf[a] = "application"
        /\ objs[b].refs \subseteq Live
        /\ \A q \in objs[b].refs : KindOf[q] \in {"application", "group"}
        /\ \A q, r \in objs[b].refs : KindOf[q] = KindOf[r] => q = r
    BY CoherentIs DEF Of, Targets, Inv
  <1>2. PICK g \in objs[b].refs : g \in Of("group")
    OBVIOUS
  <1>3. KindOf[g] = "group" /\ objs[b].refs \cap Of("group") = {g}
    BY <1>1, <1>2 DEF Of
  <1>4. \A q \in objs[b].refs : /\ KindOf[q] = "application" <=> q = a
                                /\ KindOf[q] = "group" <=> q = g
    BY <1>1, <1>2, <1>3
  <1>5. PlaceOf(b) = <<"binding", CrName(<<objs[a].name, objs[g].name>>)>>
    <2>1. (CHOOSE q \in objs[b].refs : KindOf[q] = "application") = a
      BY <1>4
    <2>2. (CHOOSE q \in objs[b].refs : KindOf[q] = "group") = g
      BY <1>2, <1>4
    <2>3. QED BY <1>1, <2>1, <2>2 DEF PlaceOf
  <1>6. Resolved(objs[b].refs, read, "group") = Refers(b)
    <2>1. Resolved(objs[b].refs, read, "group")
             = {<<KindOf[q], objs[q].name>> : q \in objs[b].refs \cap Of("group")}
      BY ResolvedIs DEF Informative
    <2>2. Meant(b) = objs[b].refs
      BY <1>1 DEF Meant
    <2>3. Linked(b) = objs[b].refs \cap Of("group")
      BY <1>1, <2>2 DEF Linked, Of
    <2>4. QED BY <2>1, <2>3 DEF Refers
  <1>7. IdOf(b) = b
    BY <1>1 DEF IdOf
  <1>8. objs[b].name = None
    BY <1>1 DEF Coherent, Live
  <1>9. cr.id = b /\ cr.name = None /\ cr.refs = Refers(b) /\ cr.to = SlugOf[objs[a].name]
    BY <1>6 DEF Cr
  <1>10. Stands(cr, b)
    BY <1>1, <1>4, <1>7, <1>8, <1>9 DEF Stands
  <1>11. QED BY <1>2, <1>3, <1>5, <1>9, <1>10

LEMMA BindingsExact ==
  ASSUME Inv, Coherent(objs), ListsFit, Knows, Filing, ListBindings
  PROVE  (Knows /\ Filing)'
  <1> DEFINE group(b) == CHOOSE g \in objs[b].refs \cap DOMAIN read.group : TRUE
             key(b) == <<"binding", CrName(<<First.slug, read.group[group(b)]>>)>>
             bound(S) == {b \in S : objs[b].refs \cap DOMAIN read.group # {}}
             cr(b) == Cr(b, None, Resolved(objs[b].refs, read, "group"), SlugOf[First.slug])
             made(S) == [k \in {key(b) : b \in bound(S)} |->
                           LET b == CHOOSE b \in bound(S) : key(b) = k IN cr(b)]
  <1>1. PICK next : next = IF todo' = {} THEN "written" ELSE "retrieve"
    OBVIOUS
  <1>2. PICK S \in PageOf(BindingsOf(First.pk), BindingsPage) : Goes(next, made(S))
    BY <1>1 DEF ListBindings
  <1>4. PICK new : new = made(S)
    OBVIOUS
  <1>5. /\ pc = "binding" /\ pc' = next /\ objs' = objs /\ Goes(next, new)
        /\ UNCHANGED <<read, outposts, providers>> /\ todo' = todo \ {First}
        /\ next \in {"written", "retrieve"} /\ (next = "written" => todo' = {})
    <2>1. Goes(next, new)
      BY <1>2, <1>4
    <2>2. pc' = next /\ objs' = objs
      BY <2>1 DEF Goes
    <2>3. pc = "binding" /\ UNCHANGED <<read, outposts, providers>> /\ todo' = todo \ {First}
      BY DEF ListBindings
    <2>4. QED BY <1>1, <2>1, <2>2, <2>3
  <1>6. PICK a \in Of("application") : First = Item(a) /\ Importable(a)
    BY <1>5, FirstIs
  <1>7. First \in todo /\ First.slug = objs[a].name /\ First.pk = a
    BY <1>5, <1>6, FirstIs DEF Item
  <1>3. S = {b \in Of("binding") : a \in objs[b].refs}
    <2>1. BindingsOf(a) \subseteq Of("binding") /\ Cardinality(BindingsOf(a)) <= BindingsPage
      BY <1>6 DEF BindingsOf, ListsFit
    <2>2. S = BindingsOf(a)
      BY <1>2, <1>7, <2>1, PageIsAll, BoundsAssumption
    <2>3. QED BY <2>2 DEF BindingsOf
  <1>8. Informative
    BY <1>5, InformativeIs DEF Late
  <1>9. ASSUME NEW b \in bound(S)
        PROVE  /\ key(b) = PlaceOf(b) /\ key(b)[1] = "binding" /\ b \in Of("binding")
               /\ Stands(cr(b), b) /\ cr(b).run = runs /\ cr(b).to = SlugOf[objs[a].name]
    <2>1. read["group"] = NamesOf(Of("group")) /\ DOMAIN read["group"] = Of("group")
          /\ \A g \in Of("group") : read["group"][g] = objs[g].name
      BY <1>8 DEF Informative, NamesOf
    <2>2. b \in Of("binding") /\ a \in objs[b].refs /\ objs[b].refs \cap Of("group") # {}
      BY <1>3, <1>7, <2>1
    <2>3. PICK c : c = cr(b)
      OBVIOUS
    <2>4. c = Cr(b, None, Resolved(objs[b].refs, read, "group"), SlugOf[objs[a].name])
      BY <1>7, <2>3
    <2>5. Stands(c, b) /\ c.to = SlugOf[objs[a].name] /\ c.run = runs
      BY <1>8, <2>2, <2>4, BindingCrs DEF Cr
    <2>6. PICK g \in Of("group") :
             /\ objs[b].refs \cap Of("group") = {g}
             /\ PlaceOf(b) = <<"binding", CrName(<<objs[a].name, objs[g].name>>)>>
      BY <1>8, <2>2, <2>4, BindingCrs
    <2>7. group(b) = g
      BY <2>1, <2>6
    <2>8. key(b) = PlaceOf(b)
      BY <1>7, <2>1, <2>6, <2>7
    <2>9. QED BY <2>2, <2>3, <2>5, <2>8
  <1>10. /\ DOMAIN new = {key(b) : b \in bound(S)}
         /\ \A k \in DOMAIN new : \E b \in bound(S) : key(b) = k /\ new[k] = cr(b)
    <2>1. DOMAIN new = {key(b) : b \in bound(S)}
      BY <1>4
    <2>2. ASSUME NEW k \in DOMAIN new
          PROVE  \E b \in bound(S) : key(b) = k /\ new[k] = cr(b)
      <3> DEFINE c == CHOOSE b \in bound(S) : key(b) = k
      <3>1. \E b \in bound(S) : key(b) = k
        BY <2>1
      <3>2. c \in bound(S) /\ key(c) = k
        BY <3>1
      <3>3. new[k] = cr(c)
        BY <1>4, <2>1
      <3>4. QED BY <3>2, <3>3
    <2>3. QED BY <2>1, <2>2
  <1>11. \A b \in Of("binding") : a \in objs[b].refs /\ objs[b].refs \cap Of("group") # {} =>
            b \in bound(S)
    <2>1. DOMAIN read["group"] = Of("group")
      BY <1>8 DEF Informative, NamesOf
    <2>2. QED BY <1>3, <1>7, <2>1
  <1> HIDE DEF group, key, bound, cr, made
  <1>12. ASSUME NEW k \in DOMAIN new
         PROVE  /\ new[k].run = runs /\ k[1] = "binding" /\ new[k].to = SlugOf[objs[a].name]
                /\ \E p \in Of(k[1]) : k = PlaceOf(p) /\ Stands(new[k], p)
    <2>1. PICK b \in bound(S) : key(b) = k /\ new[k] = cr(b)
      BY <1>10
    <2>2. QED BY <1>9, <2>1
  <1>13. PlaceOf(a) \in Latest /\ PlaceOf(a) = <<"application", <<SlugOf[objs[a].name]>>>>
    <2>1. a \in Live /\ KindOf[a] = "application"
      BY DEF Of
    <2>2. HasCr(a) /\ Listed(a)
      BY <1>5, <1>6, <1>7, <2>1 DEF HasCr, Listed, Late
    <2>3. PlaceOf(a) = <<"application", CrName(<<objs[a].name>>)>>
      BY <2>1 DEF PlaceOf
    <2>4. CrName(<<objs[a].name>>) = <<SlugOf[objs[a].name]>>
      BY DEF CrName
    <2>5. QED BY <2>1, <2>2, <2>3, <2>4 DEF Filing, Covered
  <1>14. ASSUME NEW p \in Live, HasCr(p), Listed(p)'
         PROVE  Listed(p) \/ PlaceOf(p) \in DOMAIN new
    <2>1. KindOf[p] \in Kinds
      BY CoherentIs DEF Inv
    <2>2. CASE KindOf[p] \in Plain
      BY <1>5, <2>2 DEF Listed, Plain, Before
    <2>3. CASE KindOf[p] = "application"
      <3>1. \A x \in todo' : x.pk # p
        BY <1>5, <1>14, <2>3 DEF Listed
      <3>2. (\A x \in todo : x.pk # p) \/ First.pk = p
        BY <1>5, <3>1
      <3>3. QED BY <1>5, <2>3, <3>2 DEF Listed, Late
    <2>4. CASE KindOf[p] = "binding"
      <3>1. \A x \in todo' : x.pk \notin objs[p].refs
        BY <1>5, <1>14, <2>4 DEF Listed
      <3>2. CASE a \in objs[p].refs
        <4>1. p \in Of("binding") /\ objs[p].refs \cap Of("group") # {}
          BY <1>14, <2>4 DEF HasCr, Of
        <4>2. p \in bound(S)
          BY <1>11, <3>2, <4>1
        <4>3. QED BY <1>9, <1>10, <4>2
      <3>3. CASE a \notin objs[p].refs
        <4>1. \A x \in todo : x.pk \notin objs[p].refs
          BY <1>5, <1>7, <3>1, <3>3
        <4>2. QED BY <1>5, <2>4, <4>1 DEF Listed, Late
      <3>4. QED BY <3>2, <3>3
    <2>5. QED BY <2>1, <2>2, <2>3, <2>4 DEF Plain
  <1>15. Filing'
    <2>1. FilesRight'
      BY <1>5, <1>12, RightStays DEF Filing, Right
    <2>2. BesideTheirs'
      BY <1>5, <1>12, <1>13, BesideStays DEF Filing
    <2>3. Covered'
      BY <1>5, <1>12, <1>14, CoveredStays DEF Filing
    <2>4. QED BY <2>1, <2>2, <2>3 DEF Filing
  <1>16. Informative'
    BY <1>5, <1>8, InformativeStays
  <1>17. \A x \in todo' : \E p \in Of("application")' : x = Item(p)' /\ Importable(p)'
    <2>1. /\ Of("application")' = Of("application")
          /\ \A p : Item(p)' = Item(p) /\ (Importable(p)' <=> Importable(p))
      BY <1>5, Unmoved
    <2>2. \A x \in todo : \E p \in Of("application") : x = Item(p) /\ Importable(p)
      BY <1>5 DEF Knows, Late
    <2>3. QED BY <1>5, <2>1, <2>2
  <1>18. Knows'
    BY <1>5, <1>16, <1>17 DEF Knows, Informative
  <1>19. QED BY <1>15, <1>18

LEMMA RunExact ==
  ASSUME Inv, Coherent(objs), ListsFit, Knows, Filing, RunStep
  PROVE  (Knows /\ Filing)'
  BY GroupsExact, UsersExact, FlowsExact, MappingsExact, BrandsExact, OutpostsExact,
     MappingNamesExact, ProvidersExact, ApplicationsExact, RetrieveExact, BindingsExact
  DEF RunStep

\* A run begins with nothing read and nothing written.
LEMMA BeginExact ==
  ASSUME Inv, Coherent(objs), Begin
  PROVE  (Knows /\ Filing)'
  <1>1. /\ pc' = "group" /\ objs' = objs /\ runs' = runs + 1 /\ files' = files /\ runs \in Nat
    BY BoundsAssumption DEF Begin, Inv, Typed, TypeOK
  <1>2. Latest' = {}
    <2>1. \A k \in DOMAIN files : files[k].run \in 0..runs
      BY DEF Inv, Typed
    <2>2. QED BY <1>1, <2>1 DEF Latest
  <1>3. \A kind : "group" \in Before(kind)
    BY DEF Before
  <1>4. Knows'
    BY <1>1, <1>3 DEF Knows, Late
  <1>5. \A p \in Live' : ~Listed(p)'
    BY <1>1, <1>3 DEF Listed, Late
  <1>6. FilesRight' /\ BesideTheirs'
    BY <1>2 DEF FilesRight, BesideTheirs
  <1>7. Covered'
    BY <1>5 DEF Covered
  <1>8. QED BY <1>4, <1>6, <1>7 DEF Filing

\* It stays when nothing moves.
LEMMA SameExact ==
  ASSUME Knows, Filing,
         UNCHANGED <<objs, pc, read, outposts, providers, todo, files, runs, quiet>>
  PROVE  (Knows /\ Filing)'
  <1>1. /\ Live' = Live
        /\ \A kind : Of(kind)' = Of(kind) /\ NamesOf(Of(kind))' = NamesOf(Of(kind))
        /\ \A p : /\ PlaceOf(p)' = PlaceOf(p) /\ Item(p)' = Item(p)
                  /\ (HasCr(p)' <=> HasCr(p)) /\ (Importable(p)' <=> Importable(p))
    BY Unmoved
  <1>2. Latest' = Latest /\ First' = First
    BY DEF Latest, First
  <1>3. \A k, p : Stands(files[k], p)' <=> Stands(files[k], p)
    <2>1. Of("outpost")' = Of("outpost") /\ \A p : Refers(p)' = Refers(p)
      BY RefersStay
    <2>2. SUFFICES ASSUME NEW k, NEW p PROVE Stands(files[k], p)' <=> Stands(files[k], p)
      OBVIOUS
    <2>3. QED BY <2>1, Zenon DEF Stands, IdOf
  <1>4. FilesRight' /\ BesideTheirs'
    BY <1>1, <1>2, <1>3 DEF Filing, FilesRight, BesideTheirs
  <1>5. Covered'
    BY <1>1, <1>2 DEF Filing, Covered, Listed
  <1>6. Knows'
    BY <1>1 DEF Knows
  <1>7. QED BY <1>4, <1>5, <1>6 DEF Filing

LEMMA FaithfulStays == Faithful /\ [Next]_vars => Faithful'
  <1> SUFFICES ASSUME Faithful, [Next]_vars PROVE Faithful'
    OBVIOUS
  <1>1. Inv /\ Inv' /\ Coherent(objs) /\ Coherent(objs)'
    BY NextInv, CoherentStays DEF Faithful
  <1>2. SUFFICES ASSUME Undisturbed' PROVE (Knows /\ Filing)'
    BY <1>1 DEF Faithful, Exact
  <1>3. CASE HumanStep
    <2>1. quiet' = FALSE
      BY <1>3 DEF HumanStep, HumanRenames, HumanCreates, HumanRefers, HumanDeletes, People
    <2>2. QED BY <1>2, <2>1 DEF Undisturbed
  <1>4. CASE Begin
    BY <1>1, <1>4, BeginExact
  <1>5. CASE RunStep
    <2>1. quiet' = quiet /\ objs' = objs /\ pc # "idle"
      BY <1>5 DEF RunStep, ListGroups, ListUsers, ListFlows, ListMappings, ListBrands,
                  ListOutposts, ReadMappingNames, ListProviders, ListApplications,
                  RetrieveProvider, ListBindings, Goes
    <2>2. Undisturbed
      BY <1>2, <2>1, Unmoved DEF Undisturbed
    <2>3. QED BY <1>1, <1>5, <2>2, RunExact DEF Faithful, Exact, Undisturbed
  <1>6. CASE CallFails
    BY <1>2, <1>6 DEF CallFails, Undisturbed
  <1>7. CASE UNCHANGED vars
    <2>1. UNCHANGED <<objs, pc, read, outposts, providers, todo, files, runs, quiet>>
      BY <1>7 DEF vars
    <2>2. Undisturbed /\ Knows /\ Filing
      BY <1>2, <2>1, Unmoved DEF Undisturbed, Faithful, Exact
    <2>3. QED BY <2>1, <2>2, SameExact
  <1>8. QED BY <1>3, <1>4, <1>5, <1>6, <1>7 DEF Next

\* A name designates one object of its kind.
LEMMA ByName ==
  ASSUME Inv, Coherent(objs), NEW p \in Live, NEW q \in Live
  PROVE  <<KindOf[q], objs[q].name>> \in Refers(p) <=> q \in Linked(p)
  <1>1. \A r \in Linked(p) : r \in Live /\ KindOf[r] # "binding"
    <2>1. Linked(p) \subseteq objs[p].refs
      BY MeantIs DEF Linked, Inv
    <2>2. QED BY <2>1, CoherentIs DEF Inv
  <1>2. ASSUME NEW r \in Linked(p), KindOf[q] = KindOf[r], objs[q].name = objs[r].name
        PROVE  q = r
    BY <1>1, <1>2, CoherentIs DEF Inv
  <1>3. ASSUME <<KindOf[q], objs[q].name>> \in Refers(p) PROVE q \in Linked(p)
    <2>1. PICK r \in Linked(p) : <<KindOf[q], objs[q].name>> = <<KindOf[r], objs[r].name>>
      BY <1>3 DEF Refers
    <2>2. KindOf[q] = KindOf[r] /\ objs[q].name = objs[r].name
      BY <2>1
    <2>3. QED BY <1>2, <2>2
  <1>4. QED BY <1>3 DEF Refers

\* What a CR designates is what its object refers to.
LEMMA DesignatesMeant ==
  ASSUME Faithful, Undisturbed, NEW k \in Latest, NEW p \in Of(k[1]),
         Stands(files[k], p), HasCr(p)
  PROVE  Designated(k) = Meant(p)
  <1>1. Inv /\ Coherent(objs) /\ Filing /\ p \in Live /\ KindOf[p] = k[1]
    BY DEF Faithful, Exact, Of
  <1>2. Meant(p) \subseteq Live /\ Linked(p) \subseteq Meant(p)
    BY <1>1, MeantIs, CoherentIs DEF Linked, Inv
  <1>3. files[k].refs = Refers(p)
    BY DEF Stands
  <1>4. CASE k[1] # "binding"
    <2>1. Linked(p) = Meant(p)
      BY <1>1, <1>4, MeantIs DEF Inv
    <2>2. Designated(k) = {q \in Live : <<KindOf[q], objs[q].name>> \in Refers(p)}
      BY <1>3, <1>4 DEF Designated
    <2>3. QED BY <1>1, <1>2, <2>1, <2>2, ByName
  <1>5. CASE k[1] = "binding"
    <2>1. /\ objs[p].refs \subseteq Live
          /\ \A q \in objs[p].refs : KindOf[q] \in {"application", "group"}
          /\ \A q, r \in objs[p].refs : KindOf[q] = KindOf[r] => q = r
      BY <1>1, <1>5, CoherentIs DEF Targets, Inv
    <2>2. PICK a \in objs[p].refs : KindOf[a] = "application"
      BY <1>1, <1>5, CoherentIs DEF Inv
    <2>3. a \in Of("application") /\ a \in Live /\ Alone(a)
      BY <1>1, <1>5, <2>1, <2>2 DEF HasCr, Of
    <2>4. files[k].to = SlugOf[objs[a].name]
      BY <1>1, <1>5, <2>2 DEF Stands
    <2> DEFINE place == <<"application", <<files[k].to>>>>
    <2>5. place \in Latest /\ place[1] = "application"
      BY <1>1, <1>5 DEF Filing, BesideTheirs
    <2>6. PICK b \in Of("application") : place = PlaceOf(b) /\ Stands(files[place], b)
      BY <1>1, <2>5 DEF Filing, FilesRight
    <2>7. b = a
      <3>1. KindOf[b] = "application"
        BY DEF Of
      <3>2. PlaceOf(b) = <<"application", <<SlugOf[objs[b].name]>>>>
        BY <3>1 DEF PlaceOf, CrName
      <3>3. SlugOf[objs[b].name] = SlugOf[objs[a].name]
        BY <2>4, <2>6, <3>2
      <3>4. QED BY <2>2, <2>3, <3>3 DEF Alone
    <2>8. files[place].id = objs[a].name
      BY <2>2, <2>6, <2>7 DEF Stands, IdOf
    <2>9. \A q \in Live : KindOf[q] = "application" /\ IdOf(q) = objs[a].name <=> q = a
      <3>1. \A q \in Live : KindOf[q] = "application" => IdOf(q) = objs[q].name
        BY DEF IdOf
      <3>2. \A q \in Live : KindOf[q] = "application" /\ objs[q].name = objs[a].name => q = a
        BY <1>1, <2>2, <2>3, CoherentIs DEF Inv
      <3>3. QED BY <2>2, <2>3, <3>1, <3>2
    <2> HIDE DEF place
    <2>10. Designated(k) = {q \in Live : q \in Linked(p) \/ q = a}
      <3>1. Designated(k) =
              {q \in Live : \/ <<KindOf[q], objs[q].name>> \in Refers(p)
                            \/ KindOf[q] = "application" /\ files[place].id = IdOf(q)}
        BY <1>3, <1>5 DEF Designated, place
      <3>2. \A q \in Live : <<KindOf[q], objs[q].name>> \in Refers(p) <=> q \in Linked(p)
        BY <1>1, ByName
      <3>3. QED BY <2>8, <2>9, <3>1, <3>2
    <2>11. Meant(p) = objs[p].refs
      BY <1>1, <1>5 DEF Meant
    <2>12. \A q \in objs[p].refs : q \in Linked(p) \/ q = a
      BY <2>1, <2>2, <2>11 DEF Linked
    <2>13. QED BY <1>2, <2>1, <2>3, <2>10, <2>11, <2>12
  <1>6. QED BY <1>4, <1>5

\* A group's CR names all its parents if it has one at most, and no other object's leaves
\* a reference out.
LEMMA MeantIsAll ==
  ASSUME Inv, Coherent(objs), NEW p \in Live
  PROVE  Meant(p) = Replaced(p) <=> (KindOf[p] = "group" => Cardinality(objs[p].refs) <= 1)
  <1>1. CASE KindOf[p] # "group"
    BY <1>1 DEF Replaced
  <1>2. CASE KindOf[p] = "group"
    <2> DEFINE refs == objs[p].refs
    <2>1. IsFiniteSet(refs)
      <3>1. refs \subseteq Pks
        BY CoherentIs DEF Inv, Live
      <3>2. QED BY <3>1, FS_Subset, ObjectsAssumption
    <2>2. Meant(p) = Parent(p) /\ Replaced(p) = refs
      BY <1>2 DEF Meant, Replaced
    <2>3. CASE refs = {}
      <3>1. Cardinality(refs) = 0
        BY <2>1, <2>3, FS_EmptySet
      <3>2. QED BY <1>2, <2>2, <2>3, <3>1 DEF Parent
    <2>4. CASE refs # {}
      <3>1. PICK q \in refs : Parent(p) = {q}
        BY <2>4 DEF Parent
      <3>2. Cardinality(refs) \in Nat /\ Cardinality(refs) # 0
        BY <2>1, <2>4, FS_CardinalityType, FS_EmptySet
      <3>3. Cardinality(refs) = 1 <=> \E x : refs = {x}
        BY <2>1, FS_Singleton
      <3>4. Cardinality(refs) <= 1 <=> refs = {q}
        BY <3>1, <3>2, <3>3
      <3>5. QED BY <1>2, <2>2, <3>1, <3>4
    <2>5. QED BY <2>3, <2>4
  <1>3. QED BY <1>1, <1>2

\* A proxied application's CR names the outpost it is on, if it is on one alone whose name
\* a CR can have; it names no other set of outposts.
LEMMA OutpostNamed ==
  ASSUME Inv, Coherent(objs), NEW k \in Latest, NEW p \in Live, Stands(files[k], p), Proxied(p)
  PROVE  {objs[o].name : o \in Serving(p)} =
            {IF files[k].to = None THEN Embedded ELSE files[k].to}
         <=> \E o \in Of("outpost") :
                Serving(p) = {o} /\ objs[o].name \in {SlugOf[objs[o].name], Embedded}
  <1> DEFINE named == IF files[k].to = None THEN Embedded ELSE files[k].to
  <1>1. ASSUME NEW o \in Of("outpost"), Serving(p) = {o}
        PROVE  objs[o].name = named <=> objs[o].name \in {SlugOf[objs[o].name], Embedded}
    <2>1. files[k].to = IF objs[o].name = Embedded THEN None ELSE SlugOf[objs[o].name]
      BY <1>1 DEF Stands, Serving, Proxied
    <2>2. objs[o].name \in Names
      BY DEF Of, Inv, Typed
    <2>3. SlugOf[objs[o].name] # None
      BY <2>2, ObjectsAssumption DEF Slugs
    <2>4. QED BY <2>1, <2>2, <2>3
  <1>2. ASSUME NEW o \in Of("outpost"), Serving(p) = {o}, objs[o].name = named
        PROVE  {objs[q].name : q \in Serving(p)} = {named}
    BY <1>2
  <1>3. ASSUME {objs[q].name : q \in Serving(p)} = {named}
        PROVE  \E o \in Of("outpost") : Serving(p) = {o} /\ objs[o].name = named
    <2>1. PICK o \in Serving(p) : objs[o].name = named
      BY <1>3
    <2>2. \A q \in Serving(p) : objs[q].name = objs[o].name
      BY <1>3, <2>1
    <2>3. \A q \in Serving(p) : q \in Live /\ KindOf[q] = "outpost"
      BY DEF Serving, Of
    <2>4. \A q \in Serving(p) : q = o
      BY <2>1, <2>2, <2>3, CoherentIs DEF Inv
    <2>5. QED BY <2>1, <2>4 DEF Serving
  <1> HIDE DEF named
  <1>4. {objs[q].name : q \in Serving(p)} = {named} <=>
           \E o \in Of("outpost") : Serving(p) = {o} /\ objs[o].name = named
    BY <1>2, <1>3
  <1>5. QED BY <1>1, <1>4 DEF named

\* If nobody changed Authentik during a run, and every list fitted in its page, each CR of
\* the run stands for one object and says of its references what the CRDs can say, and
\* every object that can have a CR has one, or shares its place with one that has, whatever
\* earlier runs left and wherever they ended.  Adopting a CR leaves its object as it is
\* exactly when the CRDs have room for its references.
THEOREM WhatIsThere == Spec => []AsListed
  <1>1. Init => Faithful
    <2>1. Init => pc = "idle"
      BY DEF Init
    <2>2. QED BY <2>1, InitInv, InitCoherent DEF Faithful, Exact, Undisturbed
  <1>2. Faithful /\ [Next]_vars => Faithful'
    BY FaithfulStays
  <1>3. ASSUME Faithful PROVE AsListed
    <2>1. SUFFICES ASSUME pc = "written", quiet, ListsFit
                   PROVE  /\ \A k \in Latest : \E p \in Of(k[1]) :
                                /\ files[k].id = IdOf(p) /\ files[k].name = objs[p].name
                                /\ HasCr(p) => /\ Designated(k) = Meant(p)
                                               /\ LeavesAlone(k, p) <=> Expressible(p)
                          /\ \A p \in Live : HasCr(p) => PlaceOf(p) \in Latest
      BY DEF AsListed
    <2>2. Undisturbed /\ Knows /\ Filing
      BY <1>3, <2>1 DEF Undisturbed, Faithful, Exact
    <2>3. Inv /\ Coherent(objs) /\ todo = {}
      BY <1>3, <2>1, <2>2 DEF Faithful, Knows
    <2>4. ASSUME NEW k \in Latest
          PROVE  \E p \in Of(k[1]) :
                    /\ files[k].id = IdOf(p) /\ files[k].name = objs[p].name
                    /\ HasCr(p) => /\ Designated(k) = Meant(p)
                                   /\ LeavesAlone(k, p) <=> Expressible(p)
      <3>1. PICK p \in Of(k[1]) : Stands(files[k], p)
        BY <2>2 DEF Filing, FilesRight
      <3>2. p \in Live
        BY DEF Of
      <3>3. HasCr(p) => Designated(k) = Meant(p)
        BY <1>3, <2>2, <3>1, DesignatesMeant
      <3>4. ASSUME HasCr(p) PROVE LeavesAlone(k, p) <=> Expressible(p)
        <4>1. Designated(k) = Replaced(p)
                 <=> (KindOf[p] = "group" => Cardinality(objs[p].refs) <= 1)
          BY <2>3, <3>2, <3>3, <3>4, MeantIsAll
        <4>2. QED BY <2>3, <3>1, <3>2, <4>1, OutpostNamed DEF LeavesAlone, Expressible
      <3>5. files[k].id = IdOf(p) /\ files[k].name = objs[p].name
        BY <3>1 DEF Stands
      <3>6. QED BY <3>3, <3>4, <3>5
    <2>5. ASSUME NEW p \in Live, HasCr(p) PROVE PlaceOf(p) \in Latest
      <3>1. KindOf[p] \in Kinds
        BY <2>3, CoherentIs DEF Inv
      <3>2. Listed(p)
        BY <2>1, <2>3, <3>1 DEF Listed, Late, Before, Kinds
      <3>3. QED BY <2>2, <2>5, <3>2 DEF Filing, Covered
    <2>6. QED BY <2>4, <2>5
  <1>4. QED BY <1>1, <1>2, <1>3, PTL DEF Spec
=============================================================================
