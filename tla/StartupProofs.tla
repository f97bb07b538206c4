---------------------------- MODULE StartupProofs ----------------------------
(***************************************************************************)
(* Proofs about the start of the machine, for any numbers of contexts and  *)
(* pages and any files: an accepted memory.ini is what the MMU maps, and   *)
(* the menu offers what can be loaded.                                     *)
(***************************************************************************)
EXTENDS Startup, FiniteSetTheorems, SequenceTheorems, WellFoundedInduction, TLAPS

-----------------------------------------------------------------------------
\* What holds of 0, and of n + 1 when of n, holds of every natural number.
LEMMA SetInduction ==
  ASSUME NEW S, 0 \in S, \A n \in Nat : n \in S => n + 1 \in S
  PROVE  Nat \subseteq S
<1> SUFFICES ASSUME Nat \ S # {} PROVE FALSE
  OBVIOUS
<1> DEFINE T == Nat \ S
           R == OpToRel(<, Nat)
<1>1. IsWellFoundedOn(R, Nat)
  BY NatLessThanWellFounded
<1>2. \A x, y \in Nat : <<x, y>> \in R <=> x < y
  BY DEF OpToRel
<1>3. T \subseteq Nat /\ T # {}
  OBVIOUS
<1> HIDE DEF R, T
<1>4. PICK x \in T : \A y \in T : ~(<<y, x>> \in R)
  BY <1>1, <1>3, WFMin
<1>5. x \in Nat /\ x # 0
  BY <1>3 DEF T
<1>6. x - 1 \in Nat /\ x - 1 < x /\ (x - 1) + 1 = x
  BY <1>5
<1>7. x - 1 \notin T
  BY <1>2, <1>4, <1>5, <1>6
<1>8. x - 1 \in S
  BY <1>6, <1>7 DEF T
<1>9. x \in S
  BY <1>6, <1>8
<1> QED
  BY <1>9 DEF T

\* The first of some places is one of them.
LEMMA FirstIs ==
  ASSUME NEW S, S \subseteq Nat \ {0}
  PROVE  /\ S = {} => First(S) = 0
         /\ S # {} => First(S) \in S
         /\ First(S) # 0 => First(S) \in S
<1>1. S = {} => First(S) = 0
  BY DEF First
<1>2. ASSUME S # {} PROVE First(S) \in S
  <2> DEFINE R == OpToRel(<, Nat)
  <2>1. IsWellFoundedOn(R, Nat)
    BY NatLessThanWellFounded
  <2>2. \A x, y \in Nat : <<x, y>> \in R <=> x < y
    BY DEF OpToRel
  <2>3. S \subseteq Nat
    OBVIOUS
  <2> HIDE DEF R
  <2>4. PICK r \in S : \A q \in S : ~(<<q, r>> \in R)
    BY <1>2, <2>1, <2>3, WFMin
  <2>5. \A q \in S : r <= q
    <3> TAKE q \in S
    <3>1. r \in Nat /\ q \in Nat /\ ~(q < r)
      BY <2>2, <2>3, <2>4
    <3> QED
      BY <3>1
  <2>6. (CHOOSE i \in S : \A j \in S : i <= j) \in S
    BY <2>5
  <2> QED
    BY <1>2, <2>6 DEF First
<1> QED
  BY <1>1, <1>2

\* Places in a table count from 1, and hold what the table is of.
LEMMA Positive ==
  ASSUME NEW S, NEW s \in Seq(S)
  PROVE  /\ DOMAIN s \subseteq Nat \ {0}
         /\ \A i \in DOMAIN s : s[i] \in S
<1>1. Len(s) \in Nat /\ DOMAIN s = 1 .. Len(s)
  BY LenProperties
<1>2. \A i \in DOMAIN s : s[i] \in S
  BY <1>1, ElementOfSeq
<1> QED
  BY <1>1, <1>2

-----------------------------------------------------------------------------
\* What memory.ini has been read into.
Regions == {l.region : l \in Layouts}

LayoutRecords ==
  [model : {l.model : l \in Layouts}, name : {l.layout : l \in Layouts}, regions : Seq(Regions)]

ConfigTypes(config) ==
  /\ DOMAIN config = {"version", "active_model", "boot_context", "models", "layouts", "contexts"}
  /\ config.models \in Seq(Models)
  /\ config.layouts \in Seq(LayoutRecords)
  /\ config.contexts \in Seq(Bindings)

MemoryTypes ==
  /\ ConfigTypes(memoryConfig)
  /\ memoryPhase \in {"reading", "read", "set up"}
  /\ valid \in BOOLEAN

Untouched == mmu = [c \in 0 .. NUM_CONTEXTS - 1 |-> gDefaultMMU]

Judged == valid => memoryPhase # "reading" /\ validateConfig

MemoryInv ==
  /\ MemoryTypes
  /\ memoryPhase # "set up" => Untouched
  /\ Judged
  /\ MappedAsDescribed

\* A place found is one in its table.
LEMMA Finds ==
  ASSUME MemoryTypes
  PROVE  /\ \A name : findModel(name) # 0 => /\ findModel(name) \in DOMAIN memoryConfig.models
                                             /\ memoryConfig.models[findModel(name)].name = name
         /\ \A model, name : findLayout(model, name) # 0
              => findLayout(model, name) \in DOMAIN memoryConfig.layouts
         /\ \A model, ctx : resolveLayoutForContext(model, ctx) # 0
              => resolveLayoutForContext(model, ctx) \in DOMAIN memoryConfig.layouts
<1>1. /\ DOMAIN memoryConfig.models \subseteq Nat \ {0}
      /\ DOMAIN memoryConfig.layouts \subseteq Nat \ {0}
  BY Positive DEF MemoryTypes, ConfigTypes
<1>2. ASSUME NEW name, findModel(name) # 0
      PROVE  /\ findModel(name) \in DOMAIN memoryConfig.models
             /\ memoryConfig.models[findModel(name)].name = name
  <2> DEFINE S == {i \in DOMAIN memoryConfig.models : memoryConfig.models[i].name = name}
  <2>1. S \subseteq Nat \ {0} /\ findModel(name) = First(S)
    BY <1>1 DEF findModel
  <2>2. First(S) \in S
    <3> HIDE DEF S
    <3> QED
      BY <1>2, <2>1, FirstIs
  <2> QED
    BY <2>1, <2>2
<1>3. ASSUME NEW model, NEW name, findLayout(model, name) # 0
      PROVE  findLayout(model, name) \in DOMAIN memoryConfig.layouts
  <2> DEFINE S == {i \in DOMAIN memoryConfig.layouts :
                     memoryConfig.layouts[i].model = model /\ memoryConfig.layouts[i].name = name}
  <2>1. S \subseteq Nat \ {0} /\ findLayout(model, name) = First(S)
    BY <1>1 DEF findLayout
  <2>2. First(S) \in S
    <3> HIDE DEF S
    <3> QED
      BY <1>3, <2>1, FirstIs
  <2> QED
    BY <2>1, <2>2
<1> QED
  BY <1>2, <1>3 DEF resolveLayoutForContext

\* The sections of the file keep its types.
LEMMA SystemTypes ==
  ASSUME ConfigTypes(memoryConfig), NEW s \in Systems
  PROVE  ConfigTypes(Overwritten(memoryConfig, s))
  BY MemoryAssumption DEF ConfigTypes, Overwritten

LEMMA ModelTypes ==
  ASSUME ConfigTypes(memoryConfig), NEW m \in Models
  PROVE  ConfigTypes([memoryConfig EXCEPT !.models = Append(@, m)])
<1>1. Append(memoryConfig.models, m) \in Seq(Models)
  BY AppendProperties DEF ConfigTypes
<1> QED
  BY <1>1 DEF ConfigTypes

LEMMA BindingTypes ==
  ASSUME ConfigTypes(memoryConfig), NEW b \in Bindings
  PROVE  ConfigTypes([memoryConfig EXCEPT !.contexts = Append(@, b)])
<1>1. Append(memoryConfig.contexts, b) \in Seq(Bindings)
  BY AppendProperties DEF ConfigTypes
<1> QED
  BY <1>1 DEF ConfigTypes

LEMMA NewLayoutTypes ==
  ASSUME ConfigTypes(memoryConfig), NEW l \in Layouts
  PROVE  ConfigTypes([memoryConfig EXCEPT !.layouts =
           Append(@, [model |-> l.model, name |-> l.layout, regions |-> <<l.region>>])])
<1> DEFINE new == [model |-> l.model, name |-> l.layout, regions |-> <<l.region>>]
<1>1. <<l.region>> \in Seq(Regions)
  BY DEF Regions
<1>2. new \in LayoutRecords
  BY <1>1 DEF LayoutRecords
<1> HIDE DEF new
<1>3. Append(memoryConfig.layouts, new) \in Seq(LayoutRecords)
  BY <1>2, AppendProperties DEF ConfigTypes
<1>4. ConfigTypes([memoryConfig EXCEPT !.layouts = Append(@, new)])
  BY <1>3 DEF ConfigTypes
<1> QED
  BY <1>4 DEF new

LEMMA RegionTypes ==
  ASSUME ConfigTypes(memoryConfig), NEW l \in Layouts, NEW i \in DOMAIN memoryConfig.layouts
  PROVE  ConfigTypes([memoryConfig EXCEPT !.layouts[i].regions = Append(@, l.region)])
<1> DEFINE old == memoryConfig.layouts[i]
           new == [old EXCEPT !.regions = Append(@, l.region)]
           layouts == [memoryConfig.layouts EXCEPT ![i] = new]
<1>1. old \in LayoutRecords
  BY ElementOfSeq DEF ConfigTypes
<1>2. Append(old.regions, l.region) \in Seq(Regions)
  BY <1>1, AppendProperties DEF LayoutRecords, Regions
<1>3. new \in LayoutRecords
  BY <1>1, <1>2 DEF LayoutRecords
<1>4. layouts \in Seq(LayoutRecords)
  <2> HIDE DEF new
  <2> QED
    BY <1>3, ExceptSeq DEF ConfigTypes
<1>5. [memoryConfig EXCEPT !.layouts[i].regions = Append(@, l.region)]
        = [memoryConfig EXCEPT !.layouts = layouts]
  BY DEF ConfigTypes
<1> HIDE DEF layouts
<1> QED
  BY <1>4, <1>5 DEF ConfigTypes

\* A section is either taken into the table or the end of the reading.
LEMMA SectionKeeps ==
  ASSUME MemoryInv, NEW ok, NEW config, Section(ok, config), ok => ConfigTypes(config)
  PROVE  MemoryInv'
<1>1. memoryPhase = "reading" /\ ~valid /\ valid' = valid /\ mmu' = mmu
  BY DEF MemoryInv, Judged, Section, MemoryTypes
<1>2. \/ ok /\ memoryConfig' = config /\ memoryPhase' = memoryPhase
      \/ memoryPhase' = "read" /\ memoryConfig' = memoryConfig
  BY DEF Section
<1>3. MemoryTypes'
  BY <1>1, <1>2 DEF MemoryInv, MemoryTypes
<1>4. memoryPhase' # "set up" /\ Untouched'
  BY <1>1, <1>2 DEF MemoryInv, Untouched
<1>5. Judged' /\ MappedAsDescribed'
  BY <1>1, <1>4 DEF Judged, MappedAsDescribed
<1> QED
  BY <1>3, <1>4, <1>5 DEF MemoryInv

\* The judgement is about the tables and nothing else.
LEMMA SameFinds ==
  ASSUME memoryConfig' = memoryConfig
  PROVE  /\ \A name : findModel(name)' = findModel(name)
         /\ \A model, ctx : resolveLayoutForContext(model, ctx)' = resolveLayoutForContext(model, ctx)
<1>1. \A name : findModel(name)' = findModel(name)
  BY DEF findModel
<1>2. \A model, name : findLayout(model, name)' = findLayout(model, name)
  BY DEF findLayout
<1>3. \A model, ctx : findContextBinding(model, ctx)' = findContextBinding(model, ctx)
  BY DEF findContextBinding
<1>4. \A model, ctx : resolveLayoutForContext(model, ctx)' = resolveLayoutForContext(model, ctx)
  BY <1>2, <1>3 DEF resolveLayoutForContext
<1> QED
  BY <1>1, <1>4

LEMMA SameJudgement ==
  ASSUME memoryConfig' = memoryConfig
  PROVE  validateConfig' = validateConfig
  BY SameFinds DEF validateConfig

LEMMA EndKeeps ==
  ASSUME MemoryInv, EndOfMemoryIni
  PROVE  MemoryInv'
<1>1. /\ memoryPhase = "reading" /\ memoryPhase' = "read" /\ valid' = validateConfig
      /\ memoryConfig' = memoryConfig /\ mmu' = mmu
  BY DEF EndOfMemoryIni
<1>2. MemoryTypes'
  BY <1>1 DEF MemoryInv, MemoryTypes, validateConfig
<1>3. memoryPhase' # "set up" /\ Untouched'
  BY <1>1 DEF MemoryInv, Untouched
<1>4. validateConfig' = validateConfig
  BY <1>1, SameJudgement
<1>5. Judged' /\ MappedAsDescribed'
  BY <1>1, <1>3, <1>4 DEF Judged, MappedAsDescribed
<1> QED
  BY <1>2, <1>3, <1>5 DEF MemoryInv

LEMMA ReadingKeeps ==
  ASSUME MemoryInv,
         \/ \E s \in Systems : SystemSection(s)
         \/ \E m \in Models : ModelSection(m)
         \/ \E l \in Layouts : LayoutSection(l)
         \/ \E b \in Bindings : ContextSection(b)
         \/ WrongLine
         \/ EndOfMemoryIni
  PROVE  MemoryInv'
<1>1. ConfigTypes(memoryConfig) /\ MemoryTypes
  BY DEF MemoryInv, MemoryTypes
<1>2. ASSUME NEW s \in Systems, SystemSection(s) PROVE MemoryInv'
  BY <1>1, <1>2, SystemTypes, SectionKeeps DEF SystemSection
<1>3. ASSUME NEW m \in Models, ModelSection(m) PROVE MemoryInv'
  BY <1>1, <1>3, ModelTypes, SectionKeeps DEF ModelSection
<1>4. ASSUME NEW l \in Layouts, LayoutSection(l) PROVE MemoryInv'
  <2> DEFINE i == findLayout(l.model, l.layout)
             a == [memoryConfig EXCEPT !.layouts =
                     Append(@, [model |-> l.model, name |-> l.layout, regions |-> <<l.region>>])]
             b == [memoryConfig EXCEPT !.layouts[i].regions = Append(@, l.region)]
  <2>1. i = 0 => \E ok : Section(ok, a)
    BY <1>4 DEF LayoutSection
  <2>2. i # 0 => \E ok : Section(ok, b)
    BY <1>4 DEF LayoutSection
  <2>3. ConfigTypes(a)
    BY <1>1, NewLayoutTypes
  <2>4. i # 0 => ConfigTypes(b)
    BY <1>1, Finds, RegionTypes
  <2> HIDE DEF i, a, b
  <2> QED
    BY <2>1, <2>2, <2>3, <2>4, SectionKeeps
<1>5. ASSUME NEW b \in Bindings, ContextSection(b) PROVE MemoryInv'
  BY <1>1, <1>5, BindingTypes, SectionKeeps DEF ContextSection
<1>6. WrongLine => MemoryInv'
  BY <1>1, SectionKeeps DEF WrongLine
<1> QED
  BY <1>2, <1>3, <1>4, <1>5, <1>6, EndKeeps

-----------------------------------------------------------------------------
\* The slots of an accepted model: each is in one region of the layout of its
\* context.
Rows == 0 .. memoryConfig.models[findModel(memoryConfig.active_model)].contexts - 1

LayoutOf(c) == memoryConfig.layouts[resolveLayoutForContext(memoryConfig.active_model, c)]

Sound(regions) ==
  /\ regions \in Seq(Regions)
  /\ \A i \in DOMAIN regions : /\ regions[i].start + regions[i].pages <= NUM_CONTEXT_PAGES
                               /\ regions[i].pages # 0
  /\ \A s \in Slots : \E i \in DOMAIN regions : Covers(regions[i], s)
  /\ \A i, j \in DOMAIN regions : \A s \in Slots :
       Covers(regions[i], s) /\ Covers(regions[j], s) => i = j

LEMMA Accepts ==
  ASSUME MemoryTypes, validateConfig
  PROVE  /\ findModel(memoryConfig.active_model) # 0
         /\ memoryConfig.models[findModel(memoryConfig.active_model)].name = memoryConfig.active_model
         /\ memoryConfig.models[findModel(memoryConfig.active_model)].contexts \in 1 .. MAX_MEMORY_CONTEXTS
         /\ \A c \in Rows : /\ resolveLayoutForContext(memoryConfig.active_model, c) # 0
                            /\ Sound(LayoutOf(c).regions)
<1> DEFINE m == findModel(memoryConfig.active_model)
<1>1. /\ m # 0 /\ m \in DOMAIN memoryConfig.models
      /\ memoryConfig.models[m].name = memoryConfig.active_model
  BY Finds DEF validateConfig
<1>2. memoryConfig.models[m].contexts \in 1 .. MAX_MEMORY_CONTEXTS
  BY <1>1 DEF validateConfig, Range
<1>3. ASSUME NEW c \in Rows
      PROVE  /\ resolveLayoutForContext(memoryConfig.active_model, c) # 0
             /\ Sound(LayoutOf(c).regions)
  <2> DEFINE i == resolveLayoutForContext(memoryConfig.active_model, c)
             layout == memoryConfig.layouts[i]
             regions == layout.regions
  <2>1. i # 0 /\ i \in DOMAIN memoryConfig.layouts
    BY <1>3, Finds DEF validateConfig, Rows
  <2>2. layout \in LayoutRecords
    BY <2>1, Positive DEF MemoryTypes, ConfigTypes
  <2>3. regions \in Seq(Regions)
    BY <2>2 DEF LayoutRecords
  <2>4. /\ \A r \in Range(regions) : isValidRegionRange(r)
        /\ ~layoutHasOverlaps(layout) /\ layoutIsComplete(layout)
    BY <2>1 DEF validateConfig, Range
  <2> HIDE DEF layout
  <2>5. \A j \in DOMAIN regions : regions[j].start + regions[j].pages <= NUM_CONTEXT_PAGES
                                  /\ regions[j].pages # 0
    BY <2>4 DEF Range, isValidRegionRange
  <2>6. \A s \in Slots : \E j \in DOMAIN regions : Covers(regions[j], s)
    BY <2>4 DEF Range, layoutIsComplete
  <2>7. ASSUME NEW j \in DOMAIN regions, NEW k \in DOMAIN regions, NEW s \in Slots,
               Covers(regions[j], s), Covers(regions[k], s)
        PROVE  j = k
    <3>1. j \in Nat /\ k \in Nat
      BY <2>3, Positive
    <3>2. ~(j < k) /\ ~(k < j)
      BY <2>4, <2>7 DEF layoutHasOverlaps
    <3> QED
      BY <3>1, <3>2
  <2>8. Sound(regions)
    BY <2>3, <2>5, <2>6, <2>7 DEF Sound
  <2> QED
    BY <2>1, <2>8 DEF LayoutOf, layout
<1> QED
  BY <1>1, <1>2, <1>3

\* Two slots of two contexts have two places in phys_map.
LEMMA Multiplied ==
  ASSUME NEW n \in Nat, NEW c \in Nat, NEW d \in Nat, c < d
  PROVE  c * n + n <= d * n
<1>1. PICK e \in Nat : d = c + 1 + e
  <2>1. d - (c + 1) \in Nat /\ d = c + 1 + (d - (c + 1))
    OBVIOUS
  <2> QED
    BY <2>1
<1>2. d * n = c * n + n + e * n
  BY <1>1
<1>3. e * n \in Nat /\ c * n \in Nat
  OBVIOUS
<1> QED
  BY <1>2, <1>3

LEMMA IndexIs ==
  ASSUME NEW c \in Nat, NEW d \in Nat, NEW s \in Slots, NEW t \in Slots
  PROVE  /\ Index(c, s) = Index(d, t) => c = d /\ s = t
         /\ c < MAX_MEMORY_CONTEXTS
              => Index(c, s) \in 0 .. MAX_MEMORY_CONTEXTS * NUM_CONTEXT_PAGES - 1
<1> DEFINE N == NUM_CONTEXT_PAGES
<1>1. N \in Nat /\ s \in 0 .. N - 1 /\ t \in 0 .. N - 1 /\ MAX_MEMORY_CONTEXTS \in Nat
  BY MemoryAssumption DEF Slots
<1>2. c * N \in Nat /\ d * N \in Nat /\ MAX_MEMORY_CONTEXTS * N \in Nat
  BY <1>1
<1>3. /\ c < d => c * N + N <= d * N
      /\ d < c => d * N + N <= c * N
      /\ c < MAX_MEMORY_CONTEXTS => c * N + N <= MAX_MEMORY_CONTEXTS * N
  BY <1>1, Multiplied
<1>4. Index(c, s) = c * N + s /\ Index(d, t) = d * N + t
  BY DEF Index
<1> HIDE DEF N
<1>5. ASSUME Index(c, s) = Index(d, t) PROVE c = d /\ s = t
  <2>1. ~(c < d) /\ ~(d < c)
    BY <1>1, <1>2, <1>3, <1>4, <1>5
  <2>2. c = d
    BY <2>1
  <2> QED
    BY <1>1, <1>2, <1>4, <1>5, <2>2
<1>6. c < MAX_MEMORY_CONTEXTS => Index(c, s) \in 0 .. MAX_MEMORY_CONTEXTS * N - 1
  BY <1>1, <1>2, <1>3, <1>4
<1> QED
  BY <1>5, <1>6 DEF N

-----------------------------------------------------------------------------
\* The pieces of memory of a model, and what is known of the allocation when
\* the slots of A have been looked at: as many pages are given out as there
\* are pieces, and one page for one piece; or there are too many pieces.
Id(a) == Identity(a[1], a[2])
Key(a) == <<Region(a[1], a[2]).name, a[2] - Region(a[1], a[2]).start>>
Common(a) == Region(a[1], a[2]).shared
Place(a) == Index(a[1], a[2])

Pieces(A) == {Id(a) : a \in A}

Given(st, A) ==
  /\ st.next \in 0 .. NUM_TOTAL_PAGES
  /\ DOMAIN st.phys_map = 0 .. MAX_MEMORY_CONTEXTS * NUM_CONTEXT_PAGES - 1
  /\ \A a \in A : st.phys_map[Place(a)] \in 0 .. st.next - 1
  /\ \A a, b \in A : st.phys_map[Place(a)] = st.phys_map[Place(b)] <=> Id(a) = Id(b)
  /\ \A n \in 0 .. st.next - 1 : \E a \in A : st.phys_map[Place(a)] = n
  /\ \A a \in A : Common(a) => [key |-> Key(a), phys |-> st.phys_map[Place(a)]] \in st.shared_pages
  /\ \A x \in st.shared_pages :
       \E a \in A : Common(a) /\ x = [key |-> Key(a), phys |-> st.phys_map[Place(a)]]

Filled(st, A) ==
  /\ "ok" \in DOMAIN st /\ st.ok \in BOOLEAN
  /\ st.ok => Given(st, A)
  /\ ~st.ok => Cardinality(Pieces(ModelSlots)) > NUM_TOTAL_PAGES

\* What is used of an accepted configuration.
Good ==
  /\ MemoryTypes
  /\ Rows \subseteq 0 .. MAX_MEMORY_CONTEXTS - 1
  /\ \A c \in Rows : Sound(LayoutOf(c).regions)
  /\ IsFiniteSet(Pieces(ModelSlots))

LEMMA RowsAreNatural ==
  ASSUME Good, NEW r \in Rows
  PROVE  r \in Nat
<1>1. r \in 0 .. MAX_MEMORY_CONTEXTS - 1
  BY DEF Good
<1> QED
  BY <1>1, MemoryAssumption

LEMMA AcceptedGood ==
  ASSUME MemoryTypes, validateConfig
  PROVE  Good
<1> DEFINE n == memoryConfig.models[findModel(memoryConfig.active_model)].contexts
<1>1. n \in 1 .. MAX_MEMORY_CONTEXTS /\ \A c \in Rows : Sound(LayoutOf(c).regions)
  BY Accepts
<1>2. Rows \subseteq 0 .. MAX_MEMORY_CONTEXTS - 1
  <2>1. Rows = 0 .. n - 1 /\ MAX_MEMORY_CONTEXTS \in Nat
    BY MemoryAssumption DEF Rows
  <2> HIDE DEF n
  <2> QED
    BY <1>1, <2>1
<1>3. ModelSlots = Rows \X Slots
  BY DEF ModelSlots, Rows
<1>4. IsFiniteSet(Rows) /\ IsFiniteSet(Slots)
  <2>1. IsFiniteSet(0 .. n - 1) /\ IsFiniteSet(0 .. NUM_CONTEXT_PAGES - 1)
    BY <1>1, MemoryAssumption, FS_Interval
  <2> QED
    BY <2>1 DEF Rows, Slots
<1>5. IsFiniteSet(ModelSlots)
  BY <1>3, <1>4, FS_Product
<1>6. IsFiniteSet(Pieces(ModelSlots))
  <2> DEFINE f == [a \in ModelSlots |-> Id(a)]
  <2>1. f \in Surjection(ModelSlots, Pieces(ModelSlots))
    BY DEF Surjection, Pieces
  <2> QED
    BY <1>5, <2>1, FS_Surjection
<1> QED
  BY <1>1, <1>2, <1>6 DEF Good

\* The region that covers a slot is the slot's region.
LEMMA RegionIs ==
  ASSUME Good, NEW c \in Rows, NEW i \in DOMAIN LayoutOf(c).regions, NEW s \in Slots,
         Covers(LayoutOf(c).regions[i], s)
  PROVE  /\ Region(c, s) = LayoutOf(c).regions[i]
         /\ RegionAt(LayoutOf(c), s) = i
<1> DEFINE regions == LayoutOf(c).regions
           fit == {j \in DOMAIN regions : Covers(regions[j], s)}
<1>1. \A j \in DOMAIN regions : Covers(regions[j], s) => j = i
  BY DEF Good, Sound
<1>2. Region(c, s) = CHOOSE r \in Range(regions) : Covers(r, s)
  BY DEF Region, LayoutOf
<1>3. /\ regions[i] \in Range(regions)
      /\ \A r \in Range(regions) : Covers(r, s) => r = regions[i]
  BY <1>1 DEF Range
<1>4. Region(c, s) = regions[i]
  BY <1>2, <1>3
<1>5. RegionAt(LayoutOf(c), s) = First(fit)
  BY DEF RegionAt
<1>6. fit = {i}
  BY <1>1
<1>7. fit \subseteq Nat \ {0}
  BY <1>6, Positive DEF Good, Sound
<1> HIDE DEF fit
<1>8. First(fit) \in fit
  BY <1>6, <1>7, FirstIs
<1> QED
  BY <1>4, <1>5, <1>6, <1>8

LEMMA Triples ==
  ASSUME NEW x1, NEW x2, NEW x3, NEW y1, NEW y2, NEW y3, <<x1, x2, x3>> = <<y1, y2, y3>>
  PROVE  x1 = y1 /\ x2 = y2 /\ x3 = y3
  OBVIOUS

\* When two slots are one piece.
LEMMA Identities ==
  ASSUME NEW a, NEW b, Common(a) \in BOOLEAN, Common(b) \in BOOLEAN,
         a[1] \in Nat, b[1] \in Nat
  PROVE  /\ Common(a) /\ Common(b) => (Key(a) = Key(b) <=> Id(a) = Id(b))
         /\ ~Common(a) /\ ~Common(b) => (Id(a) = Id(b) => a[1] = b[1] /\ a[2] = b[2])
         /\ Common(a) /\ ~Common(b) => Id(a) # Id(b)
<1> DEFINE na == Region(a[1], a[2]).name
           nb == Region(b[1], b[2]).name
           oa == a[2] - Region(a[1], a[2]).start
           ob == b[2] - Region(b[1], b[2]).start
<1>1. /\ Common(a) => Id(a) = <<na, -1, oa>>
      /\ ~Common(a) => Id(a) = <<"", a[1], a[2]>>
      /\ Common(b) => Id(b) = <<nb, -1, ob>>
      /\ ~Common(b) => Id(b) = <<"", b[1], b[2]>>
  BY DEF Common, Id, Identity
<1>2. Key(a) = <<na, oa>> /\ Key(b) = <<nb, ob>>
  BY DEF Key
<1> HIDE DEF na, nb, oa, ob
<1>3. ASSUME Common(a), Common(b) PROVE Key(a) = Key(b) <=> Id(a) = Id(b)
  BY <1>1, <1>2, <1>3
<1>4. ASSUME ~Common(a), ~Common(b), Id(a) = Id(b) PROVE a[1] = b[1] /\ a[2] = b[2]
  <2>1. <<"", a[1], a[2]>> = <<"", b[1], b[2]>>
    BY <1>1, <1>4
  <2> QED
    BY <2>1, Triples
<1>5. ASSUME Common(a), ~Common(b) PROVE Id(a) # Id(b)
  <2>1. -1 # b[1]
    OBVIOUS
  <2>2. ASSUME <<na, -1, oa>> = <<"", b[1], b[2]>> PROVE FALSE
    BY <2>1, <2>2, Triples
  <2> QED
    BY <1>1, <1>5, <2>2
<1> QED
  BY <1>3, <1>4, <1>5

\* As many pages as pieces.
LEMMA AsMany ==
  ASSUME NEW st, NEW A, Given(st, A)
  PROVE  IsFiniteSet(Pieces(A)) /\ Cardinality(Pieces(A)) = st.next
<1> DEFINE N == st.next
           f == [n \in 1 .. N |-> Id(CHOOSE a \in A : st.phys_map[Place(a)] = n - 1)]
<1>1. N \in Nat
  BY MemoryAssumption DEF Given
<1>2. \A n \in 1 .. N : n - 1 \in 0 .. N - 1
  BY <1>1
<1>3. ASSUME NEW n \in 1 .. N
      PROVE  \E a \in A : st.phys_map[Place(a)] = n - 1 /\ f[n] = Id(a)
  BY <1>2 DEF Given
<1>4. f \in [1 .. N -> Pieces(A)]
  <2>1. \A n \in 1 .. N : f[n] \in Pieces(A)
    BY <1>3 DEF Pieces
  <2> QED
    BY <2>1
<1>5. \A m, n \in 1 .. N : f[m] = f[n] => m = n
  <2> TAKE m \in 1 .. N, n \in 1 .. N
  <2> HAVE f[m] = f[n]
  <2>1. PICK a \in A : st.phys_map[Place(a)] = m - 1 /\ f[m] = Id(a)
    BY <1>3
  <2>2. PICK b \in A : st.phys_map[Place(b)] = n - 1 /\ f[n] = Id(b)
    BY <1>3
  <2>3. Id(a) = Id(b)
    BY <2>1, <2>2
  <2>4. st.phys_map[Place(a)] = st.phys_map[Place(b)]
    BY <2>3 DEF Given
  <2> QED
    BY <2>1, <2>2, <2>4
<1>6. \A p \in Pieces(A) : \E n \in 1 .. N : f[n] = p
  <2> TAKE p \in Pieces(A)
  <2>1. PICK a \in A : p = Id(a)
    BY DEF Pieces
  <2>2. st.phys_map[Place(a)] \in 0 .. N - 1
    BY DEF Given
  <2>3. /\ st.phys_map[Place(a)] + 1 \in 1 .. N
        /\ (st.phys_map[Place(a)] + 1) - 1 = st.phys_map[Place(a)]
    BY <1>1, <2>2
  <2>4. PICK b \in A : /\ st.phys_map[Place(b)] = st.phys_map[Place(a)]
                       /\ f[st.phys_map[Place(a)] + 1] = Id(b)
    BY <1>3, <2>3
  <2>5. Id(b) = Id(a)
    BY <2>4 DEF Given
  <2> QED
    BY <2>1, <2>3, <2>4, <2>5
<1>7. f \in Bijection(1 .. N, Pieces(A))
  <2> HIDE DEF f
  <2> QED
    BY <1>4, <1>5, <1>6 DEF Bijection, Injection, Surjection, IsInjective
<1>8. Cardinality(1 .. N) = N /\ IsFiniteSet(1 .. N)
  BY <1>1, FS_Interval
<1>9. ExistsBijection(1 .. N, Pieces(A))
  <2> HIDE DEF f
  <2> QED
    BY <1>7 DEF ExistsBijection
<1> QED
  BY <1>8, <1>9, FS_Bijection

\* One more piece than there are pages.
LEMMA TooMany ==
  ASSUME Good, NEW st, NEW A \in SUBSET ModelSlots, NEW a \in ModelSlots,
         Given(st, A), st.next = NUM_TOTAL_PAGES, \A b \in A : Id(b) # Id(a)
  PROVE  Cardinality(Pieces(ModelSlots)) > NUM_TOTAL_PAGES
<1>1. IsFiniteSet(Pieces(A)) /\ Cardinality(Pieces(A)) = NUM_TOTAL_PAGES
  BY AsMany
<1>2. Id(a) \notin Pieces(A)
  BY DEF Pieces
<1>3. Cardinality(Pieces(A) \union {Id(a)}) = NUM_TOTAL_PAGES + 1
  BY <1>1, <1>2, FS_AddElement
<1>4. Pieces(A) \union {Id(a)} \subseteq Pieces(ModelSlots)
  BY DEF Pieces
<1>5. /\ Cardinality(Pieces(A) \union {Id(a)}) <= Cardinality(Pieces(ModelSlots))
      /\ Cardinality(Pieces(ModelSlots)) \in Nat
  BY <1>4, FS_Subset, FS_CardinalityType DEF Good
<1> QED
  BY <1>3, <1>5, MemoryAssumption

\* One slot more, with the page of its piece or with the next one.
LEMMA GivenMore ==
  ASSUME NEW st, NEW A, NEW a, NEW new, NEW phys, Given(st, A),
         Place(a) \in 0 .. MAX_MEMORY_CONTEXTS * NUM_CONTEXT_PAGES - 1,
         \A b \in A : Place(b) \in 0 .. MAX_MEMORY_CONTEXTS * NUM_CONTEXT_PAGES - 1
                      /\ Place(b) # Place(a),
         new.phys_map = [st.phys_map EXCEPT ![Place(a)] = phys],
         new.shared_pages = IF Common(a) THEN st.shared_pages \union {[key |-> Key(a), phys |-> phys]}
                            ELSE st.shared_pages,
         \/ /\ phys = st.next /\ new.next = st.next + 1 /\ st.next < NUM_TOTAL_PAGES
            /\ \A b \in A : Id(b) # Id(a)
         \/ /\ \E b \in A : Id(b) = Id(a) /\ phys = st.phys_map[Place(b)]
            /\ new.next = st.next
  PROVE  Given(new, A \union {a})
<1> DEFINE g == st.phys_map
           h == new.phys_map
           D == 0 .. MAX_MEMORY_CONTEXTS * NUM_CONTEXT_PAGES - 1
<1>1. DOMAIN h = D /\ h[Place(a)] = phys /\ \A b \in A : h[Place(b)] = g[Place(b)]
  BY DEF Given
<1>2. /\ st.next \in Nat /\ st.next <= NUM_TOTAL_PAGES /\ NUM_TOTAL_PAGES \in Nat
      /\ \A b \in A : g[Place(b)] \in Nat /\ g[Place(b)] < st.next
  BY MemoryAssumption DEF Given
<1> HIDE DEF h, D
<1>3. new.next \in Nat /\ new.next <= NUM_TOTAL_PAGES /\ st.next <= new.next
  BY <1>2
<1>4. phys \in Nat /\ phys < new.next
  BY <1>2
<1>5. \A b \in A \union {a} : h[Place(b)] \in 0 .. new.next - 1
  BY <1>1, <1>2, <1>3, <1>4
<1>6. \A b \in A : phys = g[Place(b)] <=> Id(a) = Id(b)
  <2>1. CASE /\ phys = st.next
             /\ \A b \in A : Id(b) # Id(a)
    BY <1>2, <2>1
  <2>2. CASE \E b \in A : Id(b) = Id(a) /\ phys = g[Place(b)]
    BY <2>2 DEF Given
  <2> QED
    BY <2>1, <2>2
<1>7. \A b, d \in A \union {a} : h[Place(b)] = h[Place(d)] <=> Id(b) = Id(d)
  <2>1. \A b, d \in A : g[Place(b)] = g[Place(d)] <=> Id(b) = Id(d)
    BY DEF Given
  <2> QED
    BY <1>1, <1>6, <2>1
<1>8. \A n \in 0 .. new.next - 1 : \E b \in A \union {a} : h[Place(b)] = n
  <2> TAKE n \in 0 .. new.next - 1
  <2>1. CASE n < st.next
    <3>1. \E b \in A : g[Place(b)] = n
      BY <1>2, <1>3, <2>1 DEF Given
    <3> QED
      BY <1>1, <3>1
  <2>2. CASE ~(n < st.next)
    <3>1. n = phys
      BY <1>2, <2>2
    <3> QED
      BY <1>1, <3>1
  <2> QED
    BY <2>1, <2>2
<1>9. \A b \in A \union {a} :
        Common(b) => [key |-> Key(b), phys |-> h[Place(b)]] \in new.shared_pages
  <2>1. \A b \in A : Common(b) => [key |-> Key(b), phys |-> g[Place(b)]] \in st.shared_pages
    BY DEF Given
  <2>2. /\ st.shared_pages \subseteq new.shared_pages
        /\ Common(a) => [key |-> Key(a), phys |-> phys] \in new.shared_pages
    OBVIOUS
  <2> QED
    BY <1>1, <2>1, <2>2
<1>10. \A x \in new.shared_pages :
         \E b \in A \union {a} : Common(b) /\ x = [key |-> Key(b), phys |-> h[Place(b)]]
  <2>1. \A x \in st.shared_pages :
          \E b \in A : Common(b) /\ x = [key |-> Key(b), phys |-> g[Place(b)]]
    BY DEF Given
  <2>2. \A x \in new.shared_pages :
          x \in st.shared_pages \/ (Common(a) /\ x = [key |-> Key(a), phys |-> phys])
    OBVIOUS
  <2> QED
    BY <1>1, <2>1, <2>2
<1> QED
  BY <1>1, <1>3, <1>5, <1>7, <1>8, <1>9, <1>10 DEF Given, h, D

\* The page of one slot: the page its piece has, or the next one.
LEMMA AllocateKeeps ==
  ASSUME Good, NEW c \in Rows, NEW i \in DOMAIN LayoutOf(c).regions,
         NEW q \in Nat, q < LayoutOf(c).regions[i].pages,
         NEW st, NEW A \in SUBSET ModelSlots, NEW a,
         a = <<c, LayoutOf(c).regions[i].start + q>>, a \notin A, Filled(st, A)
  PROVE  a \in ModelSlots /\ Filled(Allocate(st, c, LayoutOf(c).regions[i], q), A \union {a})
<1> DEFINE r == LayoutOf(c).regions[i]
           s == r.start + q
           key == <<r.name, q>>
           new == Allocate(st, c, r, q)
           B == A \union {a}
           known == {x \in st.shared_pages : x.key = key}
<1>1. r \in Regions /\ r.start \in Nat /\ r.pages \in Nat /\ r.shared \in BOOLEAN
  <2>1. r \in Regions
    BY Positive DEF Good, Sound
  <2> QED
    BY <2>1, MemoryAssumption DEF Regions
<1>2. s \in Slots /\ Covers(r, s) /\ s - r.start = q
  <2>1. r.start + r.pages <= NUM_CONTEXT_PAGES
    BY DEF Good, Sound
  <2> QED
    BY <1>1, <2>1, MemoryAssumption DEF Slots, Covers
<1>3. Region(c, s) = r
  BY <1>2, RegionIs
<1>4. a[1] = c /\ a[2] = s /\ a = <<c, s>>
  OBVIOUS
<1>5. Common(a) = r.shared /\ Key(a) = key /\ Place(a) = Index(c, s)
  BY <1>2, <1>3, <1>4 DEF Common, Key, Place
<1>6. a \in ModelSlots /\ ModelSlots = Rows \X Slots
  BY <1>2, <1>4 DEF ModelSlots, Rows
<1>7. ASSUME NEW b \in ModelSlots
      PROVE  /\ b[1] \in Nat /\ b[1] < MAX_MEMORY_CONTEXTS /\ b[2] \in Slots /\ b = <<b[1], b[2]>>
             /\ Common(b) \in BOOLEAN
             /\ Place(b) \in 0 .. MAX_MEMORY_CONTEXTS * NUM_CONTEXT_PAGES - 1
  <2>1. b[1] \in Rows /\ b[2] \in Slots /\ b = <<b[1], b[2]>>
    BY <1>6
  <2>2. b[1] \in Nat /\ b[1] < MAX_MEMORY_CONTEXTS
    BY <2>1, MemoryAssumption DEF Good
  <2>3. PICK j \in DOMAIN LayoutOf(b[1]).regions : Covers(LayoutOf(b[1]).regions[j], b[2])
    BY <2>1 DEF Good, Sound
  <2>4. Region(b[1], b[2]) = LayoutOf(b[1]).regions[j]
    BY <2>1, <2>3, RegionIs
  <2>5. LayoutOf(b[1]).regions[j] \in Regions
    BY <2>1, <2>3, Positive DEF Good, Sound
  <2>6. Common(b) \in BOOLEAN
    BY <2>4, <2>5, MemoryAssumption DEF Common, Regions
  <2>7. Place(b) \in 0 .. MAX_MEMORY_CONTEXTS * NUM_CONTEXT_PAGES - 1
    BY <2>1, <2>2, IndexIs DEF Place
  <2> QED
    BY <2>1, <2>2, <2>6, <2>7
<1>8. \A b \in A : b \in ModelSlots /\ b # a /\ Place(b) # Place(a)
  <2> TAKE b \in A
  <2>1. b \in ModelSlots /\ b # a
    OBVIOUS
  <2>2. b[1] # a[1] \/ b[2] # a[2]
    BY <1>6, <1>7, <2>1
  <2>3. Place(b) # Place(a)
    BY <1>6, <1>7, <2>1, <2>2, IndexIs DEF Place
  <2> QED
    BY <2>1, <2>3
\* What the slots of A say of this one.
<1>9. \A b \in A :
        /\ Common(a) /\ Common(b) => (Key(a) = Key(b) <=> Id(a) = Id(b))
        /\ ~(Common(a) /\ Common(b)) => Id(a) # Id(b)
  <2> TAKE b \in A
  <2>1. b \in ModelSlots /\ b # a
    OBVIOUS
  <2>2. ~(b[1] = a[1] /\ b[2] = a[2])
    BY <1>6, <1>7, <2>1
  <2> QED
    BY <1>6, <1>7, <2>1, <2>2, Identities
<1> HIDE DEF r, s, key, known
<1>10. CASE ~st.ok
  <2>1. new = [st EXCEPT !.ok = FALSE]
    BY <1>10 DEF Allocate
  <2>2. Filled(new, B)
    <3> HIDE DEF new
    <3> QED
      BY <1>10, <2>1 DEF Filled
  <2> QED
    BY <1>6, <2>2 DEF r
<1> DEFINE phys == IF r.shared THEN getSharedPhysical(st, key)
                   ELSE IF st.next < NUM_TOTAL_PAGES THEN st.next ELSE -1
           more == [ok |-> TRUE,
                    next |-> IF phys = st.next THEN phys + 1 ELSE st.next,
                    phys_map |-> [st.phys_map EXCEPT ![Index(c, s)] = phys],
                    shared_pages |-> IF r.shared THEN st.shared_pages \union {[key |-> key, phys |-> phys]}
                                     ELSE st.shared_pages]
<1>11. ASSUME st.ok
       PROVE  new = IF phys = -1 THEN [st EXCEPT !.ok = FALSE] ELSE more
  BY <1>11 DEF Allocate, r, s, key
<1>12. st.ok => Given(st, A) /\ st.next \in Nat
  BY MemoryAssumption DEF Filled, Given
<1> HIDE DEF new, phys
\* A page of its own piece.
<1>13. CASE st.ok /\ r.shared /\ known # {}
  <2>1. PICK x \in known : phys = x.phys
    BY <1>13 DEF getSharedPhysical, known, phys
  <2>2. PICK b \in A : Common(b) /\ x = [key |-> Key(b), phys |-> st.phys_map[Place(b)]]
    BY <1>12, <1>13, <2>1 DEF Given, known
  <2>3. Key(b) = key /\ phys = st.phys_map[Place(b)]
    BY <2>1, <2>2 DEF known
  <2>4. Id(b) = Id(a)
    BY <1>5, <1>9, <1>13, <2>2, <2>3
  <2>5. phys \in 0 .. st.next - 1
    BY <1>12, <1>13, <2>3 DEF Given
  <2>6. phys # -1 /\ phys # st.next
    BY <1>12, <1>13, <2>5
  <2>7. /\ new = more /\ more.ok = TRUE /\ more.next = st.next
        /\ more.phys_map = [st.phys_map EXCEPT ![Place(a)] = phys]
        /\ more.shared_pages = st.shared_pages \union {[key |-> Key(a), phys |-> phys]}
        /\ "ok" \in DOMAIN more
    BY <1>5, <1>11, <1>13, <2>6
  <2> HIDE DEF more
  <2>8. Given(more, B)
    BY ZenonT(60), <1>5, <1>6, <1>7, <1>8, <1>12, <1>13, <2>3, <2>4, <2>7, GivenMore
  <2>9. Filled(new, B)
    BY <2>7, <2>8 DEF Filled
  <2> QED
    BY <1>6, <2>9 DEF new, r
\* A piece that had none.
<1>14. CASE st.ok /\ ~(r.shared /\ known # {})
  <2>1. phys = IF st.next < NUM_TOTAL_PAGES THEN st.next ELSE -1
    BY <1>1, <1>14 DEF getSharedPhysical, known, phys
  <2>2. \A b \in A : Id(b) # Id(a)
    <3> SUFFICES ASSUME NEW b \in A, Id(b) = Id(a) PROVE FALSE
      OBVIOUS
    <3>1. Common(a) /\ Common(b) /\ Key(a) = Key(b)
      BY <1>6, <1>7, <1>8, <1>9
    <3>2. [key |-> Key(b), phys |-> st.phys_map[Place(b)]] \in st.shared_pages
      BY <1>12, <1>14, <3>1 DEF Given
    <3>3. [key |-> Key(b), phys |-> st.phys_map[Place(b)]] \in known
      BY <1>5, <3>1, <3>2 DEF known
    <3> QED
      BY <1>5, <1>14, <3>1, <3>3
  <2>3. CASE st.next < NUM_TOTAL_PAGES
    <3>1. phys = st.next /\ phys # -1
      BY <1>12, <1>14, <2>1, <2>3
    <3>2. /\ new = more /\ more.ok = TRUE /\ more.next = st.next + 1
          /\ more.phys_map = [st.phys_map EXCEPT ![Place(a)] = phys]
          /\ more.shared_pages = IF Common(a) THEN st.shared_pages \union {[key |-> Key(a), phys |-> phys]}
                                 ELSE st.shared_pages
          /\ "ok" \in DOMAIN more
      BY <1>5, <1>11, <1>14, <3>1
    <3> HIDE DEF more
    <3>3. Given(more, B)
      BY <1>5, <1>6, <1>7, <1>8, <1>12, <1>14, <2>2, <2>3, <3>1, <3>2, GivenMore
    <3>4. Filled(new, B)
      BY <3>2, <3>3 DEF Filled
    <3> QED
      BY <1>6, <3>4 DEF new, r
  <2>4. CASE ~(st.next < NUM_TOTAL_PAGES)
    <3>1. phys = -1 /\ st.next = NUM_TOTAL_PAGES
      BY <1>12, <1>14, <2>1, <2>4, MemoryAssumption DEF Given
    <3>2. new = [st EXCEPT !.ok = FALSE]
      BY <1>11, <1>14, <3>1
    <3>3. Cardinality(Pieces(ModelSlots)) > NUM_TOTAL_PAGES
      BY <1>6, <1>12, <1>14, <2>2, <3>1, TooMany
    <3>4. Filled(new, B)
      BY <3>2, <3>3 DEF Filled
    <3> QED
      BY <1>6, <3>4 DEF new, r
  <2> QED
    BY <2>3, <2>4
<1> QED
  BY <1>10, <1>13, <1>14 DEF Filled


-----------------------------------------------------------------------------
\* The loops.  Each runs over slots that it has not looked at before.
PartOf(c, r, n) == {a \in ModelSlots : a[1] = c /\ a[2] \in r.start .. r.start + n - 1}

InFirst(c, n) ==
  {a \in ModelSlots : a[1] = c /\ \E j \in 1 .. n : Covers(LayoutOf(c).regions[j], a[2])}

Above(c) == {a \in ModelSlots : a[1] < c}

LEMMA RegionKeeps ==
  ASSUME Good, NEW c \in Rows, NEW i \in DOMAIN LayoutOf(c).regions,
         NEW st, NEW A \in SUBSET ModelSlots, Filled(st, A),
         \A a \in A : ~(a[1] = c /\ Covers(LayoutOf(c).regions[i], a[2]))
  PROVE  Filled(AllocateRegion(st, c, LayoutOf(c).regions[i]),
                A \union PartOf(c, LayoutOf(c).regions[i], LayoutOf(c).regions[i].pages))
<1> DEFINE r == LayoutOf(c).regions[i]
           N == r.pages
<1>1. N \in Nat /\ r.start \in Nat
  <2>1. r \in Regions
    BY Positive DEF Good, Sound
  <2> QED
    BY <2>1, MemoryAssumption DEF Regions
<1> HIDE DEF r
<1> DEFINE Rec(p, m) == p = [n \in 0 .. m |-> IF n = 0 THEN st ELSE Allocate(p[n - 1], c, r, n - 1)]
           S == {m \in Nat : m <= N => \E p : Rec(p, m)}
<1>2. 0 \in S
  <2>1. Rec([n \in 0 .. 0 |-> st], 0)
    OBVIOUS
  <2> QED
    BY <2>1
<1>3. ASSUME NEW m \in Nat, m \in S
      PROVE  m + 1 \in S
  <2> SUFFICES ASSUME m + 1 <= N PROVE \E p : Rec(p, m + 1)
    OBVIOUS
  <2>1. PICK q : Rec(q, m)
    BY <1>1, <1>3
  <2> DEFINE last == Allocate(q[m], c, r, (m + 1) - 1)
             p == [n \in 0 .. m + 1 |-> IF n = m + 1 THEN last ELSE q[n]]
  <2>2. p[m + 1] = last /\ \A n \in 0 .. m : p[n] = q[n]
    OBVIOUS
  <2>3. ASSUME NEW n \in 0 .. m + 1
        PROVE  p[n] = IF n = 0 THEN st ELSE Allocate(p[n - 1], c, r, n - 1)
    <3> HIDE DEF p
    <3>1. CASE n = m + 1
      <4>1. n # 0 /\ n - 1 = m /\ m \in 0 .. m
        BY <3>1
      <4> QED
        BY <2>2, <3>1, <4>1
    <3>2. CASE n \in 0 .. m
      <4>1. n # 0 => n - 1 \in 0 .. m
        BY <3>2
      <4>2. q[n] = IF n = 0 THEN st ELSE Allocate(q[n - 1], c, r, n - 1)
        BY <2>1, <3>2
      <4> QED
        BY <2>2, <3>2, <4>1, <4>2
    <3> QED
      BY <3>1, <3>2
  <2>4. p = [n \in 0 .. m + 1 |-> p[n]]
    OBVIOUS
  <2>5. Rec(p, m + 1)
    <3> HIDE DEF p
    <3> QED
      BY <2>3, <2>4
  <2> HIDE DEF p, Rec
  <2> QED
    BY <2>5
<1>4. \E p : Rec(p, N)
  <2> HIDE DEF S
  <2>1. Nat \subseteq S
    BY <1>2, <1>3, SetInduction
  <2>2. N \in S /\ N <= N
    BY <1>1, <2>1
  <2> HIDE DEF N, Rec
  <2> QED
    BY <2>2 DEF S
<1>5. PICK u : Rec(u, N) /\ AllocateRegion(st, c, r) = u[N]
  BY <1>4 DEF AllocateRegion
<1> DEFINE T == {m \in Nat : m <= N => Filled(u[m], A \union PartOf(c, r, m))}
<1>6. 0 \in T
  <2>1. PartOf(c, r, 0) = {}
    BY <1>1 DEF PartOf
  <2>2. u[0] = st
    BY <1>1, <1>5
  <2> QED
    BY <2>1, <2>2
<1>7. ASSUME NEW m \in Nat, m \in T
      PROVE  m + 1 \in T
  <2> SUFFICES ASSUME m + 1 <= N
               PROVE  Filled(u[m + 1], A \union PartOf(c, r, m + 1))
    OBVIOUS
  <2> DEFINE a == <<c, r.start + m>>
             B == A \union PartOf(c, r, m)
  <2>1. m < N /\ (m + 1) - 1 = m /\ m + 1 \in 0 .. N /\ m + 1 # 0
    BY <1>1
  <2>2. u[m + 1] = Allocate(u[m], c, r, m)
    BY <1>5, <2>1
  <2>3. Filled(u[m], B)
    BY <1>1, <1>7, <2>1
  <2>4. B \in SUBSET ModelSlots
    BY DEF PartOf
  <2>5. a \notin B
    <3>1. a[1] = c /\ a[2] = r.start + m
      OBVIOUS
    <3>2. Covers(r, r.start + m)
      BY <1>1, <2>1 DEF Covers
    <3>3. r.start + m \notin r.start .. r.start + m - 1
      BY <1>1
    <3> HIDE DEF a
    <3> QED
      BY <3>1, <3>2, <3>3 DEF PartOf, r
  <2>6. a \in ModelSlots /\ Filled(u[m + 1], B \union {a})
    <3> HIDE DEF a, B
    <3>1. a = <<c, LayoutOf(c).regions[i].start + m>>
      BY DEF a, r
    <3> QED
      BY <2>1, <2>2, <2>3, <2>4, <2>5, <3>1, AllocateKeeps DEF r
  <2>7. PartOf(c, r, m + 1) = PartOf(c, r, m) \union {a}
    <3>1. \A b \in ModelSlots : b = <<b[1], b[2]>>
      BY DEF ModelSlots
    <3>2. \A x : x \in r.start .. r.start + (m + 1) - 1
                   <=> x \in r.start .. r.start + m - 1 \/ x = r.start + m
      BY <1>1
    <3>3. a[1] = c /\ a[2] = r.start + m
      OBVIOUS
    <3> QED
      BY <2>6, <3>1, <3>2, <3>3 DEF PartOf
  <2>8. B \union {a} = A \union PartOf(c, r, m + 1)
    BY <2>7
  <2> QED
    BY <2>6, <2>8
<1>8. Nat \subseteq T
  <2> HIDE DEF T
  <2> QED
    BY <1>6, <1>7, SetInduction
<1>9. Filled(u[N], A \union PartOf(c, r, N))
  <2>1. N \in T /\ N <= N
    BY <1>1, <1>8
  <2> HIDE DEF N, Rec
  <2> QED
    BY <2>1
<1> QED
  BY <1>5, <1>9 DEF r

LEMMA ContextKeeps ==
  ASSUME Good, NEW model, model = memoryConfig.active_model, NEW c \in Rows, NEW st, Filled(st, Above(c)),
         resolveLayoutForContext(model, c) # 0
  PROVE  Filled(AllocateContext(st, model, c), Above(c + 1))
<1> DEFINE regions == LayoutOf(c).regions
           N == Len(regions)
<1>1. N \in Nat /\ DOMAIN regions = 1 .. N /\ c \in Nat
  BY LenProperties, MemoryAssumption DEF Good, Sound
<1> HIDE DEF regions
<1> DEFINE Rec(p, m) == p = [n \in 0 .. m |-> IF n = 0 THEN st ELSE AllocateRegion(p[n - 1], c, regions[n])]
           S == {m \in Nat : m <= N => \E p : Rec(p, m)}
<1>2. 0 \in S
  <2>1. Rec([n \in 0 .. 0 |-> st], 0)
    OBVIOUS
  <2> QED
    BY <2>1
<1>3. ASSUME NEW m \in Nat, m \in S
      PROVE  m + 1 \in S
  <2> SUFFICES ASSUME m + 1 <= N PROVE \E p : Rec(p, m + 1)
    OBVIOUS
  <2>1. PICK q : Rec(q, m)
    BY <1>1, <1>3
  <2> DEFINE last == AllocateRegion(q[m], c, regions[(m + 1)])
             p == [n \in 0 .. m + 1 |-> IF n = m + 1 THEN last ELSE q[n]]
  <2>2. p[m + 1] = last /\ \A n \in 0 .. m : p[n] = q[n]
    OBVIOUS
  <2>3. ASSUME NEW n \in 0 .. m + 1
        PROVE  p[n] = IF n = 0 THEN st ELSE AllocateRegion(p[n - 1], c, regions[n])
    <3> HIDE DEF p
    <3>1. CASE n = m + 1
      <4>1. n # 0 /\ n - 1 = m /\ m \in 0 .. m
        BY <3>1
      <4> QED
        BY <2>2, <3>1, <4>1
    <3>2. CASE n \in 0 .. m
      <4>1. n # 0 => n - 1 \in 0 .. m
        BY <3>2
      <4>2. q[n] = IF n = 0 THEN st ELSE AllocateRegion(q[n - 1], c, regions[n])
        BY <2>1, <3>2
      <4> QED
        BY <2>2, <3>2, <4>1, <4>2
    <3> QED
      BY <3>1, <3>2
  <2>4. p = [n \in 0 .. m + 1 |-> p[n]]
    OBVIOUS
  <2>5. Rec(p, m + 1)
    <3> HIDE DEF p
    <3> QED
      BY <2>3, <2>4
  <2> HIDE DEF p, Rec
  <2> QED
    BY <2>5
<1>4. \E p : Rec(p, N)
  <2> HIDE DEF S
  <2>1. Nat \subseteq S
    BY <1>2, <1>3, SetInduction
  <2>2. N \in S /\ N <= N
    BY <1>1, <2>1
  <2> HIDE DEF N, Rec
  <2> QED
    BY <2>2 DEF S
<1>5. PICK u : Rec(u, N) /\ AllocateContext(st, model, c) = u[N]
  BY <1>4 DEF AllocateContext, LayoutOf, regions
<1> DEFINE T == {m \in Nat : m <= N => Filled(u[m], Above(c) \union InFirst(c, m))}
<1>6. 0 \in T
  <2>1. InFirst(c, 0) = {}
    BY DEF InFirst
  <2>2. u[0] = st
    BY <1>1, <1>5
  <2> QED
    BY <2>1, <2>2
<1>7. ASSUME NEW m \in Nat, m \in T
      PROVE  m + 1 \in T
  <2> SUFFICES ASSUME m + 1 <= N
               PROVE  Filled(u[m + 1], Above(c) \union InFirst(c, m + 1))
    OBVIOUS
  <2> DEFINE r == regions[m + 1]
             A == Above(c) \union InFirst(c, m)
  <2>1. m <= N /\ (m + 1) - 1 = m /\ m + 1 \in 0 .. N /\ m + 1 # 0 /\ m + 1 \in DOMAIN regions
    BY <1>1
  <2>2. u[m + 1] = AllocateRegion(u[m], c, r)
    BY <1>5, <2>1
  <2>3. Filled(u[m], A) /\ A \in SUBSET ModelSlots
    BY <1>7, <2>1 DEF Above, InFirst
  <2>4. \A a \in A : ~(a[1] = c /\ Covers(r, a[2]))
    <3> SUFFICES ASSUME NEW a \in A, a[1] = c, Covers(r, a[2]) PROVE FALSE
      OBVIOUS
    <3>1. PICK j \in 1 .. m : Covers(regions[j], a[2])
      BY <1>1 DEF Above, InFirst, regions
    <3>2. a[2] \in Slots
      BY DEF Above, InFirst, ModelSlots
    <3>3. j = m + 1
      BY <1>1, <2>1, <3>1, <3>2 DEF Good, Sound, regions
    <3> QED
      BY <3>1, <3>3
  <2>5. Filled(u[m + 1], A \union PartOf(c, r, r.pages))
    BY <2>1, <2>2, <2>3, <2>4, RegionKeeps DEF regions
  <2>6. InFirst(c, m + 1) = InFirst(c, m) \union PartOf(c, r, r.pages)
    <3>1. \A x : Covers(r, x) <=> x \in r.start .. r.start + r.pages - 1
      BY DEF Covers
    <3>2. \A x : (\E j \in 1 .. m + 1 : Covers(regions[j], x))
                   <=> (\E j \in 1 .. m : Covers(regions[j], x)) \/ Covers(r, x)
      <4>1. \A j : j \in 1 .. m + 1 <=> j \in 1 .. m \/ j = m + 1
        OBVIOUS
      <4> QED
        BY <4>1
    <3> HIDE DEF r
    <3> QED
      BY <3>1, <3>2 DEF InFirst, PartOf, regions
  <2>7. A \union PartOf(c, r, r.pages) = Above(c) \union InFirst(c, m + 1)
    BY <2>6
  <2> QED
    BY <2>5, <2>7
<1>8. Nat \subseteq T
  <2> HIDE DEF T
  <2> QED
    BY <1>6, <1>7, SetInduction
<1>9. Filled(u[N], Above(c) \union InFirst(c, N))
  <2> HIDE DEF T
  <2>1. N \in T
    BY <1>1, <1>8
  <2>2. T = {m \in Nat : m <= N => Filled(u[m], Above(c) \union InFirst(c, m))}
    BY DEF T
  <2>3. N <= N
    BY <1>1
  <2> HIDE DEF N, Rec
  <2> QED
    BY <2>1, <2>2, <2>3
<1>10. Above(c) \union InFirst(c, N) = Above(c + 1)
  <2>1. ASSUME NEW a \in ModelSlots
        PROVE  /\ a[1] < c + 1 <=> a[1] < c \/ a[1] = c
               /\ a[1] = c => \E j \in 1 .. N : Covers(regions[j], a[2])
    <3>1. a[1] \in Rows /\ a[2] \in Slots
      BY DEF ModelSlots, Rows
    <3>2. a[1] \in Nat
      BY <3>1, RowsAreNatural
    <3> QED
      BY <1>1, <3>1, <3>2 DEF Good, Sound, regions
  <2> QED
    BY <2>1 DEF Above, InFirst, regions
<1> QED
  BY <1>5, <1>9, <1>10

LEMMA ModelKeeps ==
  ASSUME Good, NEW model, model.name = memoryConfig.active_model,
         model.contexts \in Nat, Rows = 0 .. model.contexts - 1,
         \A c \in Rows : resolveLayoutForContext(model.name, c) # 0
  PROVE  Filled(AllocateModel(model), ModelSlots)
<1> DEFINE N == model.contexts
           start == NothingAllocated
<1>1. N \in Nat
  OBVIOUS
<1> HIDE DEF start
<1> DEFINE Rec(p, m) == p = [n \in 0 .. m |-> IF n = 0 THEN start ELSE AllocateContext(p[n - 1], model.name, n - 1)]
           S == {m \in Nat : m <= N => \E p : Rec(p, m)}
<1>2. 0 \in S
  <2>1. Rec([n \in 0 .. 0 |-> start], 0)
    OBVIOUS
  <2> QED
    BY <2>1
<1>3. ASSUME NEW m \in Nat, m \in S
      PROVE  m + 1 \in S
  <2> SUFFICES ASSUME m + 1 <= N PROVE \E p : Rec(p, m + 1)
    OBVIOUS
  <2>1. PICK q : Rec(q, m)
    BY <1>1, <1>3
  <2> DEFINE last == AllocateContext(q[m], model.name, (m + 1) - 1)
             p == [n \in 0 .. m + 1 |-> IF n = m + 1 THEN last ELSE q[n]]
  <2>2. p[m + 1] = last /\ \A n \in 0 .. m : p[n] = q[n]
    OBVIOUS
  <2>3. ASSUME NEW n \in 0 .. m + 1
        PROVE  p[n] = IF n = 0 THEN start ELSE AllocateContext(p[n - 1], model.name, n - 1)
    <3> HIDE DEF p
    <3>1. CASE n = m + 1
      <4>1. n # 0 /\ n - 1 = m /\ m \in 0 .. m
        BY <3>1
      <4> QED
        BY <2>2, <3>1, <4>1
    <3>2. CASE n \in 0 .. m
      <4>1. n # 0 => n - 1 \in 0 .. m
        BY <3>2
      <4>2. q[n] = IF n = 0 THEN start ELSE AllocateContext(q[n - 1], model.name, n - 1)
        BY <2>1, <3>2
      <4> QED
        BY <2>2, <3>2, <4>1, <4>2
    <3> QED
      BY <3>1, <3>2
  <2>4. p = [n \in 0 .. m + 1 |-> p[n]]
    OBVIOUS
  <2>5. Rec(p, m + 1)
    <3> HIDE DEF p
    <3> QED
      BY <2>3, <2>4
  <2> HIDE DEF p, Rec
  <2> QED
    BY <2>5
<1>4. \E p : Rec(p, N)
  <2> HIDE DEF S
  <2>1. Nat \subseteq S
    BY <1>2, <1>3, SetInduction
  <2>2. N \in S /\ N <= N
    BY <1>1, <2>1
  <2> HIDE DEF N, Rec
  <2> QED
    BY <2>2 DEF S
<1>5. PICK u : Rec(u, N) /\ AllocateModel(model) = u[N]
  BY <1>4 DEF AllocateModel, start
<1> DEFINE T == {m \in Nat : m <= N => Filled(u[m], Above(m))}
<1>6. 0 \in T
  <2>1. Above(0) = {}
    BY DEF Above, ModelSlots, Rows
  <2>2. Filled(NothingAllocated, {})
    BY MemoryAssumption DEF Filled, Given, NothingAllocated
  <2>3. u[0] = NothingAllocated
    BY <1>1, <1>5 DEF start
  <2> QED
    BY <2>1, <2>2, <2>3
<1>7. ASSUME NEW m \in Nat, m \in T
      PROVE  m + 1 \in T
  <2> SUFFICES ASSUME m + 1 <= N PROVE Filled(u[m + 1], Above(m + 1))
    OBVIOUS
  <2>1. m <= N /\ (m + 1) - 1 = m /\ m + 1 \in 0 .. N /\ m + 1 # 0 /\ m \in Rows
    OBVIOUS
  <2>2. u[m + 1] = AllocateContext(u[m], model.name, m)
    BY <1>5, <2>1
  <2>3. Filled(u[m], Above(m))
    BY <1>7, <2>1
  <2> QED
    BY <2>1, <2>2, <2>3, ContextKeeps
<1>8. Nat \subseteq T
  <2> HIDE DEF T
  <2> QED
    BY <1>6, <1>7, SetInduction
<1>9. Filled(u[N], Above(N))
  BY <1>1, <1>8
<1>10. Above(N) = ModelSlots
  <2>1. ModelSlots = Rows \X Slots
    BY DEF ModelSlots, Rows
  <2>2. \A a \in ModelSlots : a[1] \in 0 .. N - 1
    BY <2>1
  <2>3. \A a \in ModelSlots : a[1] < N
    BY <1>1, <2>2
  <2> QED
    BY <2>3 DEF Above
<1> QED
  BY <1>5, <1>9, <1>10

\* The entries are written from the allocation, each with its region's bit 7.
LEMMA EntriesWritten ==
  ASSUME Good, NEW model, model = memoryConfig.models[findModel(memoryConfig.active_model)],
         findModel(memoryConfig.active_model) # 0,
         model.name = memoryConfig.active_model, model.contexts \in 1 .. MAX_MEMORY_CONTEXTS,
         Untouched, configureMMUFromActiveModel, AllocateModel(model).ok \in BOOLEAN
  PROVE  /\ configured' = AllocateModel(model).ok
         /\ ~AllocateModel(model).ok => mmu' = mmu
         /\ AllocateModel(model).ok =>
              \A a \in ModelSlots : mmu'[a[1]][a[2]] =
                [page |-> AllocateModel(model).phys_map[Place(a)], bit7 |-> Region(a[1], a[2]).bit7]
<1> DEFINE state == AllocateModel(model)
           rows == 0 .. model.contexts - 1
           Layout(c) == memoryConfig.layouts[resolveLayoutForContext(model.name, c)]
           bare == {a \in rows \X Slots : RegionAt(Layout(a[1]), a[2]) = 0}
           written(c, s) == c \in rows /\ \A b \in bare : Index(c, s) < Index(b[1], b[2])
           possible == findModel(memoryConfig.active_model) # 0
                         /\ model.contexts \in 1 .. MAX_MEMORY_CONTEXTS /\ state.ok
<1>1. rows = Rows /\ ModelSlots = Rows \X Slots
  BY DEF Rows, ModelSlots
<1>2. \A c : Layout(c) = LayoutOf(c)
  BY DEF LayoutOf
<1>3. \A c \in Rows, s \in Slots : /\ RegionAt(Layout(c), s) # 0
                                   /\ Layout(c).regions[RegionAt(Layout(c), s)] = Region(c, s)
  <2> TAKE c \in Rows, s \in Slots
  <2>1. PICK i \in DOMAIN LayoutOf(c).regions : Covers(LayoutOf(c).regions[i], s)
    BY DEF Good, Sound
  <2>2. i # 0
    BY Positive DEF Good, Sound
  <2>3. Region(c, s) = LayoutOf(c).regions[i] /\ RegionAt(LayoutOf(c), s) = i
    BY <2>1, RegionIs
  <2> QED
    BY <1>2, <2>2, <2>3
<1>4. bare = {}
  BY <1>1, <1>3
<1>5. /\ configured' = (possible /\ bare = {})
      /\ mmu' = IF ~possible THEN mmu
                ELSE [c \in DOMAIN mmu |-> [s \in Slots |->
                        IF written(c, s)
                        THEN [page |-> state.phys_map[Index(c, s)],
                              bit7 |-> Layout(c).regions[RegionAt(Layout(c), s)].bit7]
                        ELSE mmu[c][s]]]
  BY DEF configureMMUFromActiveModel
<1> HIDE DEF bare
<1>6. DOMAIN mmu = 0 .. NUM_CONTEXTS - 1 /\ Rows \subseteq DOMAIN mmu
  <2>1. DOMAIN mmu = 0 .. NUM_CONTEXTS - 1
    BY DEF Untouched
  <2>2. Rows \subseteq 0 .. MAX_MEMORY_CONTEXTS - 1 /\ MAX_MEMORY_CONTEXTS <= NUM_CONTEXTS
    BY MemoryAssumption DEF Good
  <2> QED
    BY <2>1, <2>2, MemoryAssumption
<1>7. \A c \in Rows, s \in Slots : written(c, s)
  BY <1>1, <1>4
<1> HIDE DEF rows, Layout, state, written
<1>8. (possible /\ bare = {}) = state.ok
  <2>1. state.ok \in BOOLEAN
    BY DEF state
  <2>2. possible /\ bare = {} <=> state.ok
    BY <1>4
  <2> QED
    BY <2>1, <2>2
<1>9. ASSUME state.ok
      PROVE  \A a \in ModelSlots : mmu'[a[1]][a[2]] =
               [page |-> state.phys_map[Place(a)], bit7 |-> Region(a[1], a[2]).bit7]
  <2> TAKE a \in ModelSlots
  <2>1. a[1] \in Rows /\ a[2] \in Slots
    BY <1>1
  <2>2. mmu'[a[1]][a[2]] = [page |-> state.phys_map[Index(a[1], a[2])],
                            bit7 |-> Layout(a[1]).regions[RegionAt(Layout(a[1]), a[2])].bit7]
    BY <1>5, <1>6, <1>7, <1>9, <2>1
  <2> QED
    BY <1>3, <2>1, <2>2 DEF Place
<1>10. ~state.ok => mmu' = mmu
  BY <1>5
<1>11. configured' = state.ok
  BY <1>5, <1>8
<1> QED
  BY <1>9, <1>10, <1>11 DEF state

\* The pages are enough just where the allocation says so.
LEMMA Enough ==
  ASSUME NEW st, Filled(st, ModelSlots)
  PROVE  /\ st.ok => /\ ~(Cardinality(Pieces(ModelSlots)) > NUM_TOTAL_PAGES)
                     /\ Given(st, ModelSlots)
         /\ ~st.ok => Cardinality(Pieces(ModelSlots)) > NUM_TOTAL_PAGES
         /\ st.ok \in BOOLEAN
<1>1. ASSUME st.ok PROVE ~(Cardinality(Pieces(ModelSlots)) > NUM_TOTAL_PAGES)
  <2>1. Given(st, ModelSlots)
    BY <1>1 DEF Filled
  <2>2. Cardinality(Pieces(ModelSlots)) = st.next
    BY <2>1, AsMany
  <2>3. st.next \in 0 .. NUM_TOTAL_PAGES
    BY <2>1 DEF Given
  <2> QED
    BY <2>2, <2>3, MemoryAssumption
<1> QED
  BY <1>1 DEF Filled

\* What the step that sets the MMU up leaves there.
LEMMA SetUp ==
  ASSUME MemoryTypes, validateConfig, Untouched, configureMMUFromActiveModel
  PROVE  IF Cardinality(Pieces(ModelSlots)) > NUM_TOTAL_PAGES
         THEN ~configured' /\ mmu' = mmu
         ELSE /\ configured'
              /\ \A a, b \in ModelSlots :
                   /\ mmu'[a[1]][a[2]].page \in 0 .. NUM_TOTAL_PAGES - 1
                   /\ mmu'[a[1]][a[2]].bit7 = Region(a[1], a[2]).bit7
                   /\ (mmu'[a[1]][a[2]].page = mmu'[b[1]][b[2]].page) <=> (Id(a) = Id(b))
<1> DEFINE model == memoryConfig.models[findModel(memoryConfig.active_model)]
           state == AllocateModel(model)
<1>1. /\ findModel(memoryConfig.active_model) # 0
      /\ model.name = memoryConfig.active_model
      /\ model.contexts \in 1 .. MAX_MEMORY_CONTEXTS
      /\ \A c \in Rows : resolveLayoutForContext(model.name, c) # 0
  BY Accepts
<1>2. Good
  BY AcceptedGood
<1>3. Rows = 0 .. model.contexts - 1 /\ model.contexts \in Nat
  BY <1>1, MemoryAssumption DEF Rows
<1> HIDE DEF model
<1>4. Filled(state, ModelSlots)
  BY <1>1, <1>2, <1>3, ModelKeeps
<1> HIDE DEF state
<1>5. /\ configured' = state.ok
      /\ ~state.ok => mmu' = mmu
      /\ state.ok => \A a \in ModelSlots : mmu'[a[1]][a[2]] =
           [page |-> state.phys_map[Place(a)], bit7 |-> Region(a[1], a[2]).bit7]
  <2>1. AllocateModel(model).ok \in BOOLEAN
    BY <1>4, Enough DEF state
  <2> QED
    BY <1>1, <1>2, <2>1, EntriesWritten DEF model, state
<1>6. CASE ~state.ok
  BY <1>4, <1>5, <1>6, Enough
<1>7. CASE state.ok
  <2>1. /\ ~(Cardinality(Pieces(ModelSlots)) > NUM_TOTAL_PAGES)
        /\ Given(state, ModelSlots)
    BY <1>4, <1>7, Enough
  <2>2. \A a \in ModelSlots : /\ mmu'[a[1]][a[2]].page = state.phys_map[Place(a)]
                              /\ mmu'[a[1]][a[2]].bit7 = Region(a[1], a[2]).bit7
    <3> TAKE a \in ModelSlots
    <3>1. mmu'[a[1]][a[2]] = [page |-> state.phys_map[Place(a)], bit7 |-> Region(a[1], a[2]).bit7]
      BY <1>5, <1>7
    <3> QED
      BY <3>1
  <2>3. \A a \in ModelSlots : state.phys_map[Place(a)] \in 0 .. NUM_TOTAL_PAGES - 1
    <3>1. \A a \in ModelSlots : state.phys_map[Place(a)] \in 0 .. state.next - 1
      BY <2>1 DEF Given
    <3>2. state.next \in 0 .. NUM_TOTAL_PAGES
      BY <2>1 DEF Given
    <3> QED
      BY <3>1, <3>2, MemoryAssumption
  <2>4. \A a, b \in ModelSlots : state.phys_map[Place(a)] = state.phys_map[Place(b)] <=> Id(a) = Id(b)
    BY <2>1 DEF Given
  <2> QED
    BY <1>5, <1>7, <2>1, <2>2, <2>3, <2>4
<1> QED
  BY <1>4, <1>6, <1>7, Enough

\* What the slots are depends on the tables alone.
LEMMA SameSlots ==
  ASSUME memoryConfig' = memoryConfig
  PROVE  /\ ModelSlots' = ModelSlots
         /\ \A c, s : Region(c, s)' = Region(c, s)
         /\ \A c, s : Identity(c, s)' = Identity(c, s)
<1>1. ModelSlots' = ModelSlots
  BY SameFinds DEF ModelSlots
<1>2. \A c, s : Region(c, s)' = Region(c, s)
  BY SameFinds DEF Region
<1>3. \A c, s : Identity(c, s)' = Identity(c, s)
  BY <1>2 DEF Identity
<1> QED
  BY <1>1, <1>2, <1>3

LEMMA ConfigureKeeps ==
  ASSUME MemoryInv, configureMMUFromActiveModel
  PROVE  MemoryInv'
<1>1. /\ memoryPhase = "read" /\ memoryPhase' = "set up"
      /\ memoryConfig' = memoryConfig /\ valid' = valid
  BY DEF configureMMUFromActiveModel
<1>2. MemoryTypes' /\ (memoryPhase # "set up" => Untouched)'
  BY <1>1 DEF MemoryInv, MemoryTypes
<1>3. validateConfig' = validateConfig
  BY <1>1, SameJudgement
<1>4. Judged'
  BY <1>1, <1>3 DEF MemoryInv, Judged
<1>5. MappedAsDescribed'
  <2> DEFINE slots == ModelSlots
             pieces == {Identity(a[1], a[2]) : a \in slots}
  <2>1. CASE ~valid
    BY <1>1, <2>1 DEF MappedAsDescribed
  <2>2. CASE valid
    <3>1. validateConfig /\ Untouched /\ MemoryTypes
      BY <1>1, <2>2 DEF MemoryInv, Judged
    <3>2. IF Cardinality(Pieces(ModelSlots)) > NUM_TOTAL_PAGES
          THEN ~configured' /\ mmu' = mmu
          ELSE /\ configured'
               /\ \A a, b \in ModelSlots :
                    /\ mmu'[a[1]][a[2]].page \in 0 .. NUM_TOTAL_PAGES - 1
                    /\ mmu'[a[1]][a[2]].bit7 = Region(a[1], a[2]).bit7
                    /\ (mmu'[a[1]][a[2]].page = mmu'[b[1]][b[2]].page) <=> (Id(a) = Id(b))
      BY <3>1, SetUp
    <3>3. mmu' = mmu => \A c \in DOMAIN mmu' : mmu'[c] = gDefaultMMU
      BY <3>1 DEF Untouched
    <3>4. Pieces(ModelSlots) = pieces
      BY DEF Pieces, Id
    <3>5. ModelSlots' = slots /\ {Identity(a[1], a[2])' : a \in slots} = pieces
      BY <1>1, SameSlots
    <3>6. \A c, s : Region(c, s)' = Region(c, s) /\ Identity(c, s)' = Identity(c, s)
      BY <1>1, SameSlots
    <3> HIDE DEF pieces
    <3>7. IF Cardinality(pieces) > NUM_TOTAL_PAGES
          THEN ~configured' /\ \A c \in DOMAIN mmu' : mmu'[c] = gDefaultMMU
          ELSE /\ configured'
               /\ \A a, b \in slots :
                    /\ mmu'[a[1]][a[2]].page \in 0 .. NUM_TOTAL_PAGES - 1
                    /\ mmu'[a[1]][a[2]].bit7 = Region(a[1], a[2])'.bit7
                    /\ (mmu'[a[1]][a[2]].page = mmu'[b[1]][b[2]].page)
                         <=> (Identity(a[1], a[2])' = Identity(b[1], b[2])')
      BY <3>2, <3>3, <3>4, <3>6 DEF Id
    <3> QED
      BY <3>5, <3>7 DEF MappedAsDescribed
  <2> QED
    BY <2>1, <2>2
<1> QED
  BY <1>2, <1>4, <1>5 DEF MemoryInv

LEMMA MemoryStands ==
  ASSUME MemoryInv, UNCHANGED memoryVars
  PROVE  MemoryInv'
<1>1. /\ memoryConfig' = memoryConfig /\ memoryPhase' = memoryPhase
      /\ valid' = valid /\ configured' = configured /\ mmu' = mmu
  BY DEF memoryVars
<1>2. MemoryTypes' /\ (memoryPhase # "set up" => Untouched)'
  BY <1>1 DEF MemoryInv, MemoryTypes, Untouched
<1>3. validateConfig' = validateConfig
  BY <1>1, SameJudgement
<1>4. Judged'
  BY <1>1, <1>3 DEF MemoryInv, Judged
<1>5. MappedAsDescribed'
  <2>1. ModelSlots' = ModelSlots
    BY <1>1, SameSlots
  <2>2. \A c, s : Region(c, s)' = Region(c, s) /\ Identity(c, s)' = Identity(c, s)
    BY <1>1, SameSlots
  <2> DEFINE pieces == {Identity(a[1], a[2]) : a \in ModelSlots}
  <2>3. {Identity(a[1], a[2])' : a \in ModelSlots'} = pieces
    BY <2>1, <2>2
  <2>4. CASE ~(memoryPhase = "set up" /\ valid)
    BY <1>1, <2>4 DEF MappedAsDescribed
  <2>5. CASE memoryPhase = "set up" /\ valid
    <3>1. IF Cardinality(pieces) > NUM_TOTAL_PAGES
          THEN ~configured /\ \A c \in DOMAIN mmu : mmu[c] = gDefaultMMU
          ELSE /\ configured
               /\ \A a, b \in ModelSlots :
                    /\ mmu[a[1]][a[2]].page \in 0 .. NUM_TOTAL_PAGES - 1
                    /\ mmu[a[1]][a[2]].bit7 = Region(a[1], a[2]).bit7
                    /\ (mmu[a[1]][a[2]].page = mmu[b[1]][b[2]].page)
                         <=> (Identity(a[1], a[2]) = Identity(b[1], b[2]))
      BY <2>5 DEF MemoryInv, MappedAsDescribed
    <3> HIDE DEF pieces
    <3>2. IF Cardinality(pieces) > NUM_TOTAL_PAGES
          THEN ~configured' /\ \A c \in DOMAIN mmu' : mmu'[c] = gDefaultMMU
          ELSE /\ configured'
               /\ \A a, b \in ModelSlots' :
                    /\ mmu'[a[1]][a[2]].page \in 0 .. NUM_TOTAL_PAGES - 1
                    /\ mmu'[a[1]][a[2]].bit7 = Region(a[1], a[2])'.bit7
                    /\ (mmu'[a[1]][a[2]].page = mmu'[b[1]][b[2]].page)
                         <=> (Identity(a[1], a[2])' = Identity(b[1], b[2])')
      BY <1>1, <2>1, <2>2, <3>1
    <3> QED
      BY <2>3, <3>2 DEF MappedAsDescribed
  <2> QED
    BY <2>4, <2>5
<1> QED
  BY <1>2, <1>4, <1>5 DEF MemoryInv

LEMMA MemoryStep ==
  ASSUME MemoryInv, [Next]_vars
  PROVE  MemoryInv'
<1>1. ASSUME Memory PROVE MemoryInv'
  <2>1. MemoryNext
    BY <1>1 DEF Memory
  <2> QED
    BY <2>1, ReadingKeeps, ConfigureKeeps DEF MemoryNext
<1>2. initializeSystemConfig \/ SystemIni \/ waitForUserSelection \/ activateConfiguration
        => UNCHANGED memoryVars
  BY DEF initializeSystemConfig, SystemIni, waitForUserSelection, activateConfiguration
<1>3. UNCHANGED vars => UNCHANGED memoryVars
  BY DEF vars
<1> QED
  BY <1>1, <1>2, <1>3, MemoryStands DEF Next

LEMMA MemoryStart ==
  ASSUME Init
  PROVE  MemoryInv
<1>1. Untouched /\ ~valid /\ memoryPhase = "reading" /\ valid \in BOOLEAN
  BY DEF Init, MemoryInit, Untouched
<1>2. /\ DOMAIN memoryConfig = {"version", "active_model", "boot_context", "models", "layouts", "contexts"}
      /\ memoryConfig.models = <<>> /\ memoryConfig.layouts = <<>> /\ memoryConfig.contexts = <<>>
  BY DEF Init, MemoryInit
<1>3. \A S : <<>> \in Seq(S)
  BY EmptySeq
<1>4. MemoryTypes
  BY <1>1, <1>2, <1>3 DEF MemoryTypes, ConfigTypes
<1> QED
  BY <1>1, <1>4 DEF MemoryInv, Judged, MappedAsDescribed

\* However many contexts, pages and sections there are, a memory.ini that was
\* accepted is mapped as its rules say, or, where it asks for more pages than
\* the memory has, not at all (configureMMUFromActiveModel, validateConfig).
THEOREM MapsTheFile == Spec => []MappedAsDescribed
<1>1. Init => MemoryInv
  BY MemoryStart
<1>2. MemoryInv /\ [Next]_vars => MemoryInv'
  BY MemoryStep
<1>3. MemoryInv => MappedAsDescribed
  BY DEF MemoryInv
<1> QED
  BY <1>1, <1>2, <1>3, PTL DEF Spec

-----------------------------------------------------------------------------
\* The tables of /system.ini.
Contexts == {l.context : l \in Loads} \union {DEFAULT_CONTEXT}

BootCartridge == [name |-> "boot", file |-> "boot.rom"]

Entries == [cart : Nat, context : Contexts]

ConfigRecords ==
  [name : {c.name : c \in Configs} \union {"SAFE"},
   memory : {c.memory : c \in Configs} \union {"default"},
   contextDefined : SUBSET Contexts, entries : Seq(Entries)]

Defined(config, carts) ==
  \A j \in DOMAIN config.entries : config.entries[j].cart \in DOMAIN carts

Tables ==
  /\ cartridges \in Seq(Cartridges \union {BootCartridge})
  /\ configs \in Seq(ConfigRecords)
  /\ DOMAIN systemConfig = {"version", "defaultName", "defaultConfig"}
  /\ \A i \in DOMAIN configs : Defined(configs[i], cartridges)

SystemInv == Tables /\ MenuIsSound

\* The fallback profile is in order, and may be offered.
LEMMA ProfileIsSound ==
  ASSUME loadFallbackProfile
  PROVE  /\ Tables' /\ MenuIsSound'
         /\ 1 \in DOMAIN configs' /\ Len(configs'[1].entries) = 1
<1> DEFINE entry == [cart |-> 1, context |-> DEFAULT_CONTEXT]
           config == [name |-> "SAFE", memory |-> "default",
                      contextDefined |-> {DEFAULT_CONTEXT}, entries |-> <<entry>>]
<1>1. /\ cartridges' = <<BootCartridge>> /\ configs' = <<config>>
      /\ systemConfig'.defaultConfig = 1
      /\ DOMAIN systemConfig' = {"version", "defaultName", "defaultConfig"}
  BY DEF loadFallbackProfile, FallbackCartridges, FallbackConfigs, BootCartridge
<1>2. entry \in Entries /\ entry.cart = 1
  BY DEF Entries, Contexts
<1> HIDE DEF entry
<1>3. <<entry>> \in Seq(Entries) /\ Len(<<entry>>) = 1 /\ DOMAIN <<entry>> = {1} /\ <<entry>>[1] = entry
  BY <1>2
<1>4. config \in ConfigRecords
  BY <1>3 DEF ConfigRecords, Contexts
<1>5. config.entries = <<entry>>
  OBVIOUS
<1> HIDE DEF config
<1>6. <<config>> \in Seq(ConfigRecords) /\ DOMAIN <<config>> = {1} /\ <<config>>[1] = config
  BY <1>4
<1>7. /\ <<BootCartridge>> \in Seq(Cartridges \union {BootCartridge})
      /\ DOMAIN <<BootCartridge>> = {1}
  OBVIOUS
<1>8. Defined(config, <<BootCartridge>>)
  BY <1>2, <1>3, <1>5, <1>7 DEF Defined
<1>9. Tables'
  BY <1>1, <1>6, <1>7, <1>8 DEF Tables
<1>10. MenuIsSound'
  <2>1. Range(configs') = {config}
    BY <1>1, <1>6 DEF Range
  <2>2. config.entries # <<>>
    BY <1>3, <1>5
  <2>3. \A e \in Range(config.entries) : e.cart \in DOMAIN cartridges'
    BY <1>1, <1>2, <1>3, <1>5, <1>7 DEF Range
  <2>4. cartridges' = FallbackCartridges /\ configs' = FallbackConfigs
    BY DEF loadFallbackProfile
  <2> QED
    BY <1>1, <1>6, <2>1, <2>2, <2>3, <2>4 DEF MenuIsSound
<1> QED
  BY <1>1, <1>3, <1>5, <1>6, <1>9, <1>10

\* A section is taken into its table or replaces all by the profile.
LEMMA CartridgeKeeps ==
  ASSUME Tables, NEW c \in Cartridges, CartridgeSection(c), UNCHANGED memoryVars
  PROVE  SystemInv'
<1>1. CASE Reject
  BY <1>1, ProfileIsSound DEF Reject, SystemInv
<1>2. CASE /\ cartridges' = Append(cartridges, c) /\ phase' = "system"
           /\ configs' = configs /\ systemConfig' = systemConfig
  <2>1. /\ cartridges' \in Seq(Cartridges \union {BootCartridge})
        /\ DOMAIN cartridges \subseteq DOMAIN cartridges'
    BY <1>2, AppendProperties, LenProperties DEF Tables
  <2>2. \A i \in DOMAIN configs : Defined(configs[i], cartridges')
    BY <2>1 DEF Tables, Defined
  <2> QED
    BY <1>2, <2>1, <2>2 DEF Tables, SystemInv, MenuIsSound
<1> QED
  BY <1>1, <1>2 DEF CartridgeSection, Reading

LEMMA ConfigKeeps ==
  ASSUME Tables, NEW c \in Configs, ConfigSection(c), UNCHANGED memoryVars
  PROVE  SystemInv'
<1> DEFINE new == [name |-> c.name, memory |-> c.memory, contextDefined |-> {}, entries |-> <<>>]
<1>1. CASE Reject
  BY <1>1, ProfileIsSound DEF Reject, SystemInv
<1>2. CASE /\ configs' = Append(configs, new) /\ phase' = "system"
           /\ cartridges' = cartridges /\ systemConfig' = systemConfig
  <2>1. <<>> \in Seq(Entries) /\ DOMAIN <<>> = {}
    BY EmptySeq
  <2>2. new.entries = <<>> /\ new \in ConfigRecords
    BY <2>1 DEF ConfigRecords
  <2>3. Defined(new, cartridges)
    BY <2>1, <2>2 DEF Defined
  <2> HIDE DEF new
  <2>4. /\ configs' \in Seq(ConfigRecords)
        /\ \A i \in DOMAIN configs' : configs'[i] = new \/ (i \in DOMAIN configs /\ configs'[i] = configs[i])
    BY <1>2, <2>2, AppendProperties, LenProperties DEF Tables
  <2>5. \A i \in DOMAIN configs' : Defined(configs'[i], cartridges')
    BY <1>2, <2>3, <2>4 DEF Tables
  <2> QED
    BY <1>2, <2>4, <2>5 DEF Tables, SystemInv, MenuIsSound
<1> QED
  BY <1>1, <1>2 DEF ConfigSection, Reading

LEMMA LoadKeeps ==
  ASSUME Tables, NEW l \in Loads, LoadSection(l), UNCHANGED memoryVars
  PROVE  SystemInv'
<1> DEFINE i == findConfig(l.config)
           listed == [n \in DOMAIN l.list |-> [cart |-> findCartridge(l.list[n]), context |-> l.context]]
           old == configs[i]
           new == [old EXCEPT !.contextDefined = @ \union {l.context}, !.entries = @ \o listed]
<1>1. CASE Reject
  BY <1>1, ProfileIsSound DEF Reject, SystemInv
<1>2. CASE /\ i # 0 /\ \A e \in Range(listed) : e.cart # 0
           /\ configs' = [configs EXCEPT ![i].contextDefined = @ \union {l.context},
                                         ![i].entries = @ \o listed]
           /\ phase' = "system" /\ cartridges' = cartridges /\ systemConfig' = systemConfig
  <2>1. i \in DOMAIN configs
    <3> DEFINE S == {j \in DOMAIN configs : configs[j].name = l.config}
    <3>1. S \subseteq Nat \ {0} /\ i = First(S)
      BY Positive DEF Tables, findConfig
    <3> HIDE DEF S
    <3>2. First(S) \in S
      BY <1>2, <3>1, FirstIs
    <3> QED
      BY <3>1, <3>2 DEF S
  <2>2. old \in ConfigRecords /\ old.entries \in Seq(Entries) /\ Defined(old, cartridges)
    <3>1. old \in ConfigRecords
      BY <2>1, Positive DEF Tables
    <3>2. Defined(old, cartridges)
      BY <2>1 DEF Tables
    <3> HIDE DEF old
    <3> QED
      BY <3>1, <3>2 DEF ConfigRecords
  <2>3. ASSUME NEW n \in DOMAIN l.list
        PROVE  listed[n] \in Entries /\ listed[n].cart \in DOMAIN cartridges
    <3> DEFINE S == {j \in DOMAIN cartridges : cartridges[j].name = l.list[n]}
    <3>1. S \subseteq Nat \ {0} /\ findCartridge(l.list[n]) = First(S)
      BY Positive DEF Tables, findCartridge
    <3>2. listed[n] \in Range(listed) /\ listed[n].cart = findCartridge(l.list[n])
      BY DEF Range
    <3> HIDE DEF S
    <3>3. First(S) \in S
      BY <1>2, <3>1, <3>2, FirstIs
    <3>4. findCartridge(l.list[n]) \in DOMAIN cartridges /\ findCartridge(l.list[n]) \in Nat
      BY <3>1, <3>3 DEF S
    <3> QED
      BY <3>4 DEF Entries, Contexts
  <2>4. listed \in Seq(Entries) /\ Len(listed) = Len(l.list) /\ DOMAIN listed = DOMAIN l.list
    <3>1. Len(l.list) \in Nat /\ DOMAIN l.list = 1 .. Len(l.list)
      BY StartupAssumption, LenProperties
    <3>2. \A n \in 1 .. Len(l.list) : listed[n] \in Entries
      BY <2>3, <3>1
    <3>3. listed = [n \in 1 .. Len(l.list) |-> listed[n]]
      BY <3>1
    <3> HIDE DEF listed
    <3>4. listed \in Seq(Entries)
      BY <3>1, <3>2, <3>3, IsASeq
    <3>5. DOMAIN listed = 1 .. Len(l.list)
      BY <3>3
    <3> QED
      BY <3>1, <3>4, <3>5, LenProperties
  <2>5. \A n \in DOMAIN listed : listed[n].cart \in DOMAIN cartridges
    BY <2>3, <2>4
  <2> HIDE DEF listed
  <2>6. /\ old.entries \o listed \in Seq(Entries)
        /\ \A n \in DOMAIN (old.entries \o listed) :
             (old.entries \o listed)[n].cart \in DOMAIN cartridges
    <3>1. old.entries \o listed \in Seq(Entries)
      BY <2>2, <2>4, ConcatProperties
    <3>2. ASSUME NEW n \in DOMAIN (old.entries \o listed)
          PROVE  \/ n \in DOMAIN old.entries /\ (old.entries \o listed)[n] = old.entries[n]
                 \/ \E m \in DOMAIN listed : (old.entries \o listed)[n] = listed[m]
      <4> DEFINE a == old.entries
                 p == Len(a)
                 q == Len(listed)
      <4>1. p \in Nat /\ q \in Nat /\ DOMAIN a = 1 .. p /\ DOMAIN listed = 1 .. q
        BY <2>2, <2>4, LenProperties
      <4>2. n \in 1 .. p + q
        <5>1. Len(old.entries \o listed) = p + q
          BY <2>2, <2>4, ConcatProperties
        <5>2. DOMAIN (old.entries \o listed) = 1 .. Len(old.entries \o listed)
          BY <3>1, LenProperties
        <5> QED
          BY <5>1, <5>2
      <4>3. (a \o listed)[n] = IF n <= p THEN a[n] ELSE listed[n - p]
        BY <2>2, <2>4, <4>2, ConcatProperties
      <4> HIDE DEF a, p, q
      <4>4. n <= p => n \in 1 .. p
        BY <4>1, <4>2
      <4>5. ~(n <= p) => n - p \in 1 .. q
        BY <4>1, <4>2
      <4> QED
        BY <4>1, <4>3, <4>4, <4>5 DEF a
    <3> QED
      BY <2>2, <2>5, <3>1, <3>2 DEF Defined
  <2>7. new.entries = old.entries \o listed /\ new \in ConfigRecords
    BY <2>2, <2>6 DEF ConfigRecords, Contexts
  <2>8. configs' = [configs EXCEPT ![i] = new]
    BY <1>2, <2>1 DEF Tables
  <2>9. Defined(new, cartridges)
    BY <2>6, <2>7 DEF Defined
  <2> HIDE DEF new, i
  <2>10. /\ configs' \in Seq(ConfigRecords)
         /\ \A j \in DOMAIN configs' : configs'[j] = new \/ (j \in DOMAIN configs /\ configs'[j] = configs[j])
    BY <2>1, <2>7, <2>8, ExceptSeq DEF Tables
  <2>11. \A j \in DOMAIN configs' : Defined(configs'[j], cartridges')
    BY <1>2, <2>9, <2>10 DEF Tables
  <2> QED
    BY <1>2, <2>10, <2>11 DEF Tables, SystemInv, MenuIsSound
<1>3. Reject \/ /\ i # 0 /\ \A e \in Range(listed) : e.cart # 0
                /\ configs' = [configs EXCEPT ![i].contextDefined = @ \union {l.context},
                                              ![i].entries = @ \o listed]
                /\ phase' = "system" /\ cartridges' = cartridges /\ systemConfig' = systemConfig
  BY DEF LoadSection, Reading
<1> QED
  BY <1>1, <1>2, <1>3

\* Only what was found in order is offered.
LEMMA EndOffers ==
  ASSUME Tables, EndOfSystemIni, UNCHANGED memoryVars
  PROVE  SystemInv'
<1> DEFINE default == IF systemConfig.defaultName = "" THEN 1 ELSE findConfig(systemConfig.defaultName)
<1>1. CASE ~Accepted(default)
  BY <1>1, ProfileIsSound DEF EndOfSystemIni, SystemInv
<1>2. CASE Accepted(default)
  <2>1. /\ cartridges' = cartridges /\ configs' = configs /\ memoryConfig' = memoryConfig
        /\ systemConfig' = [systemConfig EXCEPT !.defaultConfig = default]
    BY <1>2 DEF EndOfSystemIni, memoryVars
  <2>2. Tables'
    BY <2>1 DEF Tables
  <2> HIDE DEF default
  <2>3. MenuIsSound'
    <3>1. \A c \in Range(configs) : c.entries # <<>> /\ \A e \in Range(c.entries) : e.cart \in DOMAIN cartridges
      BY <1>2 DEF Accepted, Tables, Defined, Range
    <3>2. systemConfig'.defaultConfig = default
      BY <2>1 DEF Tables
    <3> QED
      BY <1>2, <2>1, <3>1, <3>2 DEF Accepted, MenuIsSound
  <2> QED
    BY <2>2, <2>3 DEF SystemInv
<1> QED
  BY <1>1, <1>2

\* Where the tables stay as they are they stay in order, and no other step
\* than those above leads to the menu.
LEMMA TablesStand ==
  ASSUME Tables, UNCHANGED <<cartridges, configs>>,
         DOMAIN systemConfig' = DOMAIN systemConfig
  PROVE  Tables' /\ (phase' # "menu" => SystemInv')
  BY DEF Tables, SystemInv, MenuIsSound

LEMMA SystemStep ==
  ASSUME SystemInv, [Next]_vars
  PROVE  SystemInv'
<1>1. Tables
  BY DEF SystemInv
<1>2. ASSUME SystemIni PROVE SystemInv'
  <2>1. UNCHANGED memoryVars
    BY <1>2 DEF SystemIni
  <2>2. ASSUME NEW h \in Headings, SystemHeading(h) PROVE SystemInv'
    <3>1. phase' # "menu" /\ UNCHANGED <<cartridges, configs>>
      BY <2>2 DEF SystemHeading, Reading
    <3>2. DOMAIN systemConfig' = DOMAIN systemConfig
      BY <2>2 DEF SystemHeading, Overwritten
    <3> QED
      BY <1>1, <3>1, <3>2, TablesStand
  <2>3. WrongSystemLine => SystemInv'
    BY ProfileIsSound DEF WrongSystemLine, Reject, SystemInv
  <2> QED
    BY <1>1, <1>2, <2>1, <2>2, <2>3, CartridgeKeeps, ConfigKeeps, LoadKeeps, EndOffers DEF SystemIni
<1>3. ASSUME Memory \/ initializeSystemConfig \/ waitForUserSelection PROVE SystemInv'
  <2>1. phase' # "menu" /\ UNCHANGED systemVars
    BY <1>3 DEF Memory, initializeSystemConfig, waitForUserSelection
  <2> QED
    BY <1>1, <2>1, TablesStand DEF systemVars
<1>4. ASSUME activateConfiguration PROVE SystemInv'
  <2>1. loadFallbackProfile \/ (phase' # "menu" /\ UNCHANGED <<cartridges, configs, systemConfig>>)
    BY <1>4 DEF activateConfiguration, Booted
  <2> QED
    BY <1>1, <2>1, ProfileIsSound, TablesStand DEF SystemInv
<1>5. ASSUME UNCHANGED vars PROVE SystemInv'
  <2>1. UNCHANGED <<phase, cartridges, configs, systemConfig, memoryConfig>>
    BY <1>5 DEF vars, systemVars, memoryVars
  <2> QED
    BY <2>1 DEF SystemInv, Tables, Defined, MenuIsSound
<1> QED
  BY <1>2, <1>3, <1>4, <1>5 DEF Next

LEMMA SystemStart ==
  ASSUME Init
  PROVE  SystemInv
<1>1. /\ phase = "memory" /\ cartridges = <<>> /\ configs = <<>>
      /\ DOMAIN systemConfig = {"version", "defaultName", "defaultConfig"}
  BY DEF Init
<1>2. /\ \A S : <<>> \in Seq(S)
      /\ DOMAIN <<>> = {}
  BY EmptySeq
<1> QED
  BY <1>1, <1>2 DEF SystemInv, Tables, MenuIsSound

\* Whatever /system.ini says and however long it is, the menu offers
\* configurations with cartridges that are defined, whose files are there,
\* for the model in force, or the fallback profile (initializeSystemConfig).
THEOREM OffersWhatLoads == Spec => []MenuIsSound
<1>1. Init => SystemInv
  BY SystemStart
<1>2. SystemInv /\ [Next]_vars => SystemInv'
  BY SystemStep
<1>3. SystemInv => MenuIsSound
  BY DEF SystemInv
<1> QED
  BY <1>1, <1>2, <1>3, PTL DEF Spec

-----------------------------------------------------------------------------
\* The memory while a list is loaded: what its first entries put there, told
\* by the places of a page and by what the slots are.
Loaded(n) ==
  \A a \in ModelSlots, x \in Places :
    mem[mmu[a[1]][a[2]].page][x] = LastBefore(n, a[1], a[2], x)

OfModel == \A e \in Range(Listed) : <<e.context, 0>> \in ModelSlots

Faithful == valid /\ configured /\ ~activation.fallback /\ OfModel

BootInv ==
  /\ phase # "memory" => memoryPhase = "set up"
  /\ activation \in [config : Nat, next : Nat, fallback : BOOLEAN]
  /\ DOMAIN mem = 0 .. NUM_TOTAL_PAGES - 1
  /\ phase \in {"memory", "system", "menu"} =>
       \A p \in DOMAIN mem, x \in Places : mem[p][x] = Nothing
  /\ phase = "loading" => activation.config \in DOMAIN configs /\ activation.next \in DOMAIN Listed
  /\ phase = "loading" /\ Faithful => \A n \in Nat : n = activation.next => Loaded(n)
  /\ phase = "booted" /\ Faithful => /\ Listed \in Seq(Entries)
                                     /\ \A n \in Nat : n = Len(Listed) + 1 => Loaded(n)
                                     /\ context = memoryConfig.boot_context

\* Two slots share a page just where they are one piece.
LEMMA Maps ==
  ASSUME MappedAsDescribed, memoryPhase = "set up", valid, configured
  PROVE  \A a, b \in ModelSlots :
           /\ mmu[a[1]][a[2]].page \in 0 .. NUM_TOTAL_PAGES - 1
           /\ (mmu[a[1]][a[2]].page = mmu[b[1]][b[2]].page)
                <=> (Identity(a[1], a[2]) = Identity(b[1], b[2]))
  BY DEF MappedAsDescribed

\* What an entry has for a place.
Reaches(i, c, s, x) == FromHeader(i, c, s, x) \/ FromPayload(i, c, s, x)

Has(i, c, s, x) == <<FileOf(i), IF FromHeader(i, c, s, x) THEN "header" ELSE "payload">>

Into(n, c, s, x) == {i \in DOMAIN Listed : i < n /\ Reaches(i, c, s, x)}

Latest(S) == CHOOSE i \in S : \A j \in S : j <= i

LEMMA LastBeforeIs ==
  ASSUME NEW n, NEW c, NEW s, NEW x
  PROVE  LastBefore(n, c, s, x) =
           IF Into(n, c, s, x) = {} THEN Nothing ELSE Has(Latest(Into(n, c, s, x)), c, s, x)
  BY Zenon DEF LastBefore, Into, Has, Latest, Reaches

\* One entry more is the last for what it reaches.
LEMMA LastGrows ==
  ASSUME DOMAIN Listed \subseteq Nat, NEW n \in DOMAIN Listed, NEW c, NEW s, NEW x
  PROVE  LastBefore(n + 1, c, s, x) =
           IF Reaches(n, c, s, x) THEN Has(n, c, s, x) ELSE LastBefore(n, c, s, x)
<1> DEFINE old == Into(n, c, s, x)
           new == Into(n + 1, c, s, x)
<1>1. \A i \in DOMAIN Listed : i < n + 1 <=> i < n \/ i = n
  OBVIOUS
<1>2. CASE ~Reaches(n, c, s, x)
  <2>1. new = old
    BY <1>1, <1>2 DEF Into
  <2> QED
    BY <1>2, <2>1, LastBeforeIs
<1>3. CASE Reaches(n, c, s, x)
  <2>1. n \in new /\ \A j \in new : j \in Nat /\ j <= n
    BY <1>1, <1>3 DEF Into
  <2> HIDE DEF new
  <2>2. \A i \in new : (\A j \in new : j <= i) => i = n
    BY <2>1
  <2>3. Latest(new) = n
    BY <2>1, <2>2 DEF Latest
  <2> QED
    BY <1>3, <2>1, <2>3, LastBeforeIs DEF new
<1> QED
  BY <1>2, <1>3

\* Before the first entry there is nothing.
LEMMA NothingBefore ==
  ASSUME DOMAIN Listed \subseteq Nat \ {0}, NEW c, NEW s, NEW x
  PROVE  LastBefore(1, c, s, x) = Nothing
<1>1. Into(1, c, s, x) = {}
  BY DEF Into
<1> QED
  BY <1>1, LastBeforeIs

LEMMA LastIsSlot == LastSlot \in Slots
  BY MemoryAssumption DEF LastSlot, Slots

\* A cartridge that was read to its end is in the pages of what it reaches.
LEMMA LoadingAdds ==
  ASSUME MappedAsDescribed, memoryPhase = "set up", valid, configured, OfModel,
         DOMAIN mem = 0 .. NUM_TOTAL_PAGES - 1, DOMAIN Listed \subseteq Nat,
         NEW n \in DOMAIN Listed, Loaded(n),
         NEW load, load.ok, load.done = Roms[FileOf(n)].payload,
         mem' = Written(FileOf(n), Listed[n].context, load)
  PROVE  \A a \in ModelSlots, x \in Places :
           mem'[mmu[a[1]][a[2]].page][x] = LastBefore(n + 1, a[1], a[2], x)
<1> DEFINE file == FileOf(n)
           ctx == Listed[n].context
<1>1. \A s \in Slots : <<ctx, s>> \in ModelSlots
  <2>1. Listed[n] \in Range(Listed)
    BY DEF Range
  <2>2. <<ctx, 0>> \in ModelSlots
    BY <2>1 DEF OfModel
  <2> QED
    BY <2>2 DEF ModelSlots
<1> SUFFICES ASSUME NEW a \in ModelSlots, NEW x \in Places
             PROVE  mem'[mmu[a[1]][a[2]].page][x] = LastBefore(n + 1, a[1], a[2], x)
  OBVIOUS
<1> DEFINE p == mmu[a[1]][a[2]].page
           header == x \in Roms[file].type /\ mmu[ctx][LastSlot].page = p
           payload == \E s \in Slots : <<s, x>> \in load.done /\ mmu[ctx][s].page = p
<1>2. p \in DOMAIN mem
  BY Maps
<1>3. \A s \in Slots : mmu[ctx][s].page = p <=> Identity(ctx, s) = Identity(a[1], a[2])
  <2> TAKE s \in Slots
  <2> DEFINE b == <<ctx, s>>
  <2>1. b \in ModelSlots /\ b[1] = ctx /\ b[2] = s
    BY <1>1
  <2> HIDE DEF b
  <2>2. mmu[b[1]][b[2]].page = p <=> Identity(b[1], b[2]) = Identity(a[1], a[2])
    BY <2>1, Maps
  <2> QED
    BY <2>1, <2>2
<1>4. mem'[p][x] = IF header THEN <<file, "header">>
                   ELSE IF payload THEN <<file, "payload">> ELSE mem[p][x]
  BY <1>2 DEF Written
<1>5. LastBefore(n + 1, a[1], a[2], x) =
        IF Reaches(n, a[1], a[2], x) THEN Has(n, a[1], a[2], x) ELSE LastBefore(n, a[1], a[2], x)
  BY LastGrows
<1>6. mem[p][x] = LastBefore(n, a[1], a[2], x)
  BY DEF Loaded
<1>7. FromHeader(n, a[1], a[2], x) <=> header
  BY <1>3, LastIsSlot DEF FromHeader
<1>8. FromPayload(n, a[1], a[2], x) <=> payload
  BY <1>3 DEF FromPayload
<1> HIDE DEF header, payload, p
<1>9. mem'[p][x] = LastBefore(n + 1, a[1], a[2], x)
  BY <1>4, <1>5, <1>6, <1>7, <1>8 DEF Reaches, Has
<1> QED
  BY <1>9 DEF p

LEMMA ListIs ==
  ASSUME Tables, NEW i \in DOMAIN configs
  PROVE  LET entries == configs[i].entries
         IN /\ entries \in Seq(Entries) /\ Len(entries) \in Nat
            /\ DOMAIN entries = 1 .. Len(entries)
<1>1. configs[i] \in ConfigRecords
  BY Positive DEF Tables
<1>2. configs[i].entries \in Seq(Entries)
  BY <1>1 DEF ConfigRecords
<1> QED
  BY <1>2, LenProperties

\* The list of a configuration and what it reaches stay what they are.
LEMMA SameLists ==
  ASSUME memoryConfig' = memoryConfig, UNCHANGED <<cartridges, configs>>,
         activation'.config = activation.config
  PROVE  /\ Listed' = Listed
         /\ OfModel' = OfModel
         /\ \A n, c, s, x : LastBefore(n, c, s, x)' = LastBefore(n, c, s, x)
<1>1. Listed' = Listed /\ \A i : FileOf(i)' = FileOf(i)
  BY DEF Listed, FileOf
<1>2. OfModel' = OfModel
  BY <1>1, SameSlots DEF OfModel
<1>3. \A i, c, s, x : /\ FromHeader(i, c, s, x)' = FromHeader(i, c, s, x)
                      /\ FromPayload(i, c, s, x)' = FromPayload(i, c, s, x)
  <2>1. \A i, c, s, x : FromHeader(i, c, s, x)' = FromHeader(i, c, s, x)
    BY SMTT(30), <1>1, SameSlots DEF FromHeader
  <2>2. ASSUME NEW i, NEW c, NEW s, NEW x
        PROVE  FromPayload(i, c, s, x)' = FromPayload(i, c, s, x)
    <3>1. FileOf(i)' = FileOf(i) /\ Listed'[i].context = Listed[i].context
      BY <1>1
    <3>2. \A b, t : Identity(b, t)' = Identity(b, t)
      BY SameSlots
    <3> QED
      BY <3>1, <3>2 DEF FromPayload
  <2> QED
    BY <2>1, <2>2
<1>4. ASSUME NEW n, NEW c, NEW s, NEW x
      PROVE  LastBefore(n, c, s, x)' = LastBefore(n, c, s, x)
  <2>1. /\ Into(n, c, s, x)' = Into(n, c, s, x)
        /\ \A i : Has(i, c, s, x)' = Has(i, c, s, x)
    BY <1>1, <1>3 DEF Into, Reaches, Has
  <2>2. LastBefore(n, c, s, x)' =
          (IF Into(n, c, s, x) = {} THEN Nothing ELSE Has(Latest(Into(n, c, s, x)), c, s, x))'
    BY Zenon DEF LastBefore, Into, Has, Latest, Reaches
  <2> QED
    BY <2>1, <2>2, LastBeforeIs
<1> QED
  BY <1>1, <1>2, <1>4

\* Until the choice nothing is loaded.
LEMMA QuietKeeps ==
  ASSUME BootInv, UNCHANGED bootVars, phase \in {"memory", "system", "menu"},
         phase' \in {"memory", "system", "menu"}, phase' # "memory" => memoryPhase' = "set up"
  PROVE  BootInv'
  BY DEF BootInv, bootVars

LEMMA ChoiceKeeps ==
  ASSUME MemoryInv, SystemInv, BootInv, waitForUserSelection
  PROVE  BootInv'
<1>1. /\ phase = "menu" /\ phase' = "loading" /\ mem' = mem /\ Tables /\ MenuIsSound
      /\ UNCHANGED memoryVars /\ UNCHANGED <<cartridges, configs, systemConfig>>
  BY DEF waitForUserSelection, SystemInv, systemVars
<1>2. PICK i \in DOMAIN configs \union {systemConfig.defaultConfig} :
        activation' = [config |-> i, next |-> 1, fallback |-> FALSE]
  BY DEF waitForUserSelection
<1>3. i \in DOMAIN configs /\ configs[i].entries # <<>>
  BY <1>1, <1>2 DEF MenuIsSound, Range
<1> DEFINE entries == configs[i].entries
<1>4. entries \in Seq(Entries) /\ Len(entries) \in Nat /\ DOMAIN entries = 1 .. Len(entries)
  BY <1>1, <1>3, ListIs
<1>5. Listed' = entries
  BY <1>1, <1>2 DEF Listed
<1>6. 1 \in DOMAIN entries
  BY <1>3, <1>4, EmptySeq
<1>7. i \in Nat
  BY <1>1, <1>3, Positive DEF Tables
<1> HIDE DEF entries
<1>8. ASSUME Faithful' PROVE Loaded(1)'
  <2>1. valid /\ configured /\ memoryPhase = "set up" /\ memoryConfig' = memoryConfig /\ mmu' = mmu
    BY <1>1, <1>8 DEF Faithful, memoryVars, BootInv
  <2>2. \A a \in ModelSlots : mmu[a[1]][a[2]].page \in DOMAIN mem
    BY <2>1, Maps DEF MemoryInv, BootInv
  <2>3. \A a \in ModelSlots, x \in Places : mem[mmu[a[1]][a[2]].page][x] = Nothing
    BY <1>1, <2>2 DEF BootInv
  <2>4. \A n \in DOMAIN Listed' : ~(n < 1)
    BY <1>4, <1>5
  <2>5. \A c, s, x : LastBefore(1, c, s, x)' = Nothing
    BY <2>4 DEF LastBefore
  <2>6. ModelSlots' = ModelSlots
    BY <2>1, SameSlots
  <2> QED
    BY <1>1, <2>1, <2>3, <2>5, <2>6 DEF Loaded
<1>9. /\ activation' \in [config : Nat, next : Nat, fallback : BOOLEAN]
      /\ activation'.config = i /\ activation'.next = 1
  BY <1>2, <1>7
<1> QED
  BY <1>1, <1>3, <1>5, <1>6, <1>8, <1>9 DEF BootInv, memoryVars

LEMMA ActivationKeeps ==
  ASSUME MemoryInv, SystemInv, BootInv, activateConfiguration
  PROVE  BootInv'
<1> DEFINE n == activation.next
           file == FileOf(n)
           target == Listed[n].context
<1>1. /\ phase = "loading" /\ memoryPhase = "set up" /\ UNCHANGED memoryVars /\ Tables
      /\ memoryConfig' = memoryConfig /\ mmu' = mmu /\ memoryPhase' = memoryPhase
      /\ valid' = valid /\ configured' = configured
  BY DEF activateConfiguration, BootInv, memoryVars, SystemInv
<1>2. PICK load \in loadROMCartridgeFile(file) :
        /\ mem' = Written(file, target, load)
        /\ IF load.ok /\ n < Len(Listed)
           THEN /\ activation' = [activation EXCEPT !.next = @ + 1]
                /\ UNCHANGED <<phase, cartridges, configs, systemConfig>>
           ELSE IF load.ok \/ activation.fallback THEN Booted
           ELSE /\ loadFallbackProfile
                /\ activation' = [config |-> 1, next |-> 1, fallback |-> TRUE]
                /\ UNCHANGED phase
  BY DEF activateConfiguration, FileOf, Listed, Target
<1>3. /\ activation \in [config : Nat, next : Nat, fallback : BOOLEAN]
      /\ activation.config \in DOMAIN configs /\ n \in DOMAIN Listed
  BY <1>1 DEF BootInv
<1>4. Listed \in Seq(Entries) /\ Len(Listed) \in Nat /\ DOMAIN Listed = 1 .. Len(Listed)
  BY <1>1, <1>3, ListIs DEF Listed
<1>5. DOMAIN mem = 0 .. NUM_TOTAL_PAGES - 1 /\ DOMAIN mem' = DOMAIN mem
  BY <1>2 DEF Written, BootInv
<1>6. load.ok => load.done = Roms[file].payload
  BY DEF loadROMCartridgeFile
<1> HIDE DEF file, target
<1>7. ASSUME Faithful, load.ok
      PROVE  \A a \in ModelSlots, x \in Places :
               mem'[mmu[a[1]][a[2]].page][x] = LastBefore(n + 1, a[1], a[2], x)
  <2>1. Loaded(n) /\ valid /\ configured /\ OfModel /\ MappedAsDescribed
    BY <1>1, <1>3, <1>7 DEF BootInv, Faithful, MemoryInv
  <2>2. DOMAIN Listed \subseteq Nat
    BY <1>4
  <2> QED
    BY <1>1, <1>2, <1>3, <1>5, <1>6, <1>7, <2>1, <2>2, LoadingAdds DEF file, target
<1>8. CASE load.ok /\ n < Len(Listed)
  <2>1. /\ activation' = [activation EXCEPT !.next = @ + 1] /\ phase' = "loading"
        /\ UNCHANGED <<cartridges, configs, systemConfig>>
    BY <1>1, <1>2, <1>8
  <2>2. /\ activation' \in [config : Nat, next : Nat, fallback : BOOLEAN]
        /\ activation'.config = activation.config /\ activation'.next = n + 1
        /\ activation'.fallback = activation.fallback
    BY <1>3, <2>1
  <2>3. /\ Listed' = Listed /\ OfModel' = OfModel /\ ModelSlots' = ModelSlots
        /\ \A m, c, s, x : LastBefore(m, c, s, x)' = LastBefore(m, c, s, x)
    BY <1>1, <2>1, <2>2, SameLists, SameSlots
  <2>4. n + 1 \in DOMAIN Listed'
    BY <1>3, <1>4, <1>8, <2>3
  <2>5. ASSUME Faithful', NEW m \in Nat, m = activation'.next PROVE Loaded(m)'
    <3>1. Faithful
      BY <1>1, <2>2, <2>3, <2>5 DEF Faithful
    <3>2. \A a \in ModelSlots, x \in Places :
            mem'[mmu[a[1]][a[2]].page][x] = LastBefore(m, a[1], a[2], x)
      BY <1>7, <1>8, <2>2, <2>5, <3>1
    <3> QED
      BY <1>1, <2>3, <3>2 DEF Loaded
  <2> QED
    BY <1>1, <1>3, <1>5, <2>1, <2>2, <2>4, <2>5 DEF BootInv
<1>9. CASE ~(load.ok /\ n < Len(Listed)) /\ (load.ok \/ activation.fallback)
  <2>1. /\ phase' = "booted" /\ context' = memoryConfig.boot_context
        /\ UNCHANGED <<cartridges, configs, activation>>
    BY <1>2, <1>9 DEF Booted
  <2>2. /\ Listed' = Listed /\ OfModel' = OfModel /\ ModelSlots' = ModelSlots
        /\ \A m, c, s, x : LastBefore(m, c, s, x)' = LastBefore(m, c, s, x)
    BY <1>1, <2>1, SameLists, SameSlots
  <2>3. ASSUME Faithful', NEW m \in Nat, m = Len(Listed') + 1 PROVE Loaded(m)'
    <3>1. Faithful /\ load.ok
      BY <1>1, <1>9, <2>1, <2>2, <2>3 DEF Faithful
    <3>2. m = n + 1
      BY <1>3, <1>4, <1>9, <2>2, <2>3, <3>1
    <3>3. \A a \in ModelSlots, x \in Places :
            mem'[mmu[a[1]][a[2]].page][x] = LastBefore(m, a[1], a[2], x)
      BY <1>7, <3>1, <3>2
    <3> QED
      BY <1>1, <2>2, <3>3 DEF Loaded
  <2> QED
    BY <1>1, <1>3, <1>4, <1>5, <2>1, <2>2, <2>3 DEF BootInv
<1>10. CASE ~load.ok /\ ~activation.fallback
  <2>1. /\ loadFallbackProfile /\ phase' = "loading"
        /\ activation' = [config |-> 1, next |-> 1, fallback |-> TRUE]
    BY <1>1, <1>2, <1>10
  <2>2. activation'.config = 1 /\ activation'.next = 1 /\ activation'.fallback
    BY <2>1
  <2>3. /\ 1 \in DOMAIN configs' /\ Tables' /\ Len(configs'[1].entries) = 1
    BY <2>1, ProfileIsSound
  <2>4. configs'[1] \in ConfigRecords
    BY <2>3, Positive DEF Tables
  <2>5. DOMAIN configs'[1].entries = 1 .. 1
    BY <2>3, <2>4, LenProperties DEF ConfigRecords
  <2>6. 1 \in DOMAIN Listed'
    BY <2>2, <2>5 DEF Listed
  <2>7. ~Faithful'
    BY <2>2 DEF Faithful
  <2> QED
    BY <1>1, <1>5, <2>1, <2>2, <2>3, <2>6, <2>7 DEF BootInv
<1> QED
  BY <1>8, <1>9, <1>10

LEMMA BootStep ==
  ASSUME MemoryInv, SystemInv, BootInv, [Next]_vars
  PROVE  BootInv'
<1>1. ASSUME Memory PROVE BootInv'
  BY <1>1, QuietKeeps DEF Memory
<1>2. ASSUME initializeSystemConfig PROVE BootInv'
  BY <1>2, QuietKeeps DEF initializeSystemConfig, memoryVars
<1>3. ASSUME SystemIni PROVE BootInv'
  <2>1. UNCHANGED bootVars /\ memoryPhase' = memoryPhase
    BY <1>3 DEF SystemIni, memoryVars
  <2>2. phase = "system" /\ phase' \in {"system", "menu"}
    BY <1>3 DEF SystemIni, SystemHeading, CartridgeSection, ConfigSection, LoadSection,
                WrongSystemLine, EndOfSystemIni, Reading, Reject
  <2>3. memoryPhase = "set up"
    BY <2>2 DEF BootInv
  <2> QED
    BY <2>1, <2>2, <2>3, QuietKeeps
<1>4. ASSUME UNCHANGED vars PROVE BootInv'
  <2>1. /\ UNCHANGED <<phase, memoryPhase, memoryConfig, valid, configured, mmu>>
        /\ UNCHANGED <<cartridges, configs, activation, context, mem>>
    BY <1>4 DEF vars, systemVars, memoryVars, bootVars
  <2>2. /\ Listed' = Listed /\ OfModel' = OfModel /\ ModelSlots' = ModelSlots
        /\ \A m, c, s, x : LastBefore(m, c, s, x)' = LastBefore(m, c, s, x)
    BY <2>1, SameLists, SameSlots
  <2>3. Faithful' = Faithful /\ \A m : Loaded(m)' = Loaded(m)
    BY <2>1, <2>2 DEF Faithful, Loaded
  <2> QED
    BY <2>1, <2>2, <2>3 DEF BootInv
<1> QED
  BY <1>1, <1>2, <1>3, <1>4, ChoiceKeeps, ActivationKeeps DEF Next

LEMMA BootStart ==
  ASSUME Init
  PROVE  BootInv
<1>1. /\ phase = "memory"
      /\ activation = [config |-> 0, next |-> 1, fallback |-> FALSE]
      /\ mem = [p \in 0 .. NUM_TOTAL_PAGES - 1 |-> [x \in Places |-> Nothing]]
  BY DEF Init
<1>2. activation \in [config : Nat, next : Nat, fallback : BOOLEAN]
  BY <1>1
<1>3. \A p \in DOMAIN mem, x \in Places : mem[p][x] = Nothing
  BY <1>1
<1> QED
  BY <1>1, <1>2, <1>3 DEF BootInv

\* Whatever the files say, a configuration that was activated, from memory.ini
\* accepted, is in memory as its list says: in every slot of the model what the
\* last cartridge for that piece of memory put there, through whatever context
\* (activateConfiguration, the ROM loader, configureMMUFromActiveModel).
THEOREM BootsAsListed == Spec => []BootedAsListed
<1> DEFINE IInv == MemoryInv /\ SystemInv /\ BootInv
<1>1. Init => IInv
  BY MemoryStart, SystemStart, BootStart
<1>2. IInv /\ [Next]_vars => IInv'
  BY MemoryStep, SystemStep, BootStep
<1>3. IInv => BootedAsListed
  <2> SUFFICES ASSUME BootInv, phase = "booted", Faithful
               PROVE  BootedAsListed
    BY DEF BootedAsListed, Faithful, OfModel, Listed
  <2>1. /\ Listed \in Seq(Entries) /\ context = memoryConfig.boot_context
        /\ \A n \in Nat : n = Len(Listed) + 1 => Loaded(n)
    BY DEF BootInv
  <2>2. Len(Listed) + 1 \in Nat
    BY <2>1, LenProperties
  <2>3. Loaded(Len(Listed) + 1)
    BY <2>1, <2>2
  <2> QED
    BY <2>1, <2>3 DEF BootedAsListed, Loaded
<1> HIDE DEF IInv
<1> QED
  BY <1>1, <1>2, <1>3, PTL DEF Spec
=============================================================================
