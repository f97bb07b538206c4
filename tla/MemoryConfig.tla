----------------------------- MODULE MemoryConfig -----------------------------
(***************************************************************************)
(* memory_config.cpp: /memory.ini is parsed into models, layouts of regions *)
(* and bindings of contexts to layouts, validated, and turned into the      *)
(* entries of the MMU.                                                      *)
(*                                                                         *)
(* A step of the parser reads one section, header and keys; the sections    *)
(* come in any order and any of them may be wrong.  The text of the file,   *)
(* the codes and places of its errors, and regions of type io, whose pages  *)
(* get bit 7 exactly as those that trap writes, are abstracted.             *)
(***************************************************************************)
EXTENDS Integers, FiniteSets, Sequences, Functions

CONSTANTS
  NUM_CONTEXTS,        \* contexts of the MMU (mmu.h)
  NUM_CONTEXT_PAGES,   \* entries of a context
  NUM_TOTAL_PAGES,     \* pages of the memory
  MAX_MEMORY_MODELS, MAX_MEMORY_LAYOUTS, MAX_MEMORY_REGIONS, MAX_MEMORY_CONTEXTS,
  Systems,    \* what [system] may say: records version, active_model, boot_context
  Models,     \* ... [model.<name>]: records name, contexts
  Layouts,    \* ... [layout.<model>.<name>.region.<name>]: records model, layout, region
  Bindings,   \* ... [context.<model>.<n>]: records model, context, layout
  MaxSections \* bound: sections of /memory.ini

ASSUME MemoryAssumption ==
  /\ NUM_CONTEXTS \in Nat /\ NUM_CONTEXT_PAGES \in Nat \ {0} /\ NUM_TOTAL_PAGES \in Nat
  /\ NUM_CONTEXT_PAGES <= NUM_TOTAL_PAGES
  /\ MAX_MEMORY_CONTEXTS \in 1 .. NUM_CONTEXTS
  /\ \A s \in Systems : DOMAIN s \subseteq {"version", "active_model", "boot_context"}
  /\ \A m \in Models : m.contexts \in Nat
  /\ \A l \in Layouts : /\ l.region.start \in Nat /\ l.region.pages \in Nat
                        /\ l.region.shared \in BOOLEAN
  /\ \A b \in Bindings : b.context \in Nat

VARIABLES
  memoryConfig,
  sections,    \* sections read
  memoryPhase, \* "reading", "read" or "set up"
  valid,       \* initializeMemoryConfig returned true
  configured,  \* configureMMUFromActiveModel returned true
  mmu          \* the entries: the page and bit 7

memoryVars == <<memoryConfig, sections, memoryPhase, valid, configured, mmu>>

Slots == 0 .. NUM_CONTEXT_PAGES - 1

\* The first place that fits in a table, 0 where the code returns no pointer.
First(places) == IF places = {} THEN 0 ELSE CHOOSE i \in places : \A j \in places : i <= j

findModel(name) ==
  First({i \in DOMAIN memoryConfig.models : memoryConfig.models[i].name = name})

findLayout(model, name) ==
  First({i \in DOMAIN memoryConfig.layouts :
           memoryConfig.layouts[i].model = model /\ memoryConfig.layouts[i].name = name})

findContextBinding(model, ctx) ==
  First({i \in DOMAIN memoryConfig.contexts :
           memoryConfig.contexts[i].model = model /\ memoryConfig.contexts[i].context = ctx})

resolveLayoutForContext(model, ctx) ==
  LET binding == findContextBinding(model, ctx)
  IN IF binding = 0 THEN 0 ELSE findLayout(model, memoryConfig.contexts[binding].layout)

Covers(region, slot) == slot \in region.start .. region.start + region.pages - 1

-----------------------------------------------------------------------------
\* What initMMU leaves in every context.
gDefaultMMU == [s \in Slots |-> [page |-> s, bit7 |-> s = NUM_CONTEXT_PAGES - 2]]

MemoryInit ==
  /\ memoryConfig = [version |-> 0, active_model |-> "", boot_context |-> 0,
                     models |-> <<>>, layouts |-> <<>>, contexts |-> <<>>]
  /\ sections = 0
  /\ memoryPhase = "reading"
  /\ valid = FALSE
  /\ configured = FALSE
  /\ mmu = [c \in 0 .. NUM_CONTEXTS - 1 |-> gDefaultMMU]

\* The next section; one that is not acceptable ends the parser where it is.
Section(ok, config) ==
  /\ memoryPhase = "reading" /\ sections < MaxSections
  /\ sections' = sections + 1
  /\ IF ok THEN memoryConfig' = config /\ UNCHANGED memoryPhase
           ELSE memoryPhase' = "read" /\ UNCHANGED memoryConfig
  /\ UNCHANGED <<valid, configured, mmu>>

\* The keys that a section has replace those there were.
Overwritten(table, s) == [x \in DOMAIN table |-> IF x \in DOMAIN s THEN s[x] ELSE table[x]]

SystemSection(s) == Section(TRUE, Overwritten(memoryConfig, s))

ModelSection(m) ==
  Section(/\ findModel(m.name) = 0
          /\ Len(memoryConfig.models) < MAX_MEMORY_MODELS,
          [memoryConfig EXCEPT !.models = Append(@, m)])

\* A layout begins with its first region.
LayoutSection(s) ==
  LET new == [model |-> s.model, name |-> s.layout, regions |-> <<s.region>>]
      i == findLayout(s.model, s.layout)
      regions == memoryConfig.layouts[i].regions
  IN IF i = 0
     THEN Section(Len(memoryConfig.layouts) < MAX_MEMORY_LAYOUTS,
                  [memoryConfig EXCEPT !.layouts = Append(@, new)])
     ELSE Section(/\ \A r \in Range(regions) : r.name # s.region.name
                  /\ Len(regions) < MAX_MEMORY_REGIONS,
                  [memoryConfig EXCEPT !.layouts[i].regions = Append(@, s.region)])

ContextSection(b) ==
  Section(/\ b.context < MAX_MEMORY_CONTEXTS
          /\ findContextBinding(b.model, b.context) = 0
          /\ Len(memoryConfig.contexts) < MAX_MEMORY_CONTEXTS,
          [memoryConfig EXCEPT !.contexts = Append(@, b)])

\* A line that is no section or key, or a key with a value it cannot have.
WrongLine == Section(FALSE, memoryConfig)

-----------------------------------------------------------------------------
isValidRegionRange(r) ==
  /\ r.pages # 0
  /\ r.start < NUM_CONTEXT_PAGES
  /\ r.start + r.pages <= NUM_CONTEXT_PAGES

layoutHasOverlaps(layout) ==
  \E i, j \in DOMAIN layout.regions :
    i < j /\ \E s \in Slots : Covers(layout.regions[i], s) /\ Covers(layout.regions[j], s)

layoutIsComplete(layout) == \A s \in Slots : \E r \in Range(layout.regions) : Covers(r, s)

\* Takes a layout whose regions overlap.
MutantValidateConfig ==
  LET active == findModel(memoryConfig.active_model)
  IN /\ memoryConfig.version # 0
     /\ active # 0 /\ memoryConfig.boot_context < memoryConfig.models[active].contexts
     /\ \A m \in Range(memoryConfig.models) : m.contexts \in 1 .. MAX_MEMORY_CONTEXTS
     /\ \A l \in Range(memoryConfig.layouts) :
          /\ findModel(l.model) # 0
          /\ \A r \in Range(l.regions) : isValidRegionRange(r)
          /\ layoutIsComplete(l)
     /\ \A c \in 0 .. memoryConfig.models[active].contexts - 1 :
          resolveLayoutForContext(memoryConfig.active_model, c) # 0

validateConfig ==
  LET active == findModel(memoryConfig.active_model)
  IN /\ memoryConfig.version # 0
     /\ active # 0 /\ memoryConfig.boot_context < memoryConfig.models[active].contexts
     /\ \A m \in Range(memoryConfig.models) : m.contexts \in 1 .. MAX_MEMORY_CONTEXTS
     /\ \A l \in Range(memoryConfig.layouts) :
          /\ findModel(l.model) # 0
          /\ \A r \in Range(l.regions) : isValidRegionRange(r)
          /\ ~layoutHasOverlaps(l)
          /\ layoutIsComplete(l)
     /\ \A c \in 0 .. memoryConfig.models[active].contexts - 1 :
          resolveLayoutForContext(memoryConfig.active_model, c) # 0

\* The end of the file, where all of it is judged.
EndOfMemoryIni ==
  /\ memoryPhase = "reading"
  /\ memoryPhase' = "read"
  /\ valid' = validateConfig
  /\ UNCHANGED <<memoryConfig, sections, configured, mmu>>

-----------------------------------------------------------------------------
\* Gives all pages of a region the first one's.
MutantGetSharedPhysical(state, key) ==
  LET known == {s \in state.shared_pages : s.key[1] = key[1]}
  IN IF known # {} THEN (CHOOSE s \in known : TRUE).phys
     ELSE IF state.next < NUM_TOTAL_PAGES THEN state.next ELSE -1

\* The page a shared one already has, else the next; -1 is the code's 0xFF.
getSharedPhysical(state, key) ==
  LET known == {s \in state.shared_pages : s.key = key}
  IN IF known # {} THEN (CHOOSE s \in known : TRUE).phys
     ELSE IF state.next < NUM_TOTAL_PAGES THEN state.next ELSE -1

\* The page of one slot.  phys_map is a table of MAX_MEMORY_CONTEXTS rows,
\* which a region that was never validated may leave at the end of a row.
Index(ctx, slot) == ctx * NUM_CONTEXT_PAGES + slot

Allocate(state, ctx, region, offset) ==
  LET key == <<region.name, offset>>
      phys == IF region.shared THEN getSharedPhysical(state, key)
              ELSE IF state.next < NUM_TOTAL_PAGES THEN state.next ELSE -1
  IN IF ~state.ok \/ phys = -1 THEN [state EXCEPT !.ok = FALSE]
     ELSE [ok |-> TRUE,
           next |-> IF phys = state.next THEN phys + 1 ELSE state.next,
           phys_map |-> [state.phys_map EXCEPT ![Index(ctx, region.start + offset)] = phys],
           shared_pages |-> IF region.shared
                            THEN state.shared_pages \union {[key |-> key, phys |-> phys]}
                            ELSE state.shared_pages]

\* The loops over the pages of a region, the regions of a context's layout and
\* the contexts of a model.
AllocateRegion(state, ctx, region) ==
  LET after[p \in 0 .. region.pages] ==
        IF p = 0 THEN state ELSE Allocate(after[p - 1], ctx, region, p - 1)
  IN after[region.pages]

AllocateContext(state, model, ctx) ==
  LET layout == resolveLayoutForContext(model, ctx)
      regions == memoryConfig.layouts[layout].regions
      after[n \in 0 .. Len(regions)] ==
        IF n = 0 THEN state ELSE AllocateRegion(after[n - 1], ctx, regions[n])
  IN IF layout = 0 THEN [state EXCEPT !.ok = FALSE] ELSE after[Len(regions)]

NothingAllocated ==
  [ok |-> TRUE, next |-> 0, shared_pages |-> {},
   phys_map |-> [i \in 0 .. MAX_MEMORY_CONTEXTS * NUM_CONTEXT_PAGES - 1 |-> 0]]

AllocateModel(model) ==
  LET after[c \in 0 .. model.contexts] ==
        IF c = 0 THEN NothingAllocated ELSE AllocateContext(after[c - 1], model.name, c - 1)
  IN after[model.contexts]

\* The region a slot is in, by its place in the layout.
RegionAt(layout, slot) ==
  First({i \in DOMAIN layout.regions : Covers(layout.regions[i], slot)})

\* Allocates all the pages first; then writes the entries, as far as every
\* one of them has a region, which only a valid configuration is sure to give.
configureMMUFromActiveModel ==
  LET active == findModel(memoryConfig.active_model)
      model == memoryConfig.models[active]
      state == AllocateModel(model)
      rows == 0 .. model.contexts - 1
      Layout(c) == memoryConfig.layouts[resolveLayoutForContext(model.name, c)]
      bare == {a \in rows \X Slots : RegionAt(Layout(a[1]), a[2]) = 0}
      Written(c, s) == c \in rows /\ \A b \in bare : Index(c, s) < Index(b[1], b[2])
      possible == active # 0 /\ model.contexts \in 1 .. MAX_MEMORY_CONTEXTS /\ state.ok
  IN /\ memoryPhase = "read"
     /\ memoryPhase' = "set up"
     /\ configured' = (possible /\ bare = {})
     /\ mmu' = IF ~possible THEN mmu
               ELSE [c \in DOMAIN mmu |-> [s \in Slots |->
                       IF Written(c, s)
                       THEN [page |-> state.phys_map[Index(c, s)],
                             bit7 |-> Layout(c).regions[RegionAt(Layout(c), s)].bit7]
                       ELSE mmu[c][s]]]
     /\ UNCHANGED <<memoryConfig, sections, valid>>

MemoryNext ==
  \/ \E s \in Systems : SystemSection(s)
  \/ \E m \in Models : ModelSection(m)
  \/ \E l \in Layouts : LayoutSection(l)
  \/ \E b \in Bindings : ContextSection(b)
  \/ WrongLine
  \/ EndOfMemoryIni
  \/ configureMMUFromActiveModel

-----------------------------------------------------------------------------
\* What a slot of a context of the active model is, by the rules at the head
\* of data/memory.ini: "physical identity = (model, region name, page offset)"
\* where the region is shared, "allocated per context" where it is not.
Region(c, s) ==
  CHOOSE r \in Range(memoryConfig.layouts[resolveLayoutForContext(memoryConfig.active_model, c)].regions) :
    Covers(r, s)

Identity(c, s) ==
  LET r == Region(c, s) IN IF r.shared THEN <<r.name, -1, s - r.start>> ELSE <<"", c, s>>

ModelSlots ==
  (0 .. memoryConfig.models[findModel(memoryConfig.active_model)].contexts - 1) \X Slots

\* An accepted memory.ini is set up wholly or not at all, and not at all only
\* where the memory is too small for it: two slots have one page just where
\* they are one piece of memory, and bit 7 is set where their region says.
MappedAsDescribed ==
  memoryPhase = "set up" /\ valid =>
    LET pieces == {Identity(a[1], a[2]) : a \in ModelSlots}
    IN IF Cardinality(pieces) > NUM_TOTAL_PAGES
       THEN ~configured /\ \A c \in DOMAIN mmu : mmu[c] = gDefaultMMU
       ELSE /\ configured
            /\ \A a, b \in ModelSlots :
                 /\ mmu[a[1]][a[2]].page \in 0 .. NUM_TOTAL_PAGES - 1
                 /\ mmu[a[1]][a[2]].bit7 = Region(a[1], a[2]).bit7
                 /\ (mmu[a[1]][a[2]].page = mmu[b[1]][b[2]].page)
                      <=> (Identity(a[1], a[2]) = Identity(b[1], b[2]))
=============================================================================
