------------------------------- MODULE Startup -------------------------------
(***************************************************************************)
(* setup() after the MMU's own initialisation: MemoryConfig, then            *)
(* /system.ini with its cartridges and configurations (sys_config.cpp), the  *)
(* choice of a configuration and the loading of its cartridges through the   *)
(* MMU (boot.cpp, rom.cpp), with the fallback profile when any of it fails.  *)
(* setup ignores what each part returns and goes on to the next.             *)
(*                                                                         *)
(* Memory is kept by page, and a page by the places in it that cartridges    *)
(* tell apart: the last six bytes, which hold the vectors in the last slot,  *)
(* and the rest.  Identifiers, the text of the file and the codes of its     *)
(* errors are abstracted; tables are sequences, as nothing is ever taken out *)
(* of one, and count from 1.                                                 *)
(***************************************************************************)
EXTENDS MemoryConfig

CONSTANTS
  MAX_CART, MAX_CONFIG, MAX_PER_CONFIG,
  Headings,    \* what [system] may say: records version, defaultName
  Cartridges,  \* ... [cartridge.<name>]: records name, file
  Configs,     \* ... [config.<name>]: records name, memory; "" is no such key
  Loads,       \* ... [config.<name>.context.<n>]: records config, context, list
  Roms,        \* the files there are: the places filled by the payload, the vectors
               \* in TYPE, whether the file is sound
  MaxLines     \* bound: sections of /system.ini

Vectors == {"NMI", "RESET", "IRQ"}
Places == {"code"} \union Vectors

ASSUME StartupAssumption ==
  /\ \A l \in Loads : l.list \in Seq(STRING)
  /\ \A f \in DOMAIN Roms : /\ Roms[f].payload \subseteq Slots \X Places
                            /\ Roms[f].type \subseteq Vectors

VARIABLES
  phase,        \* "memory", "system", "menu", "loading" or "booted"
  cartridges, configs, systemConfig,
  lines,        \* sections of /system.ini read
  activation,   \* activateConfiguration: the configuration, its next entry
  context,      \* the context of the MMU
  mem           \* what the places of the pages hold: of which file, and its part

systemVars == <<cartridges, configs, systemConfig, lines>>
bootVars == <<activation, context, mem>>
vars == <<memoryVars, phase, systemVars, bootVars>>

SUPPORTED_VERSION == 1
DEFAULT_CONTEXT == 0
LastSlot == NUM_CONTEXT_PAGES - 1
Nothing == <<"", "">>

findCartridge(name) == First({i \in DOMAIN cartridges : cartridges[i].name = name})
findConfig(name) == First({i \in DOMAIN configs : configs[i].name = name})

Init ==
  /\ MemoryInit
  /\ phase = "memory"
  /\ cartridges = <<>> /\ configs = <<>>
  /\ systemConfig = [version |-> 0, defaultName |-> "", defaultConfig |-> 0]
  /\ lines = 0
  /\ activation = [config |-> 0, next |-> 1, fallback |-> FALSE]
  /\ context = DEFAULT_CONTEXT
  /\ mem = [p \in 0 .. NUM_TOTAL_PAGES - 1 |-> [x \in Places |-> Nothing]]

-----------------------------------------------------------------------------
\* memory.ini, until the MMU is set up, or not.
Memory ==
  /\ phase = "memory"
  /\ MemoryNext
  /\ UNCHANGED <<phase, systemVars, bootVars>>

-----------------------------------------------------------------------------
\* /system.ini.  Whatever is wrong with it, the fallback profile replaces all.

FallbackCartridges == <<[name |-> "boot", file |-> "boot.rom"]>>
FallbackConfigs ==
  <<[name |-> "SAFE", memory |-> "default", contextDefined |-> {DEFAULT_CONTEXT},
     entries |-> <<[cart |-> 1, context |-> DEFAULT_CONTEXT]>>]>>

loadFallbackProfile ==
  /\ cartridges' = FallbackCartridges
  /\ configs' = FallbackConfigs
  /\ systemConfig' = [version |-> SUPPORTED_VERSION, defaultName |-> "", defaultConfig |-> 1]

initializeSystemConfig ==
  /\ phase = "memory" /\ memoryPhase = "set up"
  /\ phase' = "system"
  /\ UNCHANGED <<memoryVars, systemVars, bootVars>>

Reading == phase = "system" /\ lines < MaxLines /\ lines' = lines + 1

\* A section that is wrong ends the parser.
Reject ==
  /\ loadFallbackProfile
  /\ phase' = "menu"

SystemHeading(h) ==
  /\ Reading
  /\ systemConfig' = Overwritten(systemConfig, h)
  /\ UNCHANGED <<phase, cartridges, configs>>

CartridgeSection(c) ==
  /\ Reading
  /\ IF findCartridge(c.name) = 0 /\ Len(cartridges) < MAX_CART
     THEN cartridges' = Append(cartridges, c) /\ UNCHANGED <<phase, configs, systemConfig>>
     ELSE Reject

ConfigSection(c) ==
  /\ Reading
  /\ IF findConfig(c.name) = 0 /\ Len(configs) < MAX_CONFIG
     THEN /\ configs' = Append(configs, [name |-> c.name, memory |-> c.memory,
                                         contextDefined |-> {}, entries |-> <<>>])
          /\ UNCHANGED <<phase, cartridges, systemConfig>>
     ELSE Reject

\* A context section and its load list: what it loads comes after what the
\* sections before it load, in the order written.
LoadSection(l) ==
  LET i == findConfig(l.config)
      entries == [n \in DOMAIN l.list |->
                    [cart |-> findCartridge(l.list[n]), context |-> l.context]]
  IN /\ Reading
     /\ IF /\ i # 0
           /\ l.context < NUM_CONTEXTS /\ l.context \notin configs[i].contextDefined
           /\ \A e \in Range(entries) : e.cart # 0
           /\ Len(configs[i].entries) + Len(entries) <= MAX_PER_CONFIG
        THEN /\ configs' = [configs EXCEPT ![i].contextDefined = @ \union {l.context},
                                           ![i].entries = @ \o entries]
             /\ UNCHANGED <<phase, cartridges, systemConfig>>
        ELSE Reject

\* A line that is no section or key; also a file that cannot be opened.
WrongSystemLine == Reading /\ Reject

\* Does not look for the cartridges' files.
MutantAccepted(default) ==
  /\ systemConfig.version = SUPPORTED_VERSION
  /\ \A c \in Range(cartridges) : c.file # ""
  /\ \A c \in Range(configs) : c.memory # "" /\ c.entries # <<>>
  /\ default \in DOMAIN configs
  /\ configs[default].memory = memoryConfig.active_model

\* The validation at the end, with the default the file names, else the first.
Accepted(default) ==
  /\ systemConfig.version = SUPPORTED_VERSION
  /\ \A c \in Range(cartridges) : c.file # "" /\ c.file \in DOMAIN Roms
  /\ \A c \in Range(configs) : c.memory # "" /\ c.entries # <<>>
  /\ default \in DOMAIN configs
  /\ configs[default].memory = memoryConfig.active_model

EndOfSystemIni ==
  LET default == IF systemConfig.defaultName = "" THEN 1 ELSE findConfig(systemConfig.defaultName)
  IN /\ phase = "system"
     /\ phase' = "menu"
     /\ IF Accepted(default)
        THEN /\ systemConfig' = [systemConfig EXCEPT !.defaultConfig = default]
             /\ UNCHANGED <<cartridges, configs>>
        ELSE loadFallbackProfile
     /\ UNCHANGED lines

SystemIni ==
  /\ \/ \E h \in Headings : SystemHeading(h)
     \/ \E c \in Cartridges : CartridgeSection(c)
     \/ \E c \in Configs : ConfigSection(c)
     \/ \E l \in Loads : LoadSection(l)
     \/ WrongSystemLine
     \/ EndOfSystemIni
  /\ UNCHANGED <<memoryVars, bootVars>>

-----------------------------------------------------------------------------
\* The choice: a number of the menu, or the default after Enter or five
\* seconds.  A number that is none shows the menu again.
waitForUserSelection ==
  /\ phase = "menu"
  /\ \E i \in DOMAIN configs \union {systemConfig.defaultConfig} :
       activation' = [config |-> i, next |-> 1, fallback |-> FALSE]
  /\ phase' = "loading"
  /\ UNCHANGED <<memoryVars, systemVars, context, mem>>

\* Ends in the boot context, whatever was activated.
Booted ==
  /\ phase' = "booted"
  /\ context' = memoryConfig.boot_context
  /\ UNCHANGED <<cartridges, configs, systemConfig, activation>>

\* Installs the vectors first, and writes the payload over them.
MutantWritten(file, ctx, load) ==
  [p \in DOMAIN mem |-> [x \in Places |->
     IF \E s \in Slots : <<s, x>> \in load.done /\ mmu[ctx][s].page = p
     THEN <<file, "payload">>
     ELSE IF load.ok /\ x \in Roms[file].type /\ mmu[ctx][LastSlot].page = p
     THEN <<file, "header">>
     ELSE mem[p][x]]]

\* The memory after a cartridge, or what was read of it, has gone through the
\* entries of a context: a payload may run over the vectors, and after a
\* complete one come those of the header that TYPE has a bit for.
Written(file, ctx, load) ==
  [p \in DOMAIN mem |-> [x \in Places |->
     IF load.ok /\ x \in Roms[file].type /\ mmu[ctx][LastSlot].page = p
     THEN <<file, "header">>
     ELSE IF \E s \in Slots : <<s, x>> \in load.done /\ mmu[ctx][s].page = p
     THEN <<file, "payload">>
     ELSE mem[p][x]]]

\* Loads of a file: none of it when it is missing or its header, checksum or
\* size is wrong, else all of it or the slots before an error of reading.
loadROMCartridgeFile(file) ==
  IF file \notin DOMAIN Roms \/ ~Roms[file].sound THEN {[done |-> {}, ok |-> FALSE]}
  ELSE {[done |-> Roms[file].payload, ok |-> TRUE]}
       \union {[done |-> {c \in Roms[file].payload : c[1] < n}, ok |-> FALSE] : n \in Slots}

\* Loads into the context that happens to be set.
MutantTarget(entry) == context

Target(entry) == entry.context

\* One cartridge after another; the first that fails ends it.  Then comes the
\* fallback profile, and nothing after that.
activateConfiguration ==
  LET config == configs[activation.config]
      entry == config.entries[activation.next]
      file == cartridges[entry.cart].file
  IN /\ phase = "loading"
     /\ UNCHANGED <<memoryVars, lines>>
     /\ \E load \in loadROMCartridgeFile(file) :
          /\ mem' = Written(file, Target(entry), load)
          /\ IF load.ok /\ activation.next < Len(config.entries)
             THEN /\ activation' = [activation EXCEPT !.next = @ + 1]
                  /\ context' = Target(entry)
                  /\ UNCHANGED <<phase, cartridges, configs, systemConfig>>
             ELSE IF load.ok \/ activation.fallback THEN Booted
             ELSE /\ loadFallbackProfile
                  /\ activation' = [config |-> 1, next |-> 1, fallback |-> TRUE]
                  /\ context' = Target(entry)
                  /\ UNCHANGED phase

Next ==
  \/ Memory
  \/ initializeSystemConfig
  \/ SystemIni
  \/ waitForUserSelection
  \/ activateConfiguration

Spec == Init /\ [][Next]_vars

-----------------------------------------------------------------------------
\* Whatever /system.ini says, the menu offers what can be loaded: a default,
\* lists of cartridges that are defined, their files there, and the default
\* is for the memory model in force; or it is the fallback profile.
MenuIsSound ==
  phase = "menu" =>
    /\ systemConfig.defaultConfig \in DOMAIN configs
    /\ \A c \in Range(configs) :
         /\ c.entries # <<>>
         /\ \A e \in Range(c.entries) : e.cart \in DOMAIN cartridges
    /\ \/ cartridges = FallbackCartridges /\ configs = FallbackConfigs
       \/ /\ \A c \in Range(cartridges) : c.file \in DOMAIN Roms
          /\ configs[systemConfig.defaultConfig].memory = memoryConfig.active_model

Listed == configs[activation.config].entries
FileOf(i) == cartridges[Listed[i].cart].file

\* The entries of the list that have something for a place in a slot of a
\* context, by what the slot is and not by the page that it got.
FromHeader(i, c, s, x) ==
  x \in Roms[FileOf(i)].type /\ Identity(Listed[i].context, LastSlot) = Identity(c, s)
FromPayload(i, c, s, x) ==
  \E t \in Slots : /\ <<t, x>> \in Roms[FileOf(i)].payload
                  /\ Identity(Listed[i].context, t) = Identity(c, s)

\* What the last such entry before n has for it.
LastBefore(n, c, s, x) ==
  LET into == {i \in DOMAIN Listed : i < n /\ (FromHeader(i, c, s, x) \/ FromPayload(i, c, s, x))}
      last == CHOOSE i \in into : \A j \in into : j <= i
  IN IF into = {} THEN Nothing
     ELSE <<FileOf(last), IF FromHeader(last, c, s, x) THEN "header" ELSE "payload">>

\* "load order is sequential (later overwrites earlier)" (data/system.ini): a
\* configuration that was activated is in memory as listed, every place of a
\* shared page as the last cartridge for it left it in any context, of a
\* private one as the last for its own context did, a vector of the header
\* before one under the payload; and the 6502 is in the boot context.
\* The lists name contexts of the model only, which nothing in the code asks.
BootedAsListed ==
  phase = "booted" /\ valid /\ configured /\ ~activation.fallback
  /\ (\A e \in Range(Listed) : <<e.context, 0>> \in ModelSlots)
    => /\ context = memoryConfig.boot_context
       /\ \A a \in ModelSlots, x \in Places :
            mem[mmu[a[1]][a[2]].page][x] = LastBefore(Len(Listed) + 1, a[1], a[2], x)

\* After the set-up, memoryConfig matters by what the slots are.
View ==
  IF phase = "memory" THEN vars
  ELSE <<phase, valid, configured, mmu, memoryConfig.active_model, memoryConfig.boot_context,
         IF valid THEN [a \in ModelSlots |-> Identity(a[1], a[2])] ELSE <<>>,
         systemVars, bootVars>>
=============================================================================
