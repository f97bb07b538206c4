SPECIFICATION Spec
CONSTANTS
  NUM_CONTEXTS = 4
  NUM_CONTEXT_PAGES = 2
  NUM_TOTAL_PAGES = 3
  MAX_MEMORY_MODELS = 1
  MAX_MEMORY_LAYOUTS = 2
  MAX_MEMORY_REGIONS = 2
  MAX_MEMORY_CONTEXTS = 3
  Systems <- MCSystems
  Models <- MCModels
  Layouts <- MCLayouts
  Bindings <- MCBindings
  MaxSections = 8
  MAX_CART = 2
  MAX_CONFIG = 2
  MAX_PER_CONFIG = 3
  Headings <- MCHeadings
  Cartridges <- MCCartridges
  Configs <- MCConfigs
  Loads <- MCLoads
  Roms <- MCRoms
  MaxLines = 6
VIEW View
INVARIANTS
  MappedAsDescribed
  MenuIsSound
  BootedAsListed
CHECK_DEADLOCK FALSE
