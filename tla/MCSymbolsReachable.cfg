CONSTANTS
  Classes = {"Elf32", "Elf64"}
  WordLimit <- MCWordLimit
  HostLimit = 128
  HeaderBytes <- MCHeaderBytes
  EntryBytes <- MCEntryBytes
  PageBytes = 8
  Basename <- MCBasename
  Attempts = 2
  Programs <- MCPrograms
  Rendezvous = 77
  Gnu = 9
SPECIFICATION Spec
INVARIANTS
  SymbolsReachable
CHECK_DEADLOCK FALSE
