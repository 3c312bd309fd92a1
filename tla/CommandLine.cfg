CONSTANTS
  Options = {"trace", "help", "verbose", "other", "term1", "term2", "term_bad", "load", "attached", "attached_t", "attached_h", "attached_c", "attached_c2", "meminit_bad", "list", "missing_c", "missing_m"}
  MaxOptions = 3
SPECIFICATION Spec
INVARIANTS TypeOK RunsAsAsked NoLoadWhenExiting EarlyExitAsked
