SPECIFICATION Spec
CONSTANTS
  Threads = {"deliver", "fuse"}
  Nobody = Nobody
  Programs <- MCWithReaddir
INVARIANTS NoCircularWait
