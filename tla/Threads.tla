------------------------------ MODULE Threads ------------------------------
(* The threads that call the services of src/core, and no thread.          *)

CONSTANTS
  Thread,  \* the threads that call
  Nobody   \* holder of a free mutex

ASSUME ThreadNames == Nobody \notin Thread
=============================================================================
