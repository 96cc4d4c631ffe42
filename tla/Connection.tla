----------------------------- MODULE Connection -----------------------------
(***************************************************************************)
(* What the two halves of a Connection on Linux, SendPath and RecvPath,    *)
(* have in common: the descriptor, which Connection::Shutdown closes       *)
(* before it clears the buffer of either half under that half's mutex.     *)
(***************************************************************************)
EXTENDS SliceBuffer

CONSTANT NULL   \* no thread

VARIABLES
    online,    \* whether _fd is open
    shut       \* the rest of Connection::Shutdown: "no", "clear", "done"
=============================================================================
