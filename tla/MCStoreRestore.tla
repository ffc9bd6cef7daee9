--------------------------- MODULE MCStoreRestore ---------------------------
(* One message and one fact derived from it.                                  *)
EXTENDS StoreRestore
CONSTANTS message, fact
Messages == {message}
Facts == {fact}
Derived == [c \in {fact} |-> message]
=============================================================================
