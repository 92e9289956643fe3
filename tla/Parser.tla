------------------------------- MODULE Parser -------------------------------
(***************************************************************************)
(* What a Parser promises deepScanBodies (src/main/pipeline/parser-pool.ts): *)
(* each call of parse is answered, once, with the text of the source it was *)
(* given or with an error, and it is answered in the end.                  *)
(***************************************************************************)
EXTENDS Naturals

CONSTANT Calls

Call == 1 .. Calls

VARIABLES
  promise,  \* what each call of parse has come to
  text      \* the call whose source the text it got is from, 0 without one

vars == <<promise, text>>

Init ==
  /\ promise = [c \in Call |-> "none"]
  /\ text = [c \in Call |-> 0]

Stay(c) == promise'[c] = promise[c] /\ text'[c] = text[c]

Ask(c) ==
  /\ promise[c] = "none"
  /\ promise'[c] \in {"pending", "failed"}
  /\ text'[c] = 0

Answer(c) ==
  /\ promise[c] = "pending"
  /\ \/ promise'[c] = "text" /\ text'[c] = c
     \/ promise'[c] = "failed" /\ text'[c] = 0

(* Several calls may be answered at once. *)
Next == \A c \in Call : Stay(c) \/ Ask(c) \/ Answer(c)

Answered == \A c \in Call : promise[c] = "pending" ~> promise[c] # "pending"

Spec == Init /\ [][Next]_vars /\ Answered

=============================================================================
