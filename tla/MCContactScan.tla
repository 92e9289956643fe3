--------------------------- MODULE MCContactScan ---------------------------
(* Small mailboxes and settings for ContactScan. *)
EXTENDS ContactScan, TLC

CONSTANTS c1, c2, m1, m2, f1, f2

Letter(from, to, date) ==
  [from |-> from, to |-> to, date |-> date, known |-> TRUE,
   robot |-> FALSE, word |-> "nowhere", unsubscribe |-> FALSE]

Settings(deep, words) ==
  [deep |-> deep, cipher |-> TRUE, minIn |-> 1, minOut |-> 0, minTotal |-> 1,
   domains |-> {c1, c2}, localParts |-> {}, words |-> words]

(* c1 writes a newsletter that is in both folders, with an unsubscribe     *)
(* line, and is written to, along with c2, with the excluded word.         *)
MixedMail ==
  m1 :> [Letter(c1, <<Me>>, 1) EXCEPT !.unsubscribe = TRUE] @@
  m2 :> [Letter(Me, <<c1, c2, c1>>, 2) EXCEPT !.known = FALSE, !.word = "body"]

MixedPlaces == {<<m1, f1>>, <<m1, f2>>, <<m2, f2>>}

(* A deep scan with a word filter, one without, one on a machine that      *)
(* cannot encrypt bodies, and a scan of the headers.                       *)
MixedOptions ==
  {[Settings(TRUE, {<<"exclude", "out">>}) EXCEPT !.minIn = 0],
   Settings(TRUE, {}),
   [Settings(TRUE, {}) EXCEPT !.cipher = FALSE, !.minIn = 0, !.localParts = {c1}],
   Settings(FALSE, {})}
=============================================================================
