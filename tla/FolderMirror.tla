---------------------------- MODULE FolderMirror ----------------------------
(***************************************************************************)
(* What ingesting a folder promises, with no runs, batches, connections or *)
(* retries in sight: a mirror of the mailbox that is extended up to a mark *)
(* and pruned of what the mailbox has lost.                                *)
(*                                                                         *)
(* The promise is worth what UIDs are worth: once the server renumbers the *)
(* mailbox nothing is promised (Void).  And it has a hole: the mailbox may *)
(* be taken for empty, and the mirror is then gone for good (Blind).       *)
(***************************************************************************)
EXTENDS Integers

CONSTANT MaxUid

VARIABLES mail, uidnext, uidvalidity,
          mirror,     \* the UIDs that have a row
          mark,       \* the watermark
          passedOver, \* the UIDs that were received and are not to be stored
          misjudged   \* the UIDs that had a row when the mailbox was taken for empty

vars == <<mail, uidnext, uidvalidity, mirror, mark, passedOver, misjudged>>

Uid == 1 .. MaxUid

Init ==
  /\ mail = [u \in Uid |-> "absent"]
  /\ uidnext = 1
  /\ uidvalidity = 1
  /\ mirror = {}
  /\ mark = 0
  /\ passedOver = {}
  /\ misjudged = {}

(* The mailbox changes; a message that has gone does not come back.          *)
MailboxChanges ==
  /\ uidnext' >= uidnext
  /\ \A u \in Uid : u < uidnext /\ mail[u] = "absent" => mail'[u] = "absent"
  /\ \A u \in Uid : u >= uidnext' => mail'[u] = "absent"
  /\ UNCHANGED <<uidvalidity, mirror, mark, passedOver, misjudged>>

(* The mark moves up, and the mirror has all there is below it.              *)
Extend ==
  /\ mark' \in mark .. uidnext - 1
  /\ mirror \subseteq mirror'
  /\ \A u \in mirror' : u < uidnext
  /\ \A u \in Uid : mark < u /\ u <= mark' /\ mail[u] = "plain"
                      => u \in mirror' \/ u \in passedOver
  /\ UNCHANGED <<mail, uidnext, uidvalidity, passedOver, misjudged>>

PassOver ==
  /\ \E u \in Uid : u < uidnext /\ passedOver' = passedOver \cup {u}
  /\ UNCHANGED <<mail, uidnext, uidvalidity, mirror, mark, misjudged>>

(* Only what the mailbox has lost leaves the mirror.                         *)
Prune ==
  /\ mirror' \subseteq mirror
  /\ \A u \in mirror \ mirror' : mail[u] = "absent"
  /\ UNCHANGED <<mail, uidnext, uidvalidity, mark, passedOver, misjudged>>

(* The whole mirror at once, and the mark stays where it is.                 *)
Blind ==
  /\ mirror' = {}
  /\ misjudged' = misjudged \cup mirror
  /\ UNCHANGED <<mail, uidnext, uidvalidity, mark, passedOver>>

Reset ==
  /\ mirror' = {}
  /\ mark' = 0
  /\ passedOver' = {}
  /\ misjudged' = {}
  /\ UNCHANGED <<mail, uidnext, uidvalidity>>

Void == uidvalidity' # 1

Next == MailboxChanges \/ Extend \/ PassOver \/ Prune \/ Blind \/ Reset \/ Void

Spec == Init /\ [][Next]_vars

=============================================================================
