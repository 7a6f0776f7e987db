---------------------------- MODULE FileDelivery ----------------------------
(***************************************************************************)
(* What one file transfer promises, without datagrams, windows, threads or *)
(* timers: the receiver prints the chunks of the file one by one, the      *)
(* sender reports success only when all of them are printed, the receiver  *)
(* closes only then, and it reports a missing file only if the file is     *)
(* missing.  The sender may give up at any time.                           *)
(***************************************************************************)
EXTENDS Naturals, Sequences

CONSTANT NumChunks

VARIABLES exists,    \* the requested file exists
          printed,   \* what the receiver has printed
          sender,    \* "sending", "done", "failed"
          receiver   \* "receiving", "closed", "notfound"

vars == <<exists, printed, sender, receiver>>

Init ==
  /\ exists \in BOOLEAN
  /\ printed = <<>>
  /\ sender = "sending"
  /\ receiver = "receiving"

Whole == Len(printed) = NumChunks

PrintChunk ==
  /\ exists /\ receiver = "receiving" /\ Len(printed) < NumChunks
  /\ printed' = Append(printed, Len(printed) + 1)
  /\ UNCHANGED <<exists, sender, receiver>>

SenderDone ==
  /\ sender = "sending" /\ Whole
  /\ sender' = "done"
  /\ UNCHANGED <<exists, printed, receiver>>

SenderFail ==
  /\ sender = "sending"
  /\ sender' = "failed"
  /\ UNCHANGED <<exists, printed, receiver>>

ReceiverClose ==
  /\ receiver = "receiving" /\ Whole
  /\ receiver' = "closed"
  /\ UNCHANGED <<exists, printed, sender>>

ReceiverNotFound ==
  /\ receiver = "receiving" /\ ~exists
  /\ receiver' = "notfound"
  /\ UNCHANGED <<exists, printed, sender>>

Next == PrintChunk \/ SenderDone \/ SenderFail \/ ReceiverClose \/ ReceiverNotFound

Spec == Init /\ [][Next]_vars
=============================================================================
