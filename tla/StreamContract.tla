--------------------------- MODULE StreamContract ---------------------------
(***************************************************************************)
(* What a client of Synthesize is promised (docs/api.md and                *)
(* docs/low-latency-tts-delivery.md, Events), without buffers, threads or  *)
(* exceptions: one Started, then audio without a gap, then one Completed   *)
(* whose totals are those of the audio; the client gets what was sent, in  *)
(* order, and is told how the stream ended.                                *)
(***************************************************************************)
EXTENDS Integers, Sequences, SequencesExt

VARIABLES
    sent,       \* the events of the stream
    received,   \* those the client has
    ending,     \* how the stream ended for the client, "open" before
    withdrawn   \* the client, or the server for it, has given it up

contractVars == <<sent, received, ending, withdrawn>>

ContractInit ==
    /\ sent = <<>>
    /\ received = <<>>
    /\ ending = "open"
    /\ withdrawn = FALSE

\* The chunks and samples before the next event
NextPlace ==
    IF sent = <<>> THEN <<0, 0>>
    ELSE LET e == Last(sent)
         IN  IF e.kind = "audio" THEN <<e.chunk + 1, e.sample + e.size>>
             ELSE <<e.chunk, e.sample>>

Send(e) ==
    /\ sent = <<>> <=> e.kind = "started"
    /\ sent # <<>> => Last(sent).kind # "completed"
    /\ <<e.chunk, e.sample>> = NextPlace
    /\ sent' = Append(sent, e)
    /\ UNCHANGED <<received, ending, withdrawn>>

Receive ==
    /\ ending = "open"
    /\ Len(received) < Len(sent)
    /\ received' = Append(received, sent[Len(received) + 1])
    /\ ending' = IF Last(received').kind = "completed" THEN "ok" ELSE "open"
    /\ UNCHANGED <<sent, withdrawn>>

Withdraw ==
    /\ withdrawn' = TRUE
    /\ UNCHANGED <<sent, received, ending>>

\* A failure is told after everything that was sent before it.
Fail ==
    /\ ending = "open"
    /\ received = sent
    /\ ending' = "failed"
    /\ UNCHANGED <<sent, received, withdrawn>>

GiveUp ==
    /\ ending = "open"
    /\ withdrawn
    /\ ending' = "cancelled"
    /\ UNCHANGED <<sent, received, withdrawn>>

\* e ranges over the events a step can add.
ContractNext ==
    \/ sent' # sent /\ Send(Last(sent'))
    \/ Receive \/ Withdraw \/ Fail \/ GiveUp

ContractSpec == ContractInit /\ [][ContractNext]_contractVars
=============================================================================
