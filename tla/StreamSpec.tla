----------------------------- MODULE StreamSpec -----------------------------
(***************************************************************************)
(* What the proxy promises its two ends, with the network out of sight: a  *)
(* byte stream cut into numbered chunks.  The output only grows, by the    *)
(* next chunk of the input; the sending end stops either "confirmed",      *)
(* knowing that all it accepted has been put out, or "aborted", knowing    *)
(* nothing.                                                                *)
(***************************************************************************)
EXTENDS Integers, Sequences

CONSTANT NumChunks

VARIABLES
    accepted,   \* chunks taken from the source so far
    output,     \* chunks given to the sink so far
    verdict     \* of the sending end: open, confirmed or aborted

streamVars == <<accepted, output, verdict>>

Init == accepted = 0 /\ output = << >> /\ verdict = "open"

Accept ==
    /\ verdict = "open" /\ accepted < NumChunks
    /\ accepted' = accepted + 1
    /\ UNCHANGED <<output, verdict>>

Deliver ==
    /\ Len(output) < accepted
    /\ output' = Append(output, Len(output) + 1)
    /\ UNCHANGED <<accepted, verdict>>

Confirm ==
    /\ verdict = "open" /\ Len(output) = accepted
    /\ verdict' = "confirmed"
    /\ UNCHANGED <<accepted, output>>

Abort ==
    /\ verdict = "open"
    /\ verdict' = "aborted"
    /\ UNCHANGED <<accepted, output>>

Next == Accept \/ Deliver \/ Confirm \/ Abort

Spec == Init /\ [][Next]_streamVars
=============================================================================
