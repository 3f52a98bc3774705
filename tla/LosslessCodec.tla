---------------------------- MODULE LosslessCodec ----------------------------
(***************************************************************************)
(* What a codec promises, whatever its format: it is given a value, and    *)
(* the only thing it ever hands back is that value.  The README and the    *)
(* tests of the repository state it as decompress(compress(x)) == x.       *)
(***************************************************************************)
CONSTANTS
  Source,    \* the values that may be encoded
  Pending    \* no result yet; not one of Source

VARIABLES source, result

codecVars == <<source, result>>

Init == source \in Source /\ result = Pending

\* Encoding and decoding, seen from outside, is one step.
Return == result = Pending /\ result' = source /\ UNCHANGED source

Next == Return

Spec == Init /\ [][Next]_codecVars

\* A call returns.
FairSpec == Spec /\ WF_codecVars(Next)

=============================================================================
