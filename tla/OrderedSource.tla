---------------------------- MODULE OrderedSource ----------------------------
(***************************************************************************)
(* What a decoder promises to the code that reads from it: the items of    *)
(* its content are handed out in order and without gaps, the end is        *)
(* announced when all of them were handed out and never earlier, and       *)
(* reading fails only when the content is cut off.  The items are octets   *)
(* for a value stream and decoded elements for PEM.                        *)
(***************************************************************************)
EXTENDS Sequences, SequencesExt

VARIABLES
  content,   \* everything there is to hand out
  cut,       \* the input ends before the content does
  given,     \* what was handed out so far
  status     \* "open", "end" or "failed"

sourceVars == << content, cut, given, status >>

SourceInit ==
  /\ given = <<>>
  /\ status = "open"

\* A read may hand out any number of items, also none.
Give ==
  /\ status = "open"
  /\ IsPrefix(given, given') /\ IsPrefix(given', content)
  /\ UNCHANGED << content, cut, status >>

AnnounceEnd ==
  /\ status = "open"
  /\ given = content /\ ~cut
  /\ status' = "end"
  /\ UNCHANGED << content, cut, given >>

\* Reading again after a failure fails again.
Fail ==
  /\ cut
  /\ status = "open"
  /\ status' = "failed"
  /\ UNCHANGED << content, cut, given >>

SourceNext == Give \/ AnnounceEnd \/ Fail

SourceSpec == SourceInit /\ [][SourceNext]_sourceVars

=============================================================================
