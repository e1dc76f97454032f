--------------------------- MODULE StreamClaims ---------------------------
(***************************************************************************)
(* What a lease table promises the components that share it, without the   *)
(* records, counts, memo and lists it keeps the promise with.              *)
(*                                                                         *)
(* A component holds claims on streams.  All claims on a stream agree on   *)
(* its terms; the first claim sets them.  When the last claim on a stream  *)
(* ends, one stop becomes due, and the stops that are due are all the      *)
(* stops that are ever sent.                                               *)
(***************************************************************************)
EXTENDS Integers

CONSTANTS Claim, Stream, Terms, None

VARIABLES
  holds,    \* the stream each claim is on, or None
  agreed,   \* the terms a stream is claimed on; None when nobody claims it
  due       \* the stops that are due, per stream

vars == <<holds, agreed, due>>

Init ==
  /\ holds = [c \in Claim |-> None]
  /\ agreed = [s \in Stream |-> None]
  /\ due = [s \in Stream |-> 0]

\* The claims on a stream.
On(s) == {c \in Claim : holds[c] = s}

\* A claim is granted, on the terms of those who hold the stream, if any do.
Grant(c, s, t) ==
  /\ holds[c] = None
  /\ agreed[s] \in {None, t}
  /\ holds' = [holds EXCEPT ![c] = s]
  /\ agreed' = [agreed EXCEPT ![s] = t]
  /\ UNCHANGED due

\* What it means for the stream of c that c's claim ends.
Ends(c) ==
  LET s == holds[c]
  IN  IF On(s) = {c}
      THEN /\ agreed' = [agreed EXCEPT ![s] = None]
           /\ due' = [due EXCEPT ![s] = @ + 1]
      ELSE UNCHANGED <<agreed, due>>

GiveUp(c) ==
  /\ holds[c] # None
  /\ holds' = [holds EXCEPT ![c] = None]
  /\ Ends(c)

\* A claim changes hands.
Hand(to, from) ==
  /\ holds[to] = None /\ holds[from] # None
  /\ holds' = [holds EXCEPT ![to] = holds[from], ![from] = None]
  /\ UNCHANGED <<agreed, due>>

\* A claim that others share ends, and its holder takes over another.
Replace(to, from) ==
  /\ to # from
  /\ holds[to] # None /\ On(holds[to]) # {to} /\ holds[from] # None
  /\ holds' = [holds EXCEPT ![to] = holds[from], ![from] = None]
  /\ UNCHANGED <<agreed, due>>

Stop(s) ==
  /\ due[s] > 0
  /\ due' = [due EXCEPT ![s] = @ - 1]
  /\ UNCHANGED <<holds, agreed>>

\* All claims end.
EndAll ==
  /\ holds' = [c \in Claim |-> None]
  /\ agreed' = [s \in Stream |-> None]
  /\ due' = [s \in Stream |-> IF On(s) # {} THEN due[s] + 1 ELSE due[s]]

Next ==
  \/ \E c \in Claim, s \in Stream, t \in Terms : Grant(c, s, t)
  \/ \E c \in Claim : GiveUp(c)
  \/ \E to, from \in Claim : Hand(to, from) \/ Replace(to, from)
  \/ \E s \in Stream : Stop(s)
  \/ EndAll

Spec == Init /\ [][Next]_vars

==========================================================================
