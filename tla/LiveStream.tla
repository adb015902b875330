----------------------------- MODULE LiveStream -----------------------------
(***************************************************************************)
(* What a live subsession promises its clients, without queues or flags:   *)
(* there is one growing log of frames, and every reader reads a contiguous *)
(* piece of it.  A reader may be made to skip ahead until it has read its  *)
(* first frame; from then on it misses nothing.                            *)
(***************************************************************************)
EXTENDS Naturals, Sequences

CONSTANTS
  Readers,  \* those who may read the log
  Entries   \* what the log is made of

VARIABLES
  log,      \* every entry so far
  readers,  \* the readers that are attached
  from,     \* reader -> number of entries before its first one
  got       \* reader -> the entries it has read

vars == <<log, readers, from, got>>

Init ==
  /\ log = <<>>
  /\ readers = {}
  /\ from = [r \in Readers |-> 0]
  /\ got = [r \in Readers |-> <<>>]

\* A reader attaches at the end of the log.
Attach(r) ==
  /\ r \notin readers
  /\ readers' = readers \cup {r}
  /\ from' = [from EXCEPT ![r] = Len(log)]
  /\ got' = [got EXCEPT ![r] = <<>>]
  /\ UNCHANGED log

Detach(r) ==
  /\ r \in readers
  /\ readers' = readers \ {r}
  /\ UNCHANGED <<log, from, got>>

\* r reads the entry after those it has read.
Reads(r) ==
  LET next == from'[r] + Len(got[r]) + 1 IN
    /\ r \in readers
    /\ next \in 1..Len(log')
    /\ got'[r] = Append(got[r], log'[next])

\* r skips: only before its first entry, and only forward.
Skips(r) == r \in readers /\ got[r] = <<>> /\ from[r] <= from'[r] /\ from'[r] <= Len(log')

\* The log grows by any number of entries (none, when a reader just catches up);
\* each reader reads at most one entry of it.
Flow ==
  /\ log' \in Seq(Entries)
  /\ Len(log) <= Len(log') /\ SubSeq(log', 1, Len(log)) = log
  /\ from' \in [Readers -> Nat]
  /\ got' \in [Readers -> Seq(Entries)]
  /\ \A r \in Readers :
       /\ from'[r] = from[r] \/ Skips(r)
       /\ got'[r] = got[r] \/ Reads(r)
  /\ UNCHANGED readers

Next ==
  \/ \E r \in Readers : Attach(r) \/ Detach(r)
  \/ Flow

Spec == Init /\ [][Next]_vars
=============================================================================
