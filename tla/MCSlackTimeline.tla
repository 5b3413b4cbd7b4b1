--------------------------- MODULE MCSlackTimeline ---------------------------
(***************************************************************************)
(* Small instances of SlackTimeline.                                       *)
(***************************************************************************)
EXTENDS SlackTimeline

\* A claim of every interval; Interval number from * (Horizon + 1) + to.
Claims ==
  LET Width == Horizon + 1
      numbers == Listed({i.from * Width + i.to : i \in Interval})
  IN  [k \in DOMAIN numbers |->
         [from |-> numbers[k] \div Width, to |-> numbers[k] % Width, quantity |-> 1]]

\* Curves declared in any order: gaps, a segment to be joined to its neighbour, planned
\* downtime, no capacity, and two that are refused.
Segment(from, to, capacity) == [from |-> from, to |-> to, capacity |-> capacity]
Declarations ==
  {<<Segment(3, 4, 0), Segment(0, 1, 1), Segment(2, 3, 1), Segment(4, 5, 1)>>,
   <<Segment(1, 2, 1), Segment(2, 4, 1)>>,
   <<Segment(0, 2, 0), Segment(2, 5, 1)>>,
   <<>>,
   <<Segment(0, 3, 1), Segment(2, 4, 1)>>,
   <<Segment(0, 1, 2)>>}

\* TLC evaluates the definitions below at every use, those above once.
MCClaim == Claims
MCDeclaration == Declarations
=============================================================================
