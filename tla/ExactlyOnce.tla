---------------------------- MODULE ExactlyOnce ----------------------------
(***************************************************************************)
(* What a durable database promises the clients of its commands: a command *)
(* identity (ClientId, IdempotencyKey) has at most one result; a result    *)
(* that a client was told is never lost and never replaced.  A result that *)
(* nobody was told yet may vanish in a crash.                              *)
(***************************************************************************)
CONSTANTS
  Identity,   \* command identities
  NoResult    \* the result of a command that has not been executed

VARIABLES
  results,    \* identity |-> its result
  told        \* the pairs <<identity, result>> clients were answered

Init ==
  /\ results = [i \in Identity |-> NoResult]
  /\ told = {}

\* Commands are executed for the first time.
Execute ==
  /\ DOMAIN results' = Identity
  /\ \A i \in Identity : results[i] # NoResult => results'[i] = results[i]
  /\ UNCHANGED told

\* Clients are answered, from the results only.
Tell ==
  /\ told \subseteq told'
  /\ \A answer \in told' \ told :
       \E i \in Identity : results[i] # NoResult /\ answer = <<i, results[i]>>
  /\ UNCHANGED results

\* A crash loses results, but none that a client knows.
Lose ==
  /\ DOMAIN results' = Identity
  /\ \A i \in Identity : results'[i] = NoResult \/ results'[i] = results[i]
  /\ \A i \in Identity : <<i, results[i]>> \in told => results'[i] = results[i]
  /\ UNCHANGED told

Next == Execute \/ Tell \/ Lose

Spec == Init /\ [][Next]_<<results, told>>

\* No client is ever given two answers for one command identity, whatever it
\* retries and whenever the database crashes in between.
AnswersAgree ==
  \A i \in Identity, r, s \in {answer[2] : answer \in told} :
    <<i, r>> \in told /\ <<i, s>> \in told => r = s
=============================================================================
