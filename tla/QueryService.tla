----------------------------- MODULE QueryService -----------------------------
(***************************************************************************)
(* What the DNS half of the server promises: a query that it has taken is  *)
(* answered once, with something the upstream resolvers have answered for  *)
(* that very name, or with SERVFAIL, unless its session ends first.        *)
(***************************************************************************)
CONSTANTS
  Names,     \* questions: name, type and class
  Answers,   \* what the upstream resolvers may answer
  Queries,   \* the queries of the clients
  None

VARIABLES
  asked,   \* query -> the name it asks for, None when it is not in hand
  given,   \* name -> the answers upstream resolvers have given for it
  reply    \* the last response that was sent, and for which query

serviceVars == <<asked, given, reply>>

ServiceInit ==
  /\ asked = [q \in Queries |-> None] /\ reply = None
  /\ given = [n \in Names |-> {}]

Accept(q, n) ==
  /\ asked[q] = None
  /\ asked' = [asked EXCEPT ![q] = n]
  /\ UNCHANGED <<given, reply>>

Upstream(n, a) ==
  /\ given' = [given EXCEPT ![n] = @ \cup {a}]
  /\ UNCHANGED <<asked, reply>>

Reply(q, a) ==
  /\ asked[q] # None /\ a \in given[asked[q]] \cup {"fail"}
  /\ asked' = [asked EXCEPT ![q] = None] /\ reply' = <<q, a>>
  /\ UNCHANGED given

Dismiss(q) ==
  /\ asked[q] # None
  /\ asked' = [asked EXCEPT ![q] = None]
  /\ UNCHANGED <<given, reply>>

ServiceNext ==
  \/ \E q \in Queries : Dismiss(q) \/ \E n \in Names : Accept(q, n)
  \/ \E a \in Answers : \E n \in Names : Upstream(n, a)
  \/ \E q \in Queries, a \in Answers \cup {"fail"} : Reply(q, a)

ServiceSpec == ServiceInit /\ [][ServiceNext]_serviceVars
=============================================================================
