------------------------------- MODULE MCPages ------------------------------
(***************************************************************************)
(* Bounded instances for TLC of the pages that share no state: personal    *)
(* access tokens, usage and routes.  A behaviour is one of one of them.    *)
(***************************************************************************)
EXTENDS ApiTokens, Stats, Routes, TLC

VARIABLE page

Only(name, next, others) == page = name /\ next /\ UNCHANGED <<page, others>>

PagesInit ==
  /\ page \in {"tokens", "usage", "routes"}
  /\ Init /\ StatsInit /\ RoutesInit
  /\ page # "usage" => view.query = <<>>  \* asked for by nobody

PagesNext ==
  \/ Only("tokens", Next, <<statsVars, routesVars>>)
  \/ Only("usage", StatsNext, <<vars, routesVars>>)
  \/ Only("routes", RoutesNext, <<vars, statsVars>>)

PagesSpec == PagesInit /\ [][PagesNext]_<<page, vars, statsVars, routesVars>>

(* Every variable of the three keeps its type; no token without an owner,   *)
(* no fresh list without an array, no row from the future.                 *)
PagesTypeOK == TypeOK /\ StatsTypeOK /\ RoutesTypeOK

Symmetry == Permutations(Visitors)

(* Two users, each on a host of their own, one of them with a token.       *)
SomeKinds ==
  {[user |-> "u1", host |-> "h1", cred |-> "session"], [user |-> "u2", host |-> "h2", cred |-> "t1"]}

(* An admin asks for a week of everyone, a user for a day of theirs on one *)
(* host, an admin for the days -4 to 0.                                    *)
SomeViews ==
  LET everyone == {k.user : k \in SomeKinds}
      everywhere == {k.host : k \in SomeKinds}
  IN  {[admin |-> TRUE, query |-> <<>>, users |-> everyone, hosts |-> everywhere],
       [admin |-> FALSE, query |-> <<1>>, users |-> {"u1"}, hosts |-> {"h1"}],
       [admin |-> TRUE, query |-> <<-4, 0>>, users |-> everyone, hosts |-> everywhere]}

SomeSpans == <<2, 4, 6>>

(* The container of host 2 comes and goes.                                 *)
SomeAnswers == {{1, 3}, {1, 2, 3}}
=============================================================================
