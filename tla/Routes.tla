------------------------------- MODULE Routes --------------------------------
(***************************************************************************)
(* The list of routes on the dashboard (handler/ui.go:180-268) and on      *)
(* /admin/routes (handler/routes.go:41-199).  routesCache returns the list *)
(* it holds, not a copy, and both pages sort what they get in place: the   *)
(* visitors of the minute after a load write the same array at the same    *)
(* time.                                                                   *)
(*                                                                         *)
(* sort.Slice on a list of up to 12 is insertion sort; an exchange copies  *)
(* an element to a temporary place, the other over it, and the temporary   *)
(* one back.  A route is its host name, a number by its place in order;    *)
(* elements are copied whole.  ttlCache.Get is abstracted to a hit, a load *)
(* or the old list on failure; its races are the subject of TTLCache.      *)
(***************************************************************************)
EXTENDS Naturals, Sequences, FiniteSets

CONSTANTS
  Hosts,     \* numbers in the order of the host names
  Managed,   \* bound: the hosts whose policy admins set
  AuthHost,  \* sir-auth's own host
  Answers,   \* the sets of hosts the watcher answers with
  Arrays,    \* bound: the arrays in memory at a time, positive numbers
  Visitors   \* concurrent requests

ASSUME RoutesAssumption ==
  /\ Hosts \subseteq Nat \ {0} /\ IsFiniteSet(Hosts)
  /\ Arrays \subseteq Nat \ {0}
  /\ Answers \subseteq SUBSET Hosts /\ Managed \subseteq Hosts

VARIABLES
  policies, \* route_policies: the hosts that have a row
  cached,   \* the array in the cache, 0 for none
  fresh,    \* whether its minute has not passed
  array,    \* what is in the arrays
  at,       \* what each visitor does next
  admin,    \* whether the visitor is on /admin/routes
  read,     \* the hosts with a policy it has read
  mine,     \* the array it was given or holds on to, 0 for none
  place,    \* <<i, j>> of insertion sort
  temp,     \* the element being exchanged, or 0
  listed,   \* the routes on its page so far
  loaded,   \* history: the hosts that were loaded into an array
  torn,     \* history: arrays that two visitors sorted at the same time
  raced     \* history: visitors another one's sort got in the way of

visitVars == <<at, admin, read, mine, place, temp, listed>>
routesVars == <<policies, cached, fresh, array, visitVars, loaded, torn, raced>>

Sorting == {"sort", "copy", "put"}

InUse(a) == a = cached \/ \E v \in Visitors : mine[v] = a

RoutesTypeOK ==
  /\ policies \subseteq Hosts \ {AuthHost}
  /\ cached \in Arrays \cup {0} /\ fresh \in BOOLEAN /\ (fresh => cached # 0)
  /\ array \in [Arrays -> Seq(Hosts)]
  /\ at \in [Visitors -> {"idle", "get", "load", "list", "done"} \cup Sorting]
  /\ admin \in [Visitors -> BOOLEAN]
  /\ read \in [Visitors -> SUBSET Hosts]
  /\ mine \in [Visitors -> Arrays \cup {0}]
  /\ \A v \in Visitors : at[v] \in {"list"} \cup Sorting => mine[v] # 0
  /\ place \in [Visitors -> Nat \X Nat]
  /\ temp \in [Visitors -> Hosts \cup {0}]
  /\ listed \in [Visitors -> Seq(Hosts)]
  /\ loaded \in [Arrays -> SUBSET Hosts]
  /\ torn \subseteq Arrays /\ raced \subseteq Visitors

RoutesInit ==
  /\ policies = {}
  /\ cached = 0 /\ fresh = FALSE
  /\ array = [a \in Arrays |-> <<>>]
  /\ at = [v \in Visitors |-> "idle"]
  /\ admin = [v \in Visitors |-> FALSE]
  /\ read = [v \in Visitors |-> {}]
  /\ mine = [v \in Visitors |-> 0]
  /\ place = [v \in Visitors |-> <<2, 2>>]
  /\ temp = [v \in Visitors |-> 0]
  /\ listed = [v \in Visitors |-> <<>>]
  /\ loaded = [a \in Arrays |-> {}]
  /\ torn = {} /\ raced = {}

Become(v, step) == at' = [at EXCEPT ![v] = step]

-----------------------------------------------------------------------------
(* AdminRoutes reads the policies first, Home does not need them to list.  *)
Visit(v, isAdmin) ==
  /\ at[v] = "idle"
  /\ Become(v, "get")
  /\ admin' = [admin EXCEPT ![v] = isAdmin]
  /\ read' = [read EXCEPT ![v] = IF isAdmin THEN policies ELSE {}]
  /\ UNCHANGED <<policies, cached, fresh, array, mine, place, temp, listed, loaded, torn, raced>>

(* Go's collector: an array that nothing refers to is as good as new.      *)
Keep(kept, arrays, hosts) ==
  /\ array' = [a \in Arrays |-> IF a \in kept THEN arrays[a] ELSE <<>>]
  /\ loaded' = [a \in Arrays |-> IF a \in kept THEN hosts[a] ELSE {}]
  /\ torn' = torn \cap kept

(* A list in the middle of an exchange, or that two have exchanged in.     *)
Midway(a) == a \in torn \/ \E w \in Visitors : mine[w] = a /\ at[w] \in {"copy", "put"}

(* Mutant of the next: the page is written before the list is sorted.      *)
TakeUnsorted(v, a) ==
  /\ mine' = [mine EXCEPT ![v] = a]
  /\ raced' = IF Midway(a) THEN raced \cup {v} ELSE raced
  /\ Become(v, IF a = 0 THEN "done" ELSE "list")

(* A visitor is given an array, or none when nothing could be loaded.      *)
Take(v, a) ==
  /\ mine' = [mine EXCEPT ![v] = a]
  /\ raced' = IF Midway(a) THEN raced \cup {v} ELSE raced
  /\ Become(v, IF a = 0 THEN "done" ELSE "sort")

(* routesCache.Get: a fresh list is returned as it is, to everyone; an old *)
(* one is kept in case the load fails.                                     *)
GetRoutes(v) ==
  /\ at[v] = "get"
  /\ IF fresh
     THEN Take(v, cached)
     ELSE Become(v, "load") /\ mine' = [mine EXCEPT ![v] = cached] /\ UNCHANGED raced
  /\ UNCHANGED <<policies, cached, fresh, array, admin, read, place, temp, listed, loaded, torn>>

Orders(S) ==
  {s \in [1..Cardinality(S) -> S] : \A x \in S : \E i \in DOMAIN s : s[i] = x}

(* loadRoutes: the watcher answers with the hosts of the containers there  *)
(* are, in an order of its own; the new array is cached and returned.      *)
LoadRoutes(v, a, S) ==
  /\ at[v] = "load"
  /\ ~InUse(a)
  /\ cached' = a /\ fresh' = TRUE
  /\ mine' = [mine EXCEPT ![v] = a]
  /\ \E s \in Orders(S) :
       Keep({a} \cup {mine[w] : w \in Visitors \ {v}},
            [array EXCEPT ![a] = s], [loaded EXCEPT ![a] = S])
  /\ Become(v, "sort")
  /\ UNCHANGED <<policies, admin, read, place, temp, listed, raced>>

(* The watcher does not answer in 2 s: the list that was too old, however  *)
(* old, or none.                                                           *)
LoadFails(v) ==
  /\ at[v] = "load"
  /\ Take(v, mine[v])
  /\ UNCHANGED <<policies, cached, fresh, array, admin, read, place, temp, listed, loaded, torn>>

-----------------------------------------------------------------------------
Others(v) == {w \in Visitors \ {v} : mine[w] = mine[v]}

(* A write to the array of v is in the way of whoever uses it.             *)
Disturb(v) ==
  LET sorters == {w \in Others(v) : at[w] \in Sorting}
      readers == {w \in Others(v) : at[w] = "list"}
  IN  /\ raced' = raced \cup readers \cup sorters \cup (IF sorters # {} THEN {v} ELSE {})
      /\ torn' = IF sorters # {} THEN torn \cup {mine[v]} ELSE torn

(* Mutant of the next: the dashboard sorts by another name.                *)
LessOnPage(v, g, h) == IF admin[v] THEN g < h ELSE h < g

Less(v, g, h) == g < h

(* sort.Slice: the next two neighbours are compared, and if they are to    *)
(* change places, the one is copied aside in the same step ...             *)
Compare(v) ==
  LET s == array[mine[v]]
      i == place[v][1]
      j == place[v][2]
  IN  /\ at[v] = "sort"
      /\ IF i > Len(s)
         THEN Become(v, "list") /\ place' = [place EXCEPT ![v] = <<2, 2>>] /\ UNCHANGED temp
         ELSE IF j > 1 /\ Less(v, s[j], s[j - 1])
         THEN Become(v, "copy") /\ temp' = [temp EXCEPT ![v] = s[j]] /\ UNCHANGED place
         ELSE place' = [place EXCEPT ![v] = <<i + 1, i + 1>>] /\ UNCHANGED <<at, temp>>
      /\ UNCHANGED <<policies, cached, fresh, array, admin, read, mine, listed, loaded, torn, raced>>

(* ... the one is copied over the other ...                                *)
Copy(v) ==
  LET j == place[v][2]
  IN  /\ at[v] = "copy"
      /\ array' = [array EXCEPT ![mine[v]][j] = array[mine[v]][j - 1]]
      /\ Become(v, "put")
      /\ Disturb(v)
      /\ UNCHANGED <<policies, cached, fresh, admin, read, mine, place, temp, listed, loaded>>

(* ... and the other put in its place.                                     *)
Put(v) ==
  LET i == place[v][1]
      j == place[v][2]
  IN  /\ at[v] = "put"
      /\ array' = [array EXCEPT ![mine[v]][j - 1] = temp[v]]
      /\ place' = [place EXCEPT ![v] = <<i, j - 1>>]
      /\ temp' = [temp EXCEPT ![v] = 0]
      /\ Become(v, "sort")
      /\ Disturb(v)
      /\ UNCHANGED <<policies, cached, fresh, admin, read, mine, listed, loaded>>

(* The loop over the routes; AdminRoutes goes on to the policies it has    *)
(* read and has not seen a route for.                                      *)
ListRoute(v) ==
  LET s == array[mine[v]]
      n == Len(listed[v]) + 1
  IN  /\ at[v] = "list"
      /\ IF n <= Len(s)
         THEN listed' = [listed EXCEPT ![v] = Append(@, s[n])] /\ UNCHANGED at
         ELSE Become(v, "done") /\ UNCHANGED listed
      /\ UNCHANGED <<policies, cached, fresh, array, admin, read, mine, place, temp, loaded, torn,
                     raced>>

(* The page is sent.                                                       *)
Leave(v) ==
  /\ at[v] = "done"
  /\ Become(v, "idle")
  /\ admin' = [admin EXCEPT ![v] = FALSE]
  /\ read' = [read EXCEPT ![v] = {}]
  /\ mine' = [mine EXCEPT ![v] = 0]
  /\ listed' = [listed EXCEPT ![v] = <<>>]
  /\ raced' = raced \ {v}
  /\ Keep({cached} \cup {mine[w] : w \in Visitors \ {v}}, array, loaded)
  /\ UNCHANGED <<policies, cached, fresh, place, temp>>

-----------------------------------------------------------------------------
(* setRoutePolicy, for any host but sir-auth's own: it need not be routed. *)
SetRoutePolicy(h) ==
  /\ h # AuthHost
  /\ policies' = policies \cup {h}
  /\ UNCHANGED <<cached, fresh, array, visitVars, loaded, torn, raced>>

DeleteRoutePolicy(h) ==
  /\ h # AuthHost
  /\ policies' = policies \ {h}
  /\ UNCHANGED <<cached, fresh, array, visitVars, loaded, torn, raced>>

(* The minute of the cached list passes.                                   *)
ExpireRoutes ==
  /\ fresh
  /\ fresh' = FALSE
  /\ UNCHANGED <<policies, cached, array, visitVars, loaded, torn, raced>>

Page(v) ==
  \/ \E isAdmin \in BOOLEAN : Visit(v, isAdmin)
  \/ GetRoutes(v)
  \/ \E a \in Arrays, S \in Answers : LoadRoutes(v, a, S)
  \/ LoadFails(v)
  \/ Compare(v) \/ Copy(v) \/ Put(v)
  \/ ListRoute(v)
  \/ Leave(v)

RoutesNext ==
  \/ \E v \in Visitors : Page(v)
  \/ \E h \in Managed : SetRoutePolicy(h) \/ DeleteRoutePolicy(h)
  \/ ExpireRoutes

RoutesSpec == RoutesInit /\ [][RoutesNext]_routesVars

-----------------------------------------------------------------------------
(* The page of v shows every loaded route once, and a policy as stale,     *)
(* with a button to delete it, if its host was not among them.             *)
IsRight(v) ==
  LET shown == {listed[v][i] : i \in DOMAIN listed[v]}
      stale == read[v] \ shown
  IN  /\ shown = loaded[mine[v]] /\ Len(listed[v]) = Cardinality(shown)
      /\ stale \cap loaded[mine[v]] = {}

InOrder(s) == \A i, j \in DOMAIN s : i < j => s[i] < s[j]

(* A page whose use of the list overlapped no other one's sort is right    *)
(* and in order, whoever sorted the list before (routes.go:94-140,         *)
(* ui.go:226-254).                                                         *)
RightUnlessRaced ==
  \A v \in Visitors : at[v] = "done" /\ mine[v] # 0 /\ v \notin raced =>
    IsRight(v) /\ InOrder(listed[v])

Settled(a) ==
  /\ InUse(a)
  /\ InOrder(array[a])
  /\ \A v \in Visitors : mine[v] = a => at[v] \notin {"copy", "put"}

(* A list that is in order is never written again, so what visitors share  *)
(* is stable once the first of them has sorted it (routes.go:95,           *)
(* ui.go:237).                                                             *)
SortedListsStay ==
  [][\A a \in Arrays :
       Settled(a) => ~InUse(a)' \/ (Settled(a)' /\ array'[a] = array[a])]_routesVars

(* What README.md:89 says: the page lists every route from WATCHER_URL,    *)
(* and policies are shown as stale for hosts that no longer have one.      *)
ListsEveryRoute ==
  \A v \in Visitors : at[v] = "done" /\ admin[v] /\ mine[v] # 0 => IsRight(v)
=============================================================================
