----------------------- MODULE AccessAdministrationProofs -----------------------
(***************************************************************************)
(* Theorems about AccessAdministration, for every set of addresses, groups *)
(* and resources, any number of requests, plans and refreshes: the scopes  *)
(* that skills require, the answers of the policy, the catalogs, and what  *)
(* plans and administrators leave of each other's assignments.  The last   *)
(* part follows a plan through its passes: what each pass does to one      *)
(* address, then to all of them by induction over the fold, then all the   *)
(* passes in their order, and the commit over what others saved meanwhile. *)
(***************************************************************************)
EXTENDS AccessAdministration, FoldTheorems, TLAPS

\* Catalogs and their refreshes.
CatalogRow == [exists : BOOLEAN, lease : Refreshers \cup {None}, live : BOOLEAN,
               due : BOOLEAN, edition : 0 .. MaxEditions]
Refresh == [pc : {"idle", "claim", "fetch", "store", "check", "write", "failed"},
            resource : Resources \cup {None}, current : BOOLEAN, manual : BOOLEAN,
            edition : 0 .. MaxEditions]
GoodRefresh == {x \in Refresh : x.pc # "idle" => x.resource \in Resources}

CatalogTypes ==
  /\ catalog \in [Resources -> CatalogRow]
  /\ published \in [Resources -> 0 .. MaxEditions]
  /\ refresh \in [Refreshers -> GoodRefresh]
  /\ refreshes \in 0 .. MaxRefreshes
  /\ answered \in [Resources -> BOOLEAN]

\* A refresh that has fetched an edition, and one that still holds the lease.
Fetched(p) == refresh[p].pc \in {"store", "check", "write"}
Working(p) == refresh[p].pc \in {"fetch", "store", "check", "write", "failed"}
Leasing(p) == Row(p).lease = p

\* What a refresh with the lease has fetched is no older than what is stored; the
\* transaction that stores it holds the lease; and a refresh with the lease has read the
\* resource as it is, unless the change it missed counts as answered.
RefreshInOrder(p) ==
  /\ Fetched(p) => refresh[p].edition <= published[refresh[p].resource]
  /\ Fetched(p) /\ Leasing(p) => Row(p).edition <= refresh[p].edition
  /\ refresh[p].pc \in {"check", "write"} => Leasing(p)
  /\ Working(p) /\ Leasing(p) => refresh[p].current \/ answered[refresh[p].resource]

\* No edition is ahead of its server, and what is not answered is due.
CatalogInOrder(r) ==
  /\ catalog[r].edition <= published[r]
  /\ ~answered[r] => catalog[r].due

CatalogInv ==
  /\ CatalogTypes
  /\ \A p \in Refreshers : RefreshInOrder(p)
  /\ \A r \in Resources : CatalogInOrder(r)

\* Requests of the policy, while they run; of the others only their presence matters.
Running(q) == req[q].pc \in {"resolve", "decide"}
PolicyTypes ==
  /\ provider \in [Providers -> Provider]
  /\ verified \subseteq Emails
  /\ directory \in [Emails -> SUBSET Pairs]
  /\ DOMAIN req = Requests /\ DOMAIN touched = Requests /\ DOMAIN stayed = Requests
  /\ \A q \in Requests : Running(q) => req[q] \in Request

\* What a request has asked or will ask is of the present version of its provider or of
\* an earlier one; and of what it was told under the present configuration, every
\* membership was true at some time of the request, and none that stayed true is missing.
AnswersFit(q) ==
  /\ \A pv \in req[q].todo \cup req[q].resolved : pv[2] <= provider[pv[1]].version
  /\ \A m \in req[q].member : m[1] \in req[q].resolved
  /\ req[q].email \in Emails
  /\ directory[req[q].email] \subseteq touched[q]
  /\ stayed[q] \subseteq directory[req[q].email]
  /\ \A pv \in req[q].resolved : Current(pv) =>
       \A g \in Groups :
         /\ <<pv, g>> \in req[q].member => <<pv[1], g>> \in touched[q]
         /\ <<pv[1], g>> \in stayed[q] => <<pv, g>> \in req[q].member

PolicyInv == PolicyTypes /\ \A q \in Requests : Running(q) => AnswersFit(q)
--------------------------------------------------------------------------------
\* A refresher that rests is well typed.
LEMMA RestingIsGood == Resting \in GoodRefresh /\ Resting.pc = "idle"
  BY RefreshesBounded DEF Resting, GoodRefresh, Refresh

\* A refresh may go on in any phase as long as it has a resource.
LEMMA EnteringKeeps ==
  ASSUME CatalogTypes, NEW p \in Refreshers, refresh[p].pc # "idle", NEW pc,
         pc \in {"claim", "fetch", "store", "check", "write", "failed"}, Enter(p, pc)
  PROVE  /\ refresh' \in [Refreshers -> GoodRefresh]
         /\ refresh'[p] = [refresh[p] EXCEPT !.pc = pc]
<1>1. refresh' = [refresh EXCEPT ![p] = [refresh[p] EXCEPT !.pc = pc]]
  BY DEF Enter, CatalogTypes
<1>2. [refresh[p] EXCEPT !.pc = pc] \in GoodRefresh
  BY DEF CatalogTypes, GoodRefresh, Refresh
<1> QED
  BY <1>1, <1>2 DEF CatalogTypes

\* What a change of a resource leaves of the catalogs has the right types.
LEMMA FollowedTypes ==
  ASSUME CatalogTypes, NEW r \in Resources, NEW absent \in BOOLEAN, NEW discovery \in BOOLEAN,
         Followed(r, absent, discovery)
  PROVE  CatalogTypes'
<1>1. catalog' \in [Resources -> CatalogRow]
  <2>1. NoRow \in CatalogRow
    BY RefreshesBounded DEF NoRow, CatalogRow
  <2>2. Rescheduled(catalog[r]) \in CatalogRow
    BY DEF Rescheduled, Released, CatalogRow, CatalogTypes
  <2>3. catalog' = [catalog EXCEPT ![r] = IF absent THEN NoRow
                      ELSE IF discovery THEN Rescheduled(catalog[r]) ELSE catalog[r]]
    BY DEF Followed
  <2> QED
    BY <2>1, <2>2, <2>3 DEF CatalogTypes
<1>2. refresh' \in [Refreshers -> GoodRefresh]
  <2>1. \A p \in Refreshers : [refresh[p] EXCEPT !.current = FALSE] \in GoodRefresh
    BY DEF CatalogTypes, GoodRefresh, Refresh
  <2> QED
    BY <2>1, RestingIsGood DEF Followed, CatalogTypes
<1>3. answered' \in [Resources -> BOOLEAN]
  <2>1. (absent \/ ~discovery) \in BOOLEAN
    OBVIOUS
  <2> QED
    BY Zenon, <2>1 DEF Followed, CatalogTypes
<1> QED
  BY <1>1, <1>2, <1>3 DEF Followed, CatalogTypes

\* Every step of a refresh keeps the types.
LEMMA RefreshTypes ==
  ASSUME CatalogTypes, NEW p \in Refreshers,
         \/ \E r \in Resources, manual \in BOOLEAN : BeginRefresh(p, r, manual)
         \/ Claim(p) \/ Fetch(p) \/ Store(p) \/ Check(p) \/ Write(p)
         \/ StoreFails(p) \/ PersistFailure(p) \/ Die(p)
  PROVE  CatalogTypes'
<1>types. /\ catalog \in [Resources -> CatalogRow] /\ refresh \in [Refreshers -> GoodRefresh]
          /\ published \in [Resources -> 0 .. MaxEditions] /\ refreshes \in 0 .. MaxRefreshes
          /\ answered \in [Resources -> BOOLEAN]
  BY DEF CatalogTypes
<1>r. refresh[p].pc # "idle" => refresh[p].resource \in Resources
  BY <1>types DEF GoodRefresh
<1>end. End(p) => refresh' \in [Refreshers -> GoodRefresh]
  BY <1>types, RestingIsGood DEF End
<1>row. ASSUME NEW row \in CatalogRow, SetRow(p, row)
        PROVE  catalog' \in [Resources -> CatalogRow]
  BY <1>row, <1>types DEF SetRow
<1>released. ASSUME NEW due \in BOOLEAN, refresh[p].pc # "idle"
             PROVE  Released(Row(p), due) \in CatalogRow
  <2>1. Row(p) \in CatalogRow
    BY <1>released, <1>types, <1>r DEF Row
  <2>2. ASSUME NEW row \in CatalogRow
        PROVE  Released(row, due) \in CatalogRow
    BY DEF Released, CatalogRow
  <2> QED
    BY <2>1, <2>2
<1>answered. ASSUME NEW r, NEW b \in BOOLEAN, answered' = [answered EXCEPT ![r] = b]
             PROVE  answered' \in [Resources -> BOOLEAN]
  BY Zenon, <1>answered, <1>types
<1>1. ASSUME NEW r \in Resources, NEW manual \in BOOLEAN, BeginRefresh(p, r, manual)
      PROVE  CatalogTypes'
  <2> DEFINE x == [Resting EXCEPT !.pc = "claim", !.resource = r, !.current = TRUE, !.manual = manual]
  <2>1. x \in GoodRefresh
    BY RestingIsGood DEF Resting, GoodRefresh, Refresh
  <2>2. refreshes' \in 0 .. MaxRefreshes
    <3>1. refreshes < MaxRefreshes /\ refreshes' = refreshes + 1
      BY Zenon, <1>1 DEF BeginRefresh
    <3> QED
      BY <3>1, <1>types, RefreshesBounded
  <2>3. refresh' = [refresh EXCEPT ![p] = x]
    BY Zenon, <1>1 DEF BeginRefresh
  <2> HIDE DEF x
  <2> QED
    BY <1>1, <2>1, <2>2, <2>3, <1>types DEF BeginRefresh, CatalogTypes
<1>2. CASE Claim(p)
  <2> DEFINE r == refresh[p].resource
  <2>1. CASE End(p) /\ UNCHANGED <<catalog, answered>>
    BY <1>2, <2>1, <1>end, <1>types DEF Claim, CatalogTypes
  <2>2. CASE /\ catalog' = [catalog EXCEPT ![r].lease = p, ![r].live = TRUE]
             /\ answered' = [answered EXCEPT ![r] = @ \/ ~refresh[p].current]
             /\ Enter(p, "fetch")
    <3>1. r \in Resources
      BY <1>2, <1>r DEF Claim
    <3> HIDE DEF r
    <3>2. catalog' \in [Resources -> CatalogRow]
      BY <2>2, <3>1, <1>types DEF CatalogRow
    <3>3. (answered[r] \/ ~refresh[p].current) \in BOOLEAN
      OBVIOUS
    <3>4. answered' \in [Resources -> BOOLEAN]
      BY <2>2, <3>3, <1>answered
    <3>5. refresh' \in [Refreshers -> GoodRefresh]
      BY <1>2, <2>2, EnteringKeeps DEF Claim
    <3> QED
      BY <1>2, <3>2, <3>4, <3>5, <1>types DEF Claim, CatalogTypes
  <2> QED
    BY <1>2, <2>1, <2>2 DEF Claim
<1>3. CASE Fetch(p)
  <2>1. CASE refresh' = [refresh EXCEPT ![p].pc = "store",
                                        ![p].edition = published[refresh[p].resource]]
    <3> DEFINE e == published[refresh[p].resource]
               x == [refresh[p] EXCEPT !.pc = "store", !.edition = e]
    <3>1. e \in 0 .. MaxEditions
      BY <1>3, <1>r, <1>types DEF Fetch
    <3> HIDE DEF e
    <3>2. x \in GoodRefresh
      BY <1>3, <3>1, <1>types DEF Fetch, GoodRefresh, Refresh
    <3>3. refresh' = [refresh EXCEPT ![p] = x]
      BY <2>1, <1>types DEF e
    <3> QED
      BY <1>3, <3>2, <3>3, <1>types DEF Fetch, CatalogTypes
  <2>2. CASE Enter(p, "failed")
    BY <1>3, <2>2, <1>types, EnteringKeeps DEF Fetch, CatalogTypes
  <2> QED
    BY <1>3, <2>1, <2>2 DEF Fetch
<1>4. CASE Store(p)
  <2>1. CASE SetRow(p, [Row(p) EXCEPT !.live = TRUE]) /\ Enter(p, "check")
    <3>1. [Row(p) EXCEPT !.live = TRUE] \in CatalogRow
      BY <1>4, <1>r, <1>types DEF Store, Row, CatalogRow
    <3>2. refresh' \in [Refreshers -> GoodRefresh]
      BY <1>4, <2>1, EnteringKeeps DEF Store
    <3> QED
      BY <1>4, <2>1, <3>1, <3>2, <1>row, <1>types DEF Store, CatalogTypes
  <2>2. CASE End(p) /\ UNCHANGED catalog
    BY <1>4, <2>2, <1>end, <1>types DEF Store, CatalogTypes
  <2> QED
    BY <1>4, <2>1, <2>2 DEF Store
<1>5. CASE Check(p)
  <2>1. CASE Enter(p, "write") /\ UNCHANGED catalog
    BY <1>5, <2>1, <1>types, EnteringKeeps DEF Check, CatalogTypes
  <2>2. CASE SetRow(p, Released(Row(p), TRUE)) /\ End(p)
    BY <1>5, <2>2, <1>row, <1>released, <1>end, <1>types DEF Check, CatalogTypes
  <2> QED
    BY <1>5, <2>1, <2>2 DEF Check
<1>6. CASE Write(p)
  <2>1. Released(Row(p), FALSE) \in CatalogRow /\ refresh[p].edition \in 0 .. MaxEditions
    BY <1>6, <1>released, <1>types DEF Write, GoodRefresh, Refresh
  <2>2. [Released(Row(p), FALSE) EXCEPT !.edition = refresh[p].edition] \in CatalogRow
    BY <2>1 DEF CatalogRow
  <2>3. (answered[refresh[p].resource] \/ refresh[p].current) \in BOOLEAN
    OBVIOUS
  <2>4. answered' \in [Resources -> BOOLEAN]
    BY <1>6, <2>3, <1>answered DEF Write
  <2> QED
    BY <1>6, <2>2, <2>4, <1>row, <1>end, <1>types DEF Write, CatalogTypes
<1>7. CASE StoreFails(p)
  <2>1. refresh' \in [Refreshers -> GoodRefresh]
    BY <1>7, EnteringKeeps DEF StoreFails
  <2> QED
    BY <1>7, <2>1, <1>types DEF StoreFails, CatalogTypes
<1>8. CASE PersistFailure(p)
  <2>1. (answered[refresh[p].resource] \/ refresh[p].current) \in BOOLEAN
    OBVIOUS
  <2>2. answered' \in [Resources -> BOOLEAN]
    BY <1>8, <2>1, <1>answered, <1>types DEF PersistFailure
  <2>3. catalog' \in [Resources -> CatalogRow]
    BY <1>8, <1>row, <1>released, <1>types DEF PersistFailure
  <2> QED
    BY <1>8, <2>2, <2>3, <1>end, <1>types DEF PersistFailure, CatalogTypes
<1>9. CASE Die(p)
  BY <1>9, <1>end, <1>types DEF Die, CatalogTypes
<1> QED
  BY <1>1, <1>2, <1>3, <1>4, <1>5, <1>6, <1>7, <1>8, <1>9

\* A step of one refresh on one catalog keeps all in order, if it does for these two and
\* leaves the transaction of another refresh its lease.
LEMMA OneRefresh ==
  ASSUME CatalogInv, CatalogTypes', NEW p \in Refreshers, NEW r \in Resources,
         UNCHANGED published,
         \A q \in Refreshers \ {p} : refresh'[q] = refresh[q],
         \A x \in Resources \ {r} : catalog'[x] = catalog[x] /\ answered'[x] = answered[x],
         answered[r] => answered'[r],
         \A q \in Refreshers \ {p} : catalog'[r].lease = q =>
           catalog[r].lease = q /\ catalog'[r].edition = catalog[r].edition,
         catalog'[r].lease # catalog[r].lease =>
           \A q \in Refreshers \ {p} : refresh[q].resource = r => refresh[q].pc \notin {"check", "write"},
         CatalogInOrder(r)', RefreshInOrder(p)'
  PROVE  CatalogInv'
<1>1. ASSUME NEW x \in Resources \ {r}
      PROVE  CatalogInOrder(x)'
  BY <1>1 DEF CatalogInv, CatalogInOrder
<1>2. ASSUME NEW q \in Refreshers \ {p}
      PROVE  RefreshInOrder(q)'
  <2>1. /\ refresh'[q] = refresh[q] /\ RefreshInOrder(q)
        /\ Working(q) => refresh[q].resource \in Resources
    BY <1>2 DEF CatalogInv, CatalogTypes, GoodRefresh, Working
  <2>2. CASE refresh[q].resource = r
    BY <1>2, <2>1, <2>2 DEF RefreshInOrder, Fetched, Working, Leasing, Row
  <2>3. CASE refresh[q].resource # r
    BY <1>2, <2>1, <2>3 DEF RefreshInOrder, Fetched, Working, Leasing, Row
  <2> QED
    BY <2>2, <2>3
<1> QED
  BY <1>1, <1>2 DEF CatalogInv

\* A change of a resource ends the work on its catalog, or answers itself.
LEMMA FollowedInOrder ==
  ASSUME CatalogInv, NEW r \in Resources, NEW absent \in BOOLEAN, NEW discovery \in BOOLEAN,
         Followed(r, absent, discovery)
  PROVE  CatalogInv'
<1>types. CatalogTypes /\ CatalogTypes'
  BY FollowedTypes DEF CatalogInv
<1>c. /\ catalog'[r] = IF absent THEN NoRow
                       ELSE IF discovery THEN Rescheduled(catalog[r]) ELSE catalog[r]
      /\ \A x \in Resources \ {r} : catalog'[x] = catalog[x] /\ answered'[x] = answered[x]
      /\ answered'[r] <=> (absent \/ ~discovery)
      /\ UNCHANGED published
  BY <1>types DEF Followed, CatalogTypes
<1>row. /\ absent => catalog'[r].lease = None /\ catalog'[r].edition = 0
        /\ ~absent /\ discovery => /\ catalog'[r].lease = None /\ catalog'[r].due
                                   /\ catalog'[r].edition = catalog[r].edition
        /\ ~absent /\ ~discovery => catalog'[r] = catalog[r]
  BY <1>c, <1>types DEF NoRow, Rescheduled, Released, CatalogTypes, CatalogRow
<1>1. ASSUME NEW x \in Resources
      PROVE  CatalogInOrder(x)'
  <2>1. CatalogInOrder(x) /\ catalog[x] \in CatalogRow /\ published[x] \in 0 .. MaxEditions
    BY DEF CatalogInv, CatalogTypes
  <2>2. CASE x # r
    BY <2>1, <2>2, <1>c DEF CatalogInOrder
  <2>3. CASE x = r
    BY <2>1, <2>3, <1>c, <1>row DEF CatalogInOrder, CatalogRow
  <2> QED
    BY <2>2, <2>3
<1>2. ASSUME NEW q \in Refreshers
      PROVE  RefreshInOrder(q)'
  <2>1. RefreshInOrder(q) /\ refresh[q] \in GoodRefresh /\ refresh[q] \in Refresh
    BY DEF CatalogInv, CatalogTypes, GoodRefresh
  <2>2. CASE refresh'[q] = Resting
    BY <2>2 DEF Resting, RefreshInOrder, Fetched, Working
  <2>3. CASE refresh'[q] = refresh[q] /\ refresh[q].resource # r
    BY <1>c, <2>1, <2>3 DEF RefreshInOrder, Fetched, Working, Leasing, Row, GoodRefresh
  <2>4. CASE refresh'[q] = [refresh[q] EXCEPT !.current = FALSE] /\ refresh[q].resource = r
    <3>1. /\ refresh'[q].pc = refresh[q].pc /\ refresh'[q].edition = refresh[q].edition
          /\ refresh'[q].resource = r
      BY <2>1, <2>4 DEF Refresh
    <3>2. CASE ~absent /\ ~discovery
      BY <1>c, <1>row, <2>1, <2>4, <3>1, <3>2 DEF RefreshInOrder, Fetched, Working, Leasing, Row
    <3>3. CASE absent \/ discovery
      <4>1. catalog'[r].lease = None
        BY <1>row, <3>3
      <4>2. refresh[q].pc \notin {"check", "write"}
        BY <2>4, <3>3 DEF Followed, Held
      <4>3. catalog'[r].lease # q
        BY <4>1, NoneIsNoRefresher
      <4> QED
        BY <1>c, <2>1, <2>4, <3>1, <4>2, <4>3 DEF RefreshInOrder, Fetched, Working, Leasing, Row
    <3> QED
      BY <3>2, <3>3
  <2>5. \/ refresh'[q] = Resting
        \/ refresh'[q] = refresh[q] /\ refresh[q].resource # r
        \/ refresh'[q] = [refresh[q] EXCEPT !.current = FALSE] /\ refresh[q].resource = r
    BY DEF Followed
  <2> QED
    BY <2>2, <2>3, <2>4, <2>5
<1> QED
  BY <1>1, <1>2, <1>types DEF CatalogInv

\* Every step of a refresh keeps catalogs and refreshes in order.
LEMMA RefreshKeepsOrder ==
  ASSUME CatalogInv, NEW p \in Refreshers,
         \/ \E r \in Resources, manual \in BOOLEAN : BeginRefresh(p, r, manual)
         \/ Claim(p) \/ Fetch(p) \/ Store(p) \/ Check(p) \/ Write(p)
         \/ StoreFails(p) \/ PersistFailure(p) \/ Die(p)
  PROVE  CatalogInv'
<1>types. CatalogTypes /\ CatalogTypes'
  BY RefreshTypes DEF CatalogInv
<1>0. PICK r : r = refresh[p].resource
  OBVIOUS
<1> USE <1>0
<1>r. refresh[p].pc # "idle" => r \in Resources /\ CatalogInOrder(r)
  BY <1>types DEF CatalogTypes, GoodRefresh, CatalogInv
<1>p. RefreshInOrder(p) /\ refresh[p] \in Refresh /\ refresh[p] \in GoodRefresh
  BY <1>types DEF CatalogTypes, GoodRefresh, CatalogInv
<1>idle. Resting \in GoodRefresh /\ Resting.pc = "idle"
  BY RestingIsGood
<1>alone. ASSUME NEW x, refresh' = [refresh EXCEPT ![p] = x]
          PROVE  refresh'[p] = x /\ \A q \in Refreshers \ {p} : refresh'[q] = refresh[q]
  BY <1>alone, <1>types DEF CatalogTypes
<1>end. ASSUME End(p)
        PROVE  /\ RefreshInOrder(p)'
               /\ \A q \in Refreshers \ {p} : refresh'[q] = refresh[q]
  <2>1. refresh'[p].pc = "idle"
    BY <1>end, <1>alone, <1>idle DEF End
  <2> QED
    BY <1>end, <1>alone, <2>1 DEF End, RefreshInOrder, Fetched, Working
<1>enter. ASSUME NEW pc, Enter(p, pc)
          PROVE  /\ refresh'[p].pc = pc /\ refresh'[p].resource = r
                 /\ refresh'[p].current = refresh[p].current
                 /\ refresh'[p].edition = refresh[p].edition
                 /\ \A q \in Refreshers \ {p} : refresh'[q] = refresh[q]
  <2>1. refresh' = [refresh EXCEPT ![p] = [refresh[p] EXCEPT !.pc = pc]]
    BY <1>enter, <1>types DEF Enter, CatalogTypes
  <2> DEFINE x == [refresh[p] EXCEPT !.pc = pc]
  <2>2. /\ x.pc = pc /\ x.resource = r /\ x.current = refresh[p].current
        /\ x.edition = refresh[p].edition
    BY <1>p DEF Refresh
  <2> QED
    BY <2>1, <2>2, <1>alone
<1>row. ASSUME NEW row, SetRow(p, row), refresh[p].pc # "idle"
        PROVE  catalog'[r] = row /\ \A x \in Resources \ {r} : catalog'[x] = catalog[x]
  BY <1>row, <1>r, <1>types DEF SetRow, CatalogTypes
<1>same. ASSUME UNCHANGED <<catalog, published, answered>>, RefreshInOrder(p)',
                \A q \in Refreshers \ {p} : refresh'[q] = refresh[q]
         PROVE  CatalogInv'
  <2>1. ASSUME NEW q \in Refreshers
        PROVE  RefreshInOrder(q)'
    <3>1. CASE q # p
      BY <1>same, <3>1 DEF CatalogInv, RefreshInOrder, Fetched, Working, Leasing, Row
    <3> QED
      BY <1>same, <3>1
  <2>2. \A x \in Resources : CatalogInOrder(x)'
    BY <1>same DEF CatalogInv, CatalogInOrder
  <2> QED
    BY <2>1, <2>2, <1>types DEF CatalogInv
<1>released. ASSUME NEW due \in BOOLEAN, NEW e \in 0 .. MaxEditions, refresh[p].pc # "idle",
                    refresh[p].pc \in {"check", "write"} \/ Leasing(p),
                    SetRow(p, [Released(Row(p), due) EXCEPT !.edition = e]),
                    e <= published[r], End(p), UNCHANGED published,
                    due \/ answered'[r], answered[r] => answered'[r],
                    \A x \in Resources \ {r} : answered'[x] = answered[x]
             PROVE  CatalogInv'
  <2>1. /\ Row(p) \in CatalogRow /\ Row(p) = catalog[r]
        /\ catalog'[r] = [Released(Row(p), due) EXCEPT !.edition = e]
    BY <1>released, <1>r, <1>row, <1>types DEF CatalogTypes, Row
  <2>2. catalog'[r].lease = None /\ catalog'[r].edition = e /\ catalog'[r].due = due
    BY <2>1 DEF Released, CatalogRow
  <2>3. CatalogInOrder(r)'
    BY <1>released, <2>2 DEF CatalogInOrder
  <2>4. catalog[r].lease = p
    BY <1>released, <1>p, <2>1 DEF RefreshInOrder, Leasing
  <2>5. \A q \in Refreshers \ {p} : refresh[q].resource = r => refresh[q].pc \notin {"check", "write"}
    BY <2>4 DEF CatalogInv, RefreshInOrder, Leasing, Row
  <2> QED
    BY <1>released, <1>r, <1>row, <1>end, <1>types, <2>2, <2>3, <2>5, OneRefresh, NoneIsNoRefresher
<1>1. ASSUME NEW x \in Resources, NEW manual \in BOOLEAN, BeginRefresh(p, x, manual)
      PROVE  CatalogInv'
  <2> DEFINE new == [Resting EXCEPT !.pc = "claim", !.resource = x, !.current = TRUE, !.manual = manual]
  <2>1. new.pc = "claim"
    BY DEF Resting
  <2>2. refresh' = [refresh EXCEPT ![p] = new] /\ UNCHANGED <<catalog, published, answered>>
    BY Zenon, <1>1 DEF BeginRefresh
  <2> HIDE DEF new
  <2>3. RefreshInOrder(p)'
    BY <2>1, <2>2, <1>alone DEF RefreshInOrder, Fetched, Working
  <2> QED
    BY <2>2, <2>3, <1>alone, <1>same
<1>2. CASE Claim(p)
  <2>1. CASE End(p) /\ UNCHANGED <<catalog, answered>>
    BY <1>2, <2>1, <1>end, <1>same DEF Claim
  <2>2. CASE /\ catalog' = [catalog EXCEPT ![r].lease = p, ![r].live = TRUE]
             /\ answered' = [answered EXCEPT ![r] = @ \/ ~refresh[p].current]
             /\ Enter(p, "fetch")
    <3>1. /\ r \in Resources /\ ~Held(r) /\ UNCHANGED published /\ refresh[p].pc = "claim"
      BY <1>2, <1>r DEF Claim
    <3>2. /\ refresh'[p].pc = "fetch" /\ refresh'[p].resource = r
          /\ refresh'[p].current = refresh[p].current
      BY <2>2, <1>enter
    <3>3. /\ catalog'[r].lease = p /\ catalog'[r].edition = catalog[r].edition
          /\ catalog'[r].due = catalog[r].due
          /\ \A x \in Resources \ {r} : catalog'[x] = catalog[x]
      BY <2>2, <3>1, <1>types DEF CatalogTypes, CatalogRow
    <3>4. /\ answered'[r] = (answered[r] \/ ~refresh[p].current)
          /\ \A x \in Resources \ {r} : answered'[x] = answered[x]
      BY Zenon, <2>2, <3>1, <1>types DEF CatalogTypes
    <3>5. CatalogInOrder(r)'
      BY <3>1, <3>3, <3>4, <1>r DEF CatalogInOrder
    <3>6. RefreshInOrder(p)'
      BY <3>2, <3>4 DEF RefreshInOrder, Fetched, Working, Leasing, Row
    <3>7. \A q \in Refreshers \ {p} :
            /\ refresh'[q] = refresh[q]
            /\ refresh[q].resource = r => refresh[q].pc \notin {"check", "write"}
      BY <2>2, <3>1, <1>enter DEF Held
    <3> QED
      BY <3>1, <3>3, <3>4, <3>5, <3>6, <3>7, <1>types, OneRefresh
  <2> QED
    BY <1>2, <2>1, <2>2 DEF Claim
<1>3. CASE Fetch(p)
  <2>0. refresh[p].pc = "fetch" /\ UNCHANGED <<catalog, published, answered>> /\ r \in Resources
    BY <1>3, <1>r DEF Fetch
  <2>1. CASE refresh' = [refresh EXCEPT ![p].pc = "store", ![p].edition = published[r]]
    <3> DEFINE e == published[r]
    <3>1. refresh' = [refresh EXCEPT ![p] = [refresh[p] EXCEPT !.pc = "store", !.edition = e]]
      BY <2>1, <1>types DEF CatalogTypes
    <3>2. refresh'[p] = [refresh[p] EXCEPT !.pc = "store", !.edition = e]
      BY <3>1, <1>alone
    <3>3. /\ refresh'[p].pc = "store" /\ refresh'[p].edition = e
          /\ refresh'[p].resource = r /\ refresh'[p].current = refresh[p].current
      BY <3>2, <1>p DEF Refresh
    <3>4. e \in Nat /\ catalog[r].edition <= e
      BY <2>0, <1>r, <1>types, RefreshesBounded DEF CatalogTypes, CatalogInOrder
    <3>5. RefreshInOrder(p)'
      BY <2>0, <3>3, <3>4, <1>p DEF RefreshInOrder, Fetched, Working, Leasing, Row
    <3> QED
      BY <2>0, <3>1, <3>5, <1>alone, <1>same
  <2>2. CASE Enter(p, "failed")
    <3>1. refresh'[p].pc = "failed" /\ refresh'[p].resource = r /\ refresh'[p].current = refresh[p].current
      BY <2>2, <1>enter
    <3>2. RefreshInOrder(p)'
      BY <2>0, <3>1, <1>p DEF RefreshInOrder, Fetched, Working, Leasing, Row
    <3> QED
      BY <2>0, <2>2, <3>2, <1>enter, <1>same
  <2> QED
    BY <1>3, <2>1, <2>2 DEF Fetch
<1>4. CASE Store(p)
  <2>0. refresh[p].pc = "store" /\ UNCHANGED <<published, answered>> /\ r \in Resources
    BY <1>4, <1>r DEF Store
  <2>1. CASE HoldsLease(p) /\ SetRow(p, [Row(p) EXCEPT !.live = TRUE]) /\ Enter(p, "check")
    <3>1. /\ refresh'[p].pc = "check" /\ refresh'[p].resource = r
          /\ refresh'[p].current = refresh[p].current /\ refresh'[p].edition = refresh[p].edition
      BY <2>1, <1>enter
    <3>2. /\ catalog'[r].lease = catalog[r].lease /\ catalog'[r].edition = catalog[r].edition
          /\ catalog'[r].due = catalog[r].due /\ catalog[r].lease = p
      BY <2>0, <2>1, <1>row, <1>types DEF CatalogTypes, CatalogRow, Row, HoldsLease
    <3>3. RefreshInOrder(p)'
      BY <2>0, <3>1, <3>2, <1>p DEF RefreshInOrder, Fetched, Working, Leasing, Row
    <3>4. CatalogInOrder(r)'
      BY <2>0, <3>2, <1>r DEF CatalogInOrder
    <3>5. /\ \A q \in Refreshers \ {p} : refresh'[q] = refresh[q]
          /\ \A x \in Resources \ {r} : catalog'[x] = catalog[x]
      BY <2>0, <2>1, <1>enter, <1>row
    <3> QED
      BY <2>0, <3>2, <3>3, <3>4, <3>5, <1>types, OneRefresh
  <2>2. CASE End(p) /\ UNCHANGED catalog
    BY <2>0, <2>2, <1>end, <1>same
  <2> QED
    BY <1>4, <2>1, <2>2 DEF Store
<1>5. CASE Check(p)
  <2>0. refresh[p].pc = "check" /\ UNCHANGED <<published, answered>> /\ r \in Resources
    BY <1>5, <1>r DEF Check
  <2>1. CASE Enter(p, "write") /\ UNCHANGED catalog
    <3>1. /\ refresh'[p].pc = "write" /\ refresh'[p].resource = r
          /\ refresh'[p].current = refresh[p].current /\ refresh'[p].edition = refresh[p].edition
      BY <2>1, <1>enter
    <3>2. RefreshInOrder(p)'
      BY <2>0, <2>1, <3>1, <1>p DEF RefreshInOrder, Fetched, Working, Leasing, Row
    <3> QED
      BY <2>0, <2>1, <3>2, <1>enter, <1>same
  <2>2. CASE SetRow(p, Released(Row(p), TRUE)) /\ End(p)
    <3>1. Row(p) \in CatalogRow /\ Row(p).edition \in 0 .. MaxEditions /\ Row(p).edition <= published[r]
      BY <2>0, <1>r, <1>types DEF CatalogTypes, CatalogRow, Row, CatalogInOrder
    <3>2. [Released(Row(p), TRUE) EXCEPT !.edition = Row(p).edition] = Released(Row(p), TRUE)
      BY <3>1 DEF Released, CatalogRow
    <3> QED
      BY <2>0, <2>2, <3>1, <3>2, <1>released
  <2> QED
    BY <1>5, <2>1, <2>2 DEF Check
<1>6. CASE Write(p)
  <2>1. /\ refresh[p].pc = "write" /\ UNCHANGED published /\ r \in Resources /\ End(p)
        /\ SetRow(p, [Released(Row(p), FALSE) EXCEPT !.edition = refresh[p].edition])
    BY <1>6, <1>r DEF Write
  <2>2. /\ answered'[r] = (answered[r] \/ refresh[p].current)
        /\ \A x \in Resources \ {r} : answered'[x] = answered[x]
    BY Zenon, <1>6, <2>1, <1>types DEF Write, CatalogTypes
  <2>3. /\ refresh[p].edition <= published[r] /\ refresh[p].edition \in 0 .. MaxEditions
        /\ refresh[p].current \/ answered[r]
    BY <2>1, <1>p DEF RefreshInOrder, Fetched, Working, Refresh
  <2> QED
    BY <2>1, <2>2, <2>3, <1>released
<1>7. CASE StoreFails(p)
  <2>1. /\ refresh[p].pc \in {"store", "check", "write"} /\ Enter(p, "failed")
        /\ UNCHANGED <<catalog, published, answered>>
    BY <1>7 DEF StoreFails
  <2>2. refresh'[p].pc = "failed" /\ refresh'[p].resource = r /\ refresh'[p].current = refresh[p].current
    BY <2>1, <1>enter
  <2>3. RefreshInOrder(p)'
    BY <2>1, <2>2, <1>p DEF RefreshInOrder, Fetched, Working, Leasing, Row
  <2> QED
    BY <2>1, <2>3, <1>enter, <1>same
<1>8. CASE PersistFailure(p)
  <2>1. refresh[p].pc = "failed" /\ UNCHANGED published /\ r \in Resources /\ End(p)
    BY <1>8, <1>r DEF PersistFailure
  <2>2. CASE UNCHANGED <<catalog, answered>>
    BY <2>1, <2>2, <1>end, <1>same
  <2>3. CASE /\ Row(p).lease = p /\ SetRow(p, Released(Row(p), FALSE))
             /\ answered' = [answered EXCEPT ![r] = @ \/ refresh[p].current]
    <3>1. Row(p) \in CatalogRow /\ Row(p).edition \in 0 .. MaxEditions /\ Row(p).edition <= published[r]
      BY <2>1, <1>r, <1>types DEF CatalogTypes, CatalogRow, Row, CatalogInOrder
    <3>2. [Released(Row(p), FALSE) EXCEPT !.edition = Row(p).edition] = Released(Row(p), FALSE)
      BY <3>1 DEF Released, CatalogRow
    <3>3. /\ answered'[r] = (answered[r] \/ refresh[p].current)
          /\ \A x \in Resources \ {r} : answered'[x] = answered[x]
      BY Zenon, <2>1, <2>3, <1>types DEF CatalogTypes
    <3>4. refresh[p].current \/ answered[r]
      BY <2>1, <2>3, <1>p DEF RefreshInOrder, Working, Leasing
    <3> QED
      BY <2>1, <2>3, <3>1, <3>2, <3>3, <3>4, <1>released DEF Leasing
  <2> QED
    BY <1>8, <2>2, <2>3 DEF PersistFailure
<1>9. CASE Die(p)
  BY <1>9, <1>end, <1>same DEF Die
<1> QED
  BY <1>1, <1>2, <1>3, <1>4, <1>5, <1>6, <1>7, <1>8, <1>9

\* Every step of the whole keeps catalogs and refreshes in order.
LEMMA CatalogsInOrder ==
  ASSUME CatalogInv, [Next]_vars
  PROVE  CatalogInv'
<1>same. CASE UNCHANGED catalogVars
  <2>1. UNCHANGED <<catalog, published, refresh, refreshes, answered>>
    BY <1>same DEF catalogVars
  <2>2. CatalogTypes'
    BY <2>1 DEF CatalogInv, CatalogTypes
  <2>3. (\A p \in Refreshers : RefreshInOrder(p))' /\ (\A r \in Resources : CatalogInOrder(r))'
    BY <2>1 DEF CatalogInv, CatalogInOrder, RefreshInOrder, Fetched, Working, Leasing, Row
  <2> QED
    BY <2>2, <2>3 DEF CatalogInv
<1>1. CASE Administer
  <2>1. CatalogsFollow
    BY <1>1 DEF Administer
  <2>2. CASE resource' = resource
    BY <2>1, <2>2, <1>same DEF CatalogsFollow
  <2>3. CASE resource' # resource
    <3>1. PICK r \in Resources, discovery \in BOOLEAN :
            Followed(r, resource'[r].status = "absent", discovery)
      BY <2>1, <2>3 DEF CatalogsFollow
    <3> DEFINE deleted == resource'[r].status = "absent"
    <3>2. deleted \in BOOLEAN
      OBVIOUS
    <3> HIDE DEF deleted
    <3>3. PICK absent \in BOOLEAN : absent = deleted
      BY <3>2
    <3>4. Followed(r, absent, discovery)
      BY <3>1, <3>3 DEF deleted
    <3> QED
      BY <3>4, FollowedInOrder
  <2> QED
    BY <2>2, <2>3
<1>2. ASSUME NEW r \in Resources, SwitchDiscovery(r)
      PROVE  CatalogInv'
  <2>1. Followed(r, FALSE, r \notin discovers)
    BY <1>2 DEF SwitchDiscovery
  <2> QED
    BY <2>1, FollowedInOrder
<1>3. ASSUME NEW r \in Resources, Pass(r)
      PROVE  CatalogInv'
  <2>1. UNCHANGED <<published, refresh, refreshes, answered>>
    BY <1>3 DEF Pass
  <2>2. /\ catalog' \in [Resources -> CatalogRow]
        /\ \A x \in Resources : /\ catalog'[x].lease = catalog[x].lease
                                /\ catalog'[x].edition = catalog[x].edition
                                /\ catalog[x].due => catalog'[x].due
    <3>1. CASE catalog' = [catalog EXCEPT ![r].live = FALSE]
      BY <3>1 DEF CatalogInv, CatalogTypes, CatalogRow
    <3>2. CASE catalog' = [catalog EXCEPT ![r].due = TRUE]
      BY <3>2 DEF CatalogInv, CatalogTypes, CatalogRow
    <3> QED
      BY <1>3, <3>1, <3>2 DEF Pass
  <2>3. CatalogTypes'
    BY <2>1, <2>2 DEF CatalogInv, CatalogTypes
  <2>4. ASSUME NEW x \in Resources
        PROVE  CatalogInOrder(x)'
    BY <2>1, <2>2 DEF CatalogInv, CatalogInOrder
  <2>5. ASSUME NEW p \in Refreshers
        PROVE  RefreshInOrder(p)'
    <3>1. Working(p) => refresh[p].resource \in Resources
      BY DEF CatalogInv, CatalogTypes, GoodRefresh, Working
    <3> QED
      BY <2>1, <2>2, <3>1 DEF CatalogInv, RefreshInOrder, Fetched, Working, Leasing, Row
  <2> QED
    BY <2>3, <2>4, <2>5 DEF CatalogInv
<1>4. ASSUME NEW r \in Resources, Publish(r)
      PROVE  CatalogInv'
  <2>1. UNCHANGED <<catalog, refresh, refreshes, answered>>
    BY <1>4 DEF Publish
  <2>2. /\ published' \in [Resources -> 0 .. MaxEditions]
        /\ \A x \in Resources : published'[x] >= published[x]
    BY <1>4, RefreshesBounded DEF Publish, CatalogInv, CatalogTypes
  <2>3. CatalogTypes'
    BY <2>1, <2>2 DEF CatalogInv, CatalogTypes
  <2>4. ASSUME NEW x \in Resources
        PROVE  CatalogInOrder(x)'
    <3>1. catalog[x].edition \in Nat /\ published[x] \in Nat /\ published'[x] \in Nat
      BY <2>2 DEF CatalogInv, CatalogTypes, CatalogRow
    <3> QED
      BY <2>1, <2>2, <3>1 DEF CatalogInv, CatalogInOrder
  <2>5. ASSUME NEW p \in Refreshers
        PROVE  RefreshInOrder(p)'
    <3>1. Fetched(p) => /\ refresh[p].resource \in Resources /\ refresh[p].edition \in Nat
                        /\ published[refresh[p].resource] \in Nat
                        /\ published'[refresh[p].resource] \in Nat
      BY <2>2 DEF CatalogInv, CatalogTypes, GoodRefresh, Refresh, Fetched
    <3> QED
      BY <2>1, <2>2, <3>1 DEF CatalogInv, RefreshInOrder, Fetched, Working, Leasing, Row
  <2> QED
    BY <2>3, <2>4, <2>5 DEF CatalogInv
<1>5. CASE (PolicyStep \/ PlanStep) /\ UNCHANGED catalogVars
  BY <1>5, <1>same
<1>6. CASE CatalogStep
  BY <1>6, <1>2, <1>3, <1>4, RefreshKeepsOrder DEF CatalogStep
<1>7. CASE UNCHANGED vars
  BY <1>7, <1>same DEF vars
<1> QED
  BY <1>1, <1>5, <1>6, <1>7 DEF Next

\* The directory starts in order.
LEMMA CatalogStart ==
  ASSUME Init
  PROVE  CatalogInv
<1>1. NoRow \in CatalogRow /\ NoRow.edition = 0
  BY RefreshesBounded DEF NoRow, CatalogRow
<1>2. CatalogTypes
  BY <1>1, RestingIsGood, RefreshesBounded DEF Init, CatalogInit, CatalogTypes
<1>3. ASSUME NEW p \in Refreshers
      PROVE  RefreshInOrder(p)
  BY RestingIsGood DEF Init, CatalogInit, RefreshInOrder, Fetched, Working
<1>4. ASSUME NEW r \in Resources
      PROVE  CatalogInOrder(r)
  BY <1>1 DEF Init, CatalogInit, CatalogInOrder
<1> QED
  BY <1>2, <1>3, <1>4 DEF CatalogInv

\* The catalogs stay in order in every behaviour.
LEMMA CatalogInvariant == Spec => []CatalogInv
  BY CatalogStart, CatalogsInOrder, PTL DEF Spec

\* After a change of a resource its catalog stays due until a refresh of the resource as
\* it then is has ended: of a refresh that read it before, only one whose lease ended
\* with the change can be at work.
THEOREM ChangesStayDue == Spec => []ChangeStaysDue
<1>1. CatalogInv => ChangeStaysDue
  BY DEF CatalogInv, CatalogInOrder, ChangeStaysDue
<1> QED
  BY <1>1, CatalogInvariant, PTL

\* An edition is written by a refresh that holds the lease, and so is no older than
\* the one it replaces; a change of the resource keeps the edition or deletes the row.
LEMMA EditionsGrow ==
  ASSUME CatalogInv, [Next]_vars, NEW r \in Resources, catalog'[r].exists
  PROVE  catalog'[r].edition >= catalog[r].edition
<1>types. /\ CatalogTypes /\ catalog[r] \in CatalogRow
          /\ catalog[r].edition \in Nat
  BY DEF CatalogInv, CatalogTypes, CatalogRow
<1>same. CASE catalog'[r].edition = catalog[r].edition
  BY <1>same, <1>types
<1>1. ASSUME NEW x \in Resources, NEW absent, NEW discovery, Followed(x, absent, discovery)
      PROVE  catalog'[r].edition = catalog[r].edition
  <2>1. CASE x # r
    BY <1>1, <2>1, <1>types DEF Followed, CatalogTypes
  <2>2. CASE x = r
    <3>1. catalog'[r] = IF absent THEN NoRow
                        ELSE IF discovery THEN Rescheduled(catalog[r]) ELSE catalog[r]
      BY Zenon, <1>1, <2>2, <1>types DEF Followed, CatalogTypes
    <3>2. catalog'[r] # NoRow
      BY DEF NoRow
    <3>3. Rescheduled(catalog[r]).edition = catalog[r].edition
      BY <1>types DEF Rescheduled, Released, CatalogRow
    <3> QED
      BY Zenon, <3>1, <3>2, <3>3
  <2> QED
    BY <2>1, <2>2
<1>row. ASSUME NEW p \in Refreshers, NEW row, SetRow(p, row), refresh[p].pc # "idle",
               row.edition \in Nat, row.edition >= Row(p).edition
        PROVE  catalog'[r].edition >= catalog[r].edition
  BY <1>row, <1>types DEF SetRow, CatalogTypes, Row
<1>released. ASSUME NEW p \in Refreshers, refresh[p].pc # "idle", NEW due
             PROVE  /\ Released(Row(p), due).edition = Row(p).edition
                    /\ Row(p) \in CatalogRow /\ Row(p).edition \in Nat
                    /\ refresh[p].edition \in Nat
                    /\ [Released(Row(p), due) EXCEPT !.edition = refresh[p].edition].edition
                         = refresh[p].edition
                    /\ [Row(p) EXCEPT !.live = TRUE].edition = Row(p).edition
  <2>1. Row(p) \in CatalogRow /\ refresh[p] \in Refresh
    BY <1>released, <1>types DEF CatalogTypes, GoodRefresh, Row
  <2> QED
    BY <2>1 DEF Released, CatalogRow, Refresh
<1>2. ASSUME NEW p \in Refreshers, Write(p)
      PROVE  catalog'[r].edition >= catalog[r].edition
  <2>1. refresh[p].pc = "write" /\ Row(p).edition <= refresh[p].edition
    BY <1>2 DEF Write, CatalogInv, RefreshInOrder, Fetched
  <2>2. SetRow(p, [Released(Row(p), FALSE) EXCEPT !.edition = refresh[p].edition])
    BY <1>2 DEF Write
  <2> DEFINE row == [Released(Row(p), FALSE) EXCEPT !.edition = refresh[p].edition]
  <2>3. row.edition = refresh[p].edition /\ row.edition \in Nat /\ row.edition >= Row(p).edition
    BY <2>1, <1>released
  <2> HIDE DEF row
  <2> QED
    BY <2>1, <2>2, <2>3, <1>row DEF row
<1>3. ASSUME NEW p \in Refreshers, Store(p) \/ Check(p) \/ PersistFailure(p)
      PROVE  catalog'[r].edition >= catalog[r].edition
  <2>1. refresh[p].pc # "idle"
    BY <1>3 DEF Store, Check, PersistFailure
  <2>2. \/ UNCHANGED catalog
        \/ SetRow(p, [Row(p) EXCEPT !.live = TRUE])
        \/ SetRow(p, Released(Row(p), TRUE))
        \/ SetRow(p, Released(Row(p), FALSE))
    BY <1>3 DEF Store, Check, PersistFailure
  <2> DEFINE stored == [Row(p) EXCEPT !.live = TRUE]
             released(due) == Released(Row(p), due)
  <2>3. /\ stored.edition = Row(p).edition /\ Row(p).edition \in Nat
        /\ \A due \in BOOLEAN : released(due).edition = Row(p).edition
    BY <2>1, <1>released
  <2>4. UNCHANGED catalog \/ SetRow(p, stored) \/ SetRow(p, released(TRUE)) \/ SetRow(p, released(FALSE))
    BY <2>2
  <2> HIDE DEF stored, released
  <2>5. Row(p).edition >= Row(p).edition
    BY <2>3
  <2> QED
    BY <2>1, <2>3, <2>4, <2>5, <1>row, <1>same
<1>4. ASSUME NEW p \in Refreshers, Claim(p)
      PROVE  catalog'[r].edition = catalog[r].edition
  BY <1>4, <1>types DEF Claim, CatalogTypes, CatalogRow
<1>5. ASSUME NEW x \in Resources, Pass(x)
      PROVE  catalog'[r].edition = catalog[r].edition
  BY <1>5, <1>types DEF Pass, CatalogTypes, CatalogRow
<1>6. ASSUME NEW p \in Refreshers,
             \/ \E x \in Resources, manual \in BOOLEAN : BeginRefresh(p, x, manual)
             \/ Fetch(p) \/ StoreFails(p) \/ Die(p)
      PROVE  UNCHANGED catalog
  BY Zenon, <1>6 DEF BeginRefresh, Fetch, StoreFails, Die
<1>7. \A x \in Resources : Publish(x) => UNCHANGED catalog
  BY DEF Publish
<1>8. CASE CatalogStep
  <2>1. ASSUME NEW x \in Resources, SwitchDiscovery(x)
        PROVE  catalog'[r].edition = catalog[r].edition
    BY Zenon, <2>1, <1>1 DEF SwitchDiscovery
  <2> QED
    BY <1>8, <2>1, <1>same, <1>2, <1>3, <1>4, <1>5, <1>6, <1>7 DEF CatalogStep
<1>9. CASE Administer
  <2>1. CatalogsFollow
    BY <1>9 DEF Administer
  <2>2. CASE UNCHANGED catalogVars
    BY <2>2, <1>same DEF catalogVars
  <2> QED
    BY Zenon, <2>1, <2>2, <1>1, <1>same DEF CatalogsFollow
<1>10. CASE UNCHANGED catalogVars \/ UNCHANGED vars
  BY <1>10, <1>same DEF catalogVars, vars
<1> QED
  BY <1>8, <1>9, <1>10 DEF Next

\* A stored catalog is never replaced by an earlier edition.
THEOREM CatalogsGoForward == Spec => NeverGoesBack
<1>1. CatalogInv /\ [Next]_vars
        => [\A r \in Resources :
              catalog[r].exists /\ catalog'[r].exists => catalog'[r].edition >= catalog[r].edition]_catalogVars
  BY EditionsGrow
<1> QED
  BY <1>1, CatalogInvariant, PTL DEF Spec, NeverGoesBack
--------------------------------------------------------------------------------
\* Which scopes a skill requires, with the domain that the tables always have.
ScopesInv == DOMAIN skill = Skills /\ RequiredScopesKept

\* A scope goes only when no skill requires it, or with a note that a plan overlooked one.
LEMMA ScopesStep ==
  ASSUME ScopesInv, [Next]_vars
  PROVE  ScopesInv'
<1>same. CASE UNCHANGED <<scopes, skill, overlooked>>
  BY <1>same DEF ScopesInv, RequiredScopesKept, Known
<1>1. ASSUME NEW k \in Skills, SaveSkill(k), UNCHANGED overlooked
      PROVE  ScopesInv'
  <2>1. PICK requires \in SUBSET Known, needs \in SUBSET Resources :
          skill' = [skill EXCEPT ![k] = [exists |-> TRUE, requires |-> requires, needs |-> needs]]
    BY <1>1 DEF SaveSkill
  <2> QED
    BY <1>1, <2>1 DEF ScopesInv, RequiredScopesKept, Known, SaveSkill
<1>2. ASSUME NEW k \in Skills, DeleteSkill(k), UNCHANGED overlooked
      PROVE  ScopesInv'
  <2>1. NoSkill.requires = {}
    BY DEF NoSkill
  <2> QED
    BY <1>2, <2>1 DEF ScopesInv, RequiredScopesKept, Known, DeleteSkill
<1>3. ASSUME NEW s \in Scopes, CreateScope(s) \/ DeleteScope(s), UNCHANGED overlooked
      PROVE  ScopesInv'
  BY <1>3 DEF ScopesInv, RequiredScopesKept, Known, CreateScope, DeleteScope, Used
<1>4. ASSUME \/ \E r \in Resources : SaveResource(r) \/ DeleteResource(r)
             \/ \E f \in Forms : SaveAssignment(f) \/ CloseForm(f) \/ \E e \in Emails : OpenForm(f, e)
             \/ \E e \in Emails : Verify(e)
             \/ \E p \in Providers : \/ CreateProvider(p) \/ SaveProvider(p) \/ RemoveProvider(p)
                                     \/ \E g \in Groups : SaveGroup(p, g) \/ DeleteGroup(p, g)
      PROVE  UNCHANGED <<scopes, skill>>
  BY <1>4 DEF SaveResource, DeleteResource, SaveAssignment, CloseForm, OpenForm, Verify,
     CreateProvider, SaveProvider, RemoveProvider, SaveGroup, DeleteGroup
<1>5. CASE Administer
  <2>1. Administration /\ UNCHANGED overlooked
    BY <1>5 DEF Administer
  <2>2. CASE UNCHANGED <<scopes, skill>>
    BY <2>1, <2>2, <1>same
  <2> QED
    BY <2>1, <2>2, <1>1, <1>2, <1>3, <1>4 DEF Administration
<1>6. ASSUME NEW u \in Runners, Apply(u)
      PROVE  ScopesInv'
  <2> DEFINE t == run[u].snapshot
             r == Executed(run[u].manifest, t)
  <2>1. CASE UNCHANGED <<scopes, overlooked>>
    BY <1>6, <2>1, <1>same DEF Apply
  <2>2. CASE /\ scopes' = (scopes \ (t.scopes \ r.scopes)) \cup (r.scopes \ t.scopes)
             /\ overlooked' = overlooked \cup {s \in t.scopes \ r.scopes :
                                \E k \in Skills : s \in skill[k].requires}
    <3>1. UNCHANGED skill
      BY <1>6 DEF Apply
    <3> HIDE DEF t, r
    <3> QED
      BY <2>2, <3>1 DEF ScopesInv, RequiredScopesKept, Known
  <2> QED
    BY <1>6, <2>1, <2>2 DEF Apply
<1>7. CASE PlanStep
  <2>1. \A u \in Runners : Plan(u) \/ RequestApply(u) \/ Abandon(u)
          => UNCHANGED <<scopes, skill, overlooked>>
    BY DEF Plan, RequestApply, Abandon, accessVars
  <2>2. \A a \in Addresses : Import(a) \/ Unmanage(a) \/ (\E b \in Addresses : MoveState(a, b))
          => UNCHANGED <<scopes, skill, overlooked>>
    BY DEF Import, Unmanage, MoveState, Rebind, accessVars
  <2> QED
    BY <1>7, <2>1, <2>2, <1>6, <1>same DEF PlanStep
<1>8. CASE PolicyStep /\ UNCHANGED planVars
  <2>1. UNCHANGED accessVars
    BY <1>8 DEF PolicyStep, Move, Begin, Resolve, Resolved, Decide
  <2> QED
    BY <1>8, <2>1, <1>same DEF accessVars, planVars
<1>9. CASE CatalogStep /\ UNCHANGED planVars
  <2>1. UNCHANGED <<scopes, skill>>
    BY <1>9 DEF CatalogStep, SwitchDiscovery, accessVars
  <2> QED
    BY <1>9, <2>1, <1>same DEF planVars
<1>10. CASE UNCHANGED vars
  BY <1>10, <1>same DEF vars, accessVars, planVars
<1> QED
  BY <1>5, <1>7, <1>8, <1>9, <1>10 DEF Next

\* Whatever administrators and plans do to scopes and skills, no skill requires a scope
\* that does not exist, but for one that a plan deleted without having seen the skill.
THEOREM RequiredScopes == Spec => []RequiredScopesKept
<1>1. Init => ScopesInv
  <2>1. NoSkill.requires = {}
    BY DEF NoSkill
  <2> QED
    BY <2>1 DEF Init, AccessInit, ScopesInv, RequiredScopesKept
<1>2. ScopesInv /\ [Next]_vars => ScopesInv'
  BY ScopesStep
<1>3. ScopesInv => RequiredScopesKept
  BY DEF ScopesInv
<1> QED
  BY <1>1, <1>2, <1>3, PTL DEF Spec
--------------------------------------------------------------------------------
\* What a step may do to a provider: every change but its removal gives it a version.
ProviderMove(p) ==
  \/ provider'[p] = provider[p]
  \/ provider'[p].version > provider[p].version
  \/ provider'[p].version = provider[p].version /\ provider'[p].status = "absent"

\* Every mutation moves each provider in one of these ways.
LEMMA ProvidersMove ==
  ASSUME provider \in [Providers -> Provider], Administration
  PROVE  provider' \in [Providers -> Provider] /\ \A p \in Providers : ProviderMove(p)
<1>same. CASE UNCHANGED provider
  BY <1>same DEF ProviderMove
<1>one. ASSUME NEW p \in Providers, NEW row \in Provider, provider' = [provider EXCEPT ![p] = row],
               \/ row.version > provider[p].version
               \/ row.version = provider[p].version /\ row.status = "absent"
        PROVE  provider' \in [Providers -> Provider] /\ \A q \in Providers : ProviderMove(q)
  BY <1>one DEF ProviderMove
<1>p. ASSUME NEW p \in Providers
      PROVE  provider[p] \in Provider /\ provider[p].version \in Nat
  BY DEF Provider
<1>1. ASSUME NEW p \in Providers, CreateProvider(p)
      PROVE  provider' \in [Providers -> Provider] /\ \A q \in Providers : ProviderMove(q)
  <2>1. PICK status \in {"disabled", "enabled"}, credential \in BOOLEAN :
          provider' = [provider EXCEPT ![p] =
            [status |-> status, version |-> provider[p].version + 1, credential |-> credential]]
    BY <1>1 DEF CreateProvider
  <2> DEFINE row == [status |-> status, version |-> provider[p].version + 1, credential |-> credential]
  <2>2. provider[p].version + 1 \in Nat /\ provider[p].version + 1 > provider[p].version
    BY <1>p
  <2>3. row \in Provider /\ row.version > provider[p].version
    BY <2>2 DEF Provider
  <2> QED
    BY <2>1, <2>3, <1>one
<1>2. ASSUME NEW p \in Providers, SaveProvider(p)
      PROVE  provider' \in [Providers -> Provider] /\ \A q \in Providers : ProviderMove(q)
  <2>1. PICK status \in {"disabled", "enabled"}, token \in BOOLEAN :
          provider' = [provider EXCEPT ![p] =
            [status |-> status, version |-> provider[p].version + 1,
             credential |-> token \/ provider[p].credential]]
    BY <1>2 DEF SaveProvider
  <2>2. PICK credential \in BOOLEAN : credential = (token \/ provider[p].credential)
    OBVIOUS
  <2> DEFINE row == [status |-> status, version |-> provider[p].version + 1, credential |-> credential]
  <2>3. provider[p].version + 1 \in Nat /\ provider[p].version + 1 > provider[p].version
    BY <1>p
  <2>4. row \in Provider /\ row.version > provider[p].version
    BY <2>3 DEF Provider
  <2>5. provider' = [provider EXCEPT ![p] = row]
    BY Zenon, <2>1, <2>2
  <2> QED
    BY <2>4, <2>5, <1>one
<1>3. ASSUME NEW p \in Providers, RemoveProvider(p)
      PROVE  provider' \in [Providers -> Provider] /\ \A q \in Providers : ProviderMove(q)
  <2> DEFINE row == [status |-> "absent", version |-> provider[p].version, credential |-> FALSE]
  <2>1. row \in Provider /\ row.version = provider[p].version /\ row.status = "absent"
    BY <1>p DEF Provider
  <2>2. provider' = [provider EXCEPT ![p] = row]
    BY <1>3 DEF RemoveProvider
  <2> QED
    BY <2>1, <2>2, <1>one
<1>4. ASSUME \/ \E s \in Scopes : CreateScope(s) \/ DeleteScope(s)
             \/ \E k \in Skills : SaveSkill(k) \/ DeleteSkill(k)
             \/ \E r \in Resources : SaveResource(r) \/ DeleteResource(r)
             \/ \E f \in Forms : SaveAssignment(f) \/ CloseForm(f) \/ \E e \in Emails : OpenForm(f, e)
             \/ \E e \in Emails : Verify(e)
             \/ \E p \in Providers, g \in Groups : SaveGroup(p, g) \/ DeleteGroup(p, g)
      PROVE  UNCHANGED provider
  BY <1>4 DEF CreateScope, DeleteScope, SaveSkill, DeleteSkill, SaveResource, DeleteResource,
     SaveAssignment, CloseForm, OpenForm, Verify, SaveGroup, DeleteGroup
<1> QED
  BY <1>1, <1>2, <1>3, <1>4, <1>same DEF Administration

\* What is known of the running requests still fits when directories and providers change:
\* a configuration that was asked about and is current is the one that was asked.
LEMMA ObservedFits ==
  ASSUME PolicyInv, UNCHANGED req, verified' \subseteq Emails,
         provider' \in [Providers -> Provider], \A p \in Providers : ProviderMove(p),
         directory' \in [Emails -> SUBSET Pairs],
         Observe(directory', provider')
  PROVE  PolicyInv'
<1> SUFFICES ASSUME NEW q \in Requests, Running(q)
             PROVE  AnswersFit(q)'
  BY DEF PolicyInv, PolicyTypes, Running, Observe
<1> DEFINE same(pg) == provider'[pg[1]] = provider[pg[1]]
           true == directory'[req[q].email]
<1>1. req[q] \in Request /\ AnswersFit(q) /\ req'[q] = req[q]
  BY DEF PolicyInv, PolicyTypes
<1>2. /\ touched'[q] = {pg \in touched[q] : same(pg)} \cup true
      /\ stayed'[q] = {pg \in true : same(pg) => pg \in stayed[q]}
  BY DEF Observe, Running
<1> HIDE DEF true
<1>3. \A pv \in req[q].todo \cup req[q].resolved :
        pv[1] \in Providers /\ pv[2] \in Nat /\ pv[2] <= provider[pv[1]].version
  BY <1>1 DEF AnswersFit, Request, Versioned
<1>4. \A p \in Providers :
        /\ provider[p].version \in Nat /\ provider'[p].version \in Nat
        /\ provider'[p].version >= provider[p].version
  BY DEF PolicyInv, PolicyTypes, Provider, ProviderMove
<1>5. \A pv \in req[q].todo \cup req[q].resolved : pv[2] <= provider'[pv[1]].version
  BY <1>3, <1>4
<1>6. ASSUME NEW pv \in req[q].resolved, Current(pv)', NEW g \in Groups
      PROVE  /\ <<pv, g>> \in req[q].member => <<pv[1], g>> \in touched'[q]
             /\ <<pv[1], g>> \in stayed'[q] => <<pv, g>> \in req[q].member
  <2>1. /\ pv[1] \in Providers /\ pv[2] \in Nat /\ pv[2] <= provider[pv[1]].version
        /\ provider[pv[1]].version \in Nat
    BY <1>3, <1>4
  <2>2. provider'[pv[1]].status = "enabled" /\ provider'[pv[1]].version = pv[2]
    BY <1>6 DEF Current
  <2>3. provider'[pv[1]] = provider[pv[1]]
    BY <2>1, <2>2 DEF ProviderMove
  <2>4. Current(pv)
    BY <2>2, <2>3 DEF Current
  <2>5. /\ <<pv, g>> \in req[q].member => <<pv[1], g>> \in touched[q]
        /\ <<pv[1], g>> \in stayed[q] => <<pv, g>> \in req[q].member
    BY <1>1, <2>4 DEF AnswersFit
  <2>6. same(<<pv[1], g>>)
    BY <2>3
  <2> QED
    BY <1>2, <2>5, <2>6
<1>7. /\ true \subseteq touched'[q] /\ stayed'[q] \subseteq true
  BY <1>2
<1>8. \A m \in req[q].member : m[1] \in req[q].resolved
  BY <1>1 DEF AnswersFit
<1> QED
  BY <1>1, <1>5, <1>6, <1>7, <1>8 DEF AnswersFit, true

\* A step of one request leaves what is known of the others.
LEMMA OneRequest ==
  ASSUME PolicyInv, NEW q \in Requests, NEW x, req' = [req EXCEPT ![q] = x],
         UNCHANGED <<directory, provider, verified>>,
         DOMAIN touched' = Requests, DOMAIN stayed' = Requests,
         \A o \in Requests \ {q} : touched'[o] = touched[o] /\ stayed'[o] = stayed[o],
         Running(q)' => x \in Request /\ AnswersFit(q)'
  PROVE  PolicyInv'
<1>1. DOMAIN req' = Requests /\ req'[q] = x /\ \A o \in Requests \ {q} : req'[o] = req[o]
  BY DEF PolicyInv, PolicyTypes
<1>2. ASSUME NEW o \in Requests \ {q}, Running(o)'
      PROVE  req'[o] \in Request /\ AnswersFit(o)'
  <2>1. Running(o) /\ req[o] \in Request /\ AnswersFit(o)
    BY <1>1, <1>2 DEF PolicyInv, PolicyTypes, Running
  <2> QED
    BY <1>1, <2>1 DEF AnswersFit, Current
<1> QED
  BY <1>1, <1>2 DEF PolicyInv, PolicyTypes

\* A request begins with what it will ask, as the providers are.
LEMMA BeginFits ==
  ASSUME PolicyInv, NEW q \in Requests, Begin(q)
  PROVE  PolicyInv'
<1>1. PICK e \in verified, kind \in Kinds, r \in Resources \cup {None} :
        /\ req' = [req EXCEPT ![q] = [Idle EXCEPT !.pc = "resolve", !.kind = kind, !.email = e,
                     !.resource = r, !.todo = {<<p, provider[p].version>> : p \in Asked}]]
        /\ touched' = [touched EXCEPT ![q] = directory[e]]
        /\ stayed' = [stayed EXCEPT ![q] = directory[e]]
  BY DEF Begin
<1> DEFINE todo == {<<p, provider[p].version>> : p \in Asked}
           x == [Idle EXCEPT !.pc = "resolve", !.kind = kind, !.email = e, !.resource = r,
                             !.todo = todo]
<1>2. todo \subseteq Versioned /\ \A pv \in todo : pv[2] = provider[pv[1]].version /\ pv[2] \in Nat
  <2>1. \A p \in Asked : p \in Providers /\ provider[p].version \in Nat
    BY DEF Asked, PolicyInv, PolicyTypes, Provider
  <2> QED
    BY <2>1 DEF Versioned
<1>3. e \in Emails
  BY DEF PolicyInv, PolicyTypes
<1> HIDE DEF todo
<1>4. /\ x \in Request /\ x.email = e /\ x.todo = todo /\ x.resolved = {} /\ x.member = {}
  BY <1>2, <1>3 DEF Idle, Request
<1>5. req' = [req EXCEPT ![q] = x]
  BY <1>1 DEF todo
<1> HIDE DEF x
<1>6. req'[q] = x /\ touched'[q] = directory[e] /\ stayed'[q] = directory[e]
  BY <1>1, <1>5 DEF PolicyInv, PolicyTypes
<1>7. UNCHANGED <<directory, provider, verified>>
  BY DEF Begin, accessVars
<1>8. \A pv \in todo : pv[2] <= provider[pv[1]].version
  BY <1>2
<1>9. AnswersFit(q)'
  BY <1>3, <1>4, <1>6, <1>7, <1>8 DEF AnswersFit
<1>10. /\ DOMAIN touched' = Requests /\ DOMAIN stayed' = Requests
       /\ \A o \in Requests \ {q} : touched'[o] = touched[o] /\ stayed'[o] = stayed[o]
  BY <1>1 DEF PolicyInv, PolicyTypes
<1> QED
  BY <1>4, <1>5, <1>7, <1>9, <1>10, OneRequest

\* A provider that answers under its present configuration names exactly the groups the
\* user is in now; whatever another one names does not count.
LEMMA ResolveFits ==
  ASSUME PolicyInv, NEW q \in Requests, Resolve(q)
  PROVE  PolicyInv'
<1>1. PICK pv \in req[q].todo :
        LET known == {g \in Groups : <<pv[1], g>> \in directory[req[q].email]}
            next == [req[q] EXCEPT !.todo = @ \ {pv}]
        IN \/ req' = [req EXCEPT ![q] = next]
           \/ \E groups \in IF Current(pv) THEN {known} ELSE SUBSET Groups :
                req' = [req EXCEPT ![q] = [next EXCEPT !.resolved = @ \cup {pv},
                                             !.member = @ \cup ({pv} \X groups)]]
  BY DEF Resolve
<1>2. /\ req[q] \in Request /\ AnswersFit(q) /\ Running(q)
      /\ UNCHANGED <<directory, provider, verified, touched, stayed>>
  BY DEF Resolve, Running, PolicyInv, PolicyTypes, accessVars
<1>3. /\ pv \in Versioned /\ pv[1] \in Providers
      /\ req[q].resolved \subseteq Versioned /\ req[q].member \subseteq Versioned \X Groups
  BY <1>2 DEF Request, Versioned
<1>same. /\ DOMAIN touched' = Requests /\ DOMAIN stayed' = Requests
         /\ \A o \in Requests \ {q} : touched'[o] = touched[o] /\ stayed'[o] = stayed[o]
  BY <1>2 DEF PolicyInv, PolicyTypes
<1>4. ASSUME req' = [req EXCEPT ![q] = [req[q] EXCEPT !.todo = @ \ {pv}]]
      PROVE  PolicyInv'
  <2> DEFINE x == [req[q] EXCEPT !.todo = @ \ {pv}]
  <2>1. /\ x \in Request /\ x.email = req[q].email /\ x.todo = req[q].todo \ {pv}
        /\ x.resolved = req[q].resolved /\ x.member = req[q].member
    BY <1>2 DEF Request
  <2>2. req'[q] = x
    BY <1>4 DEF PolicyInv, PolicyTypes
  <2> HIDE DEF x
  <2>3. AnswersFit(q)'
    BY <1>2, <2>1, <2>2 DEF AnswersFit, Current
  <2>4. req' = [req EXCEPT ![q] = x]
    BY <1>4 DEF x
  <2> QED
    BY <1>2, <1>same, <2>1, <2>3, <2>4, OneRequest
<1>5. ASSUME NEW groups \in SUBSET Groups,
             Current(pv) => groups = {g \in Groups : <<pv[1], g>> \in directory[req[q].email]},
             req' = [req EXCEPT ![q] = [[req[q] EXCEPT !.todo = @ \ {pv}]
                       EXCEPT !.resolved = @ \cup {pv}, !.member = @ \cup ({pv} \X groups)]]
      PROVE  PolicyInv'
  <2> DEFINE x == [[req[q] EXCEPT !.todo = req[q].todo \ {pv}]
                     EXCEPT !.resolved = req[q].resolved \cup {pv},
                            !.member = req[q].member \cup ({pv} \X groups)]
  <2>1. /\ req[q].resolved \cup {pv} \in SUBSET Versioned
        /\ req[q].member \cup ({pv} \X groups) \in SUBSET (Versioned \X Groups)
        /\ req[q].todo \ {pv} \in SUBSET Versioned
    BY <1>2, <1>3 DEF Request
  <2>2. /\ x \in Request /\ x.email = req[q].email /\ x.todo = req[q].todo \ {pv}
        /\ x.resolved = req[q].resolved \cup {pv}
        /\ x.member = req[q].member \cup ({pv} \X groups)
    BY <1>2, <2>1 DEF Request
  <2>3. req' = [req EXCEPT ![q] = x]
    BY <1>2, <1>5 DEF Request
  <2>4. req'[q] = x
    BY <2>3 DEF PolicyInv, PolicyTypes
  <2> HIDE DEF x
  <2>5. \A v \in x.todo \cup x.resolved : v[2] <= provider[v[1]].version
    BY <1>2, <2>2 DEF AnswersFit
  <2>6. \A m \in x.member : m[1] \in x.resolved
    BY <1>2, <2>2 DEF AnswersFit
  <2>7. ASSUME NEW v \in x.resolved, Current(v), NEW g \in Groups
        PROVE  /\ <<v, g>> \in x.member => <<v[1], g>> \in touched[q]
               /\ <<v[1], g>> \in stayed[q] => <<v, g>> \in x.member
    <3>1. <<v, g>> \in x.member <=> <<v, g>> \in req[q].member \/ (v = pv /\ g \in groups)
      BY <2>2
    <3>2. CASE v \in req[q].resolved
      <4>1. CASE v = pv /\ g \in groups
        BY <1>2, <1>5, <2>7, <3>1, <3>2, <4>1 DEF AnswersFit
      <4>2. CASE ~(v = pv /\ g \in groups)
        BY <1>2, <2>7, <3>1, <3>2, <4>2 DEF AnswersFit
      <4> QED
        BY <4>1, <4>2
    <3>3. CASE v \notin req[q].resolved
      <4>1. v = pv /\ <<v, g>> \notin req[q].member
        BY <1>2, <2>2, <3>3 DEF AnswersFit
      <4>2. g \in groups <=> <<v[1], g>> \in directory[req[q].email]
        BY <1>5, <2>7, <4>1
      <4> QED
        BY <1>2, <3>1, <4>1, <4>2 DEF AnswersFit
    <3> QED
      BY <3>2, <3>3
  <2>8. AnswersFit(q)'
    BY <1>2, <2>2, <2>4, <2>5, <2>6, <2>7 DEF AnswersFit, Current
  <2> QED
    BY <1>2, <1>same, <2>2, <2>3, <2>8, OneRequest
<1> QED
  BY <1>1, <1>4, <1>5

\* Every step keeps what is known of the running requests.
LEMMA PolicyStepFits ==
  ASSUME PolicyInv, [Next]_vars
  PROVE  PolicyInv'
<1>same. CASE UNCHANGED <<policyVars, provider, verified>>
  <2>1. UNCHANGED <<directory, req, touched, stayed, provider, verified>>
    BY <1>same DEF policyVars
  <2>2. PolicyTypes'
    BY <2>1 DEF PolicyInv, PolicyTypes, Running
  <2> QED
    BY <2>1, <2>2 DEF PolicyInv, Running, AnswersFit, Current
<1>1. CASE Administer
  <2>1. UNCHANGED req /\ Observe(directory', provider') /\ Administration
    BY <1>1 DEF Administer
  <2>2. UNCHANGED verified \/ \E e \in Emails : verified' = verified \cup {e}
    BY <2>1 DEF Administration, CreateScope, DeleteScope, SaveSkill, DeleteSkill, SaveResource,
       DeleteResource, SaveAssignment, CloseForm, OpenForm, Verify, CreateProvider, SaveProvider,
       RemoveProvider, SaveGroup, DeleteGroup
  <2>3. verified' \subseteq Emails
    BY <2>2 DEF PolicyInv, PolicyTypes
  <2>4. provider' \in [Providers -> Provider] /\ \A p \in Providers : ProviderMove(p)
    BY <2>1, ProvidersMove DEF PolicyInv, PolicyTypes
  <2>5. directory' \in [Emails -> SUBSET Pairs]
    <3>1. CASE UNCHANGED directory
      BY <3>1 DEF PolicyInv, PolicyTypes
    <3>2. CASE ~UNCHANGED directory
      <4>1. PICK p \in Providers : \E S \in SUBSET ({p} \X Groups), e \in Emails :
              directory' = [directory EXCEPT ![e] = {pg \in directory[e] : pg[1] # p} \cup S]
        BY <1>1, <3>2 DEF Administer
      <4> PICK S \in SUBSET ({p} \X Groups), e \in Emails :
            directory' = [directory EXCEPT ![e] = {pg \in directory[e] : pg[1] # p} \cup S]
        BY <4>1
      <4>2. {pg \in directory[e] : pg[1] # p} \cup S \in SUBSET Pairs
        BY DEF PolicyInv, PolicyTypes, Pairs
      <4> QED
        BY <4>2 DEF PolicyInv, PolicyTypes
    <3> QED
      BY <3>1, <3>2
  <2> QED
    BY <2>1, <2>3, <2>4, <2>5, ObservedFits DEF PolicyInv, PolicyTypes
<1>2. CASE Move
  <2>1. UNCHANGED <<req, provider, verified>>
    BY <1>2 DEF Move, accessVars
  <2>2. Observe(directory', provider')
    BY <1>2, <2>1 DEF Move
  <2>3. \A p \in Providers : ProviderMove(p)
    BY <2>1 DEF ProviderMove
  <2>4. directory' \in [Emails -> SUBSET Pairs]
    <3>1. PICK e \in Emails, pg \in Pairs :
            directory' = [directory EXCEPT ![e] = IF pg \in directory[e] THEN directory[e] \ {pg}
                                                  ELSE directory[e] \cup {pg}]
      BY <1>2 DEF Move
    <3>2. directory[e] \in SUBSET Pairs
      BY DEF PolicyInv, PolicyTypes
    <3>3. (IF pg \in directory[e] THEN directory[e] \ {pg} ELSE directory[e] \cup {pg})
            \in SUBSET Pairs
      BY <3>2
    <3> QED
      BY <3>1, <3>3 DEF PolicyInv, PolicyTypes
  <2> QED
    BY <2>1, <2>2, <2>3, <2>4, ObservedFits DEF PolicyInv, PolicyTypes
<1>3. ASSUME NEW q \in Requests, Resolved(q) \/ Decide(q)
      PROVE  PolicyInv'
  <2>1. UNCHANGED <<directory, provider, verified, touched, stayed>>
    BY <1>3 DEF Resolved, Decide, accessVars
  <2>2. CASE Resolved(q)
    <3> DEFINE x == [req[q] EXCEPT !.pc = "decide"]
    <3>1. Running(q) /\ req[q] \in Request /\ AnswersFit(q)
      BY <2>2 DEF Resolved, Running, PolicyInv, PolicyTypes
    <3>2. /\ x \in Request /\ x.email = req[q].email /\ x.todo = req[q].todo
          /\ x.resolved = req[q].resolved /\ x.member = req[q].member
      BY <3>1 DEF Request
    <3>3. req' = [req EXCEPT ![q] = x]
      BY <2>2 DEF Resolved, PolicyInv, PolicyTypes
    <3>4. req'[q] = x
      BY <3>3 DEF PolicyInv, PolicyTypes
    <3> HIDE DEF x
    <3>5. AnswersFit(q)'
      BY <2>1, <3>1, <3>2, <3>4 DEF AnswersFit, Current
    <3> QED
      BY <2>1, <3>2, <3>3, <3>5, OneRequest DEF PolicyInv, PolicyTypes
  <2>3. CASE Decide(q)
    <3>1. PICK x : req' = [req EXCEPT ![q] = x] /\ x.pc \in {"answered", "refused"}
      <4>1. req[q] \in Request
        BY <2>3 DEF Decide, Running, PolicyInv, PolicyTypes
      <4>2. ASSUME NEW granted, NEW missing, Answer(q, granted, missing)
            PROVE  \E x : req' = [req EXCEPT ![q] = x] /\ x.pc \in {"answered", "refused"}
        <5> DEFINE x == [req[q] EXCEPT !.pc = "answered", !.granted = granted, !.missing = missing]
        <5>1. x.pc = "answered" /\ req' = [req EXCEPT ![q] = x]
          BY <4>1, <4>2 DEF Answer, Request
        <5> QED
          BY <5>1
      <4>3. ASSUME req' = [req EXCEPT ![q].pc = "refused"]
            PROVE  \E x : req' = [req EXCEPT ![q] = x] /\ x.pc \in {"answered", "refused"}
        <5> DEFINE x == [req[q] EXCEPT !.pc = "refused"]
        <5>1. x.pc = "refused" /\ req' = [req EXCEPT ![q] = x]
          BY <4>1, <4>3 DEF Request, PolicyInv, PolicyTypes
        <5> QED
          BY <5>1
      <4>4. \/ req' = [req EXCEPT ![q].pc = "refused"]
            \/ \E granted, missing : Answer(q, granted, missing)
        BY <2>3 DEF Decide, DecideEffective, DecideExchange, DecideCheck
      <4> QED
        BY <4>2, <4>3, <4>4
    <3>2. ~Running(q)'
      BY <3>1 DEF Running, PolicyInv, PolicyTypes
    <3> QED
      BY <2>1, <3>1, <3>2, OneRequest DEF PolicyInv, PolicyTypes
  <2> QED
    BY <1>3, <2>2, <2>3
<1>4. CASE PolicyStep
  BY <1>4, <1>2, <1>3, BeginFits, ResolveFits DEF PolicyStep
<1>5. CASE PlanStep /\ UNCHANGED policyVars
  <2>1. UNCHANGED <<provider, verified>>
    BY <1>5 DEF PlanStep, Plan, RequestApply, Apply, Abandon, Import, Unmanage, MoveState,
       Rebind, accessVars
  <2> QED
    BY <1>5, <2>1, <1>same
<1>6. CASE CatalogStep /\ UNCHANGED policyVars
  <2>1. UNCHANGED <<provider, verified>>
    BY <1>6 DEF CatalogStep, SwitchDiscovery, accessVars
  <2> QED
    BY <1>6, <2>1, <1>same
<1>7. CASE UNCHANGED vars
  BY <1>7, <1>same DEF vars, accessVars
<1> QED
  BY <1>1, <1>4, <1>5, <1>6, <1>7 DEF Next

\* What the policy keeps of grants and provider rows holds in every behaviour.
LEMMA PolicyInvariant == Spec => []PolicyInv
<1>1. Init => PolicyInv
  <2>1. [status |-> "absent", version |-> 0, credential |-> FALSE] \in Provider
    BY DEF Provider
  <2>2. Init => PolicyTypes
    BY <2>1 DEF Init, AccessInit, PolicyInit, PolicyTypes, Running, Idle
  <2>3. Init => \A q \in Requests : ~Running(q)
    BY DEF Init, PolicyInit, Running, Idle
  <2> QED
    BY <2>2, <2>3 DEF PolicyInv
<1> QED
  BY <1>1, PolicyStepFits, PTL DEF Spec

\* What a deciding request answers, by its kind.
LEMMA Answers ==
  ASSUME PolicyInv, [Next]_vars, NEW q \in Requests, Decides(q)
  PROVE  /\ Running(q) /\ req[q] \in Request /\ AnswersFit(q)
         /\ req'[q].granted \subseteq Effective(q)
         /\ req'[q].missing \cap Effective(q) = {}
         /\ req'[q].missing # {} => ~Uncertain(q, req'[q].missing)
<1>1. Running(q) /\ req[q] \in Request /\ AnswersFit(q)
  BY DEF Decides, Running, PolicyInv, PolicyTypes
<1>2. req'[q] # req[q] /\ req'[q].pc = "answered" /\ req[q].pc = "decide"
  BY DEF Decides
<1>3. PICK k \in Requests : Begin(k) \/ Resolve(k) \/ Resolved(k) \/ Decide(k)
  BY <1>2 DEF Next, Administer, PolicyStep, Move, policyVars, vars
<1>4. k = q
  BY <1>2, <1>3 DEF Begin, Resolve, Resolved, Decide, DecideEffective, DecideExchange, DecideCheck,
     Answer, PolicyInv, PolicyTypes
<1>5. Decide(q)
  BY <1>2, <1>3, <1>4 DEF Begin, Resolve, Resolved
<1>answer. ASSUME NEW granted, NEW missing, Answer(q, granted, missing)
           PROVE  req'[q].granted = granted /\ req'[q].missing = missing
  BY <1>1, <1>answer DEF Answer, Request, PolicyInv, PolicyTypes
<1>6. CASE DecideEffective(q)
  BY <1>6, <1>1, <1>answer DEF DecideEffective
<1>7. CASE DecideExchange(q)
  <2>1. PICK r : Answer(q, IF r.status = "enabled" THEN r.supports \cap Effective(q) ELSE {}, {})
    BY <1>7 DEF DecideExchange
  <2>2. req'[q].granted = (IF r.status = "enabled" THEN r.supports \cap Effective(q) ELSE {})
        /\ req'[q].missing = {}
    BY <2>1, <1>answer
  <2> QED
    BY <2>2, <1>1
<1>8. CASE DecideCheck(q)
  <2>1. PICK asked \in SUBSET Queryable :
          LET missing == asked \ Effective(q)
          IN /\ missing # {} => ~Uncertain(q, missing)
             /\ Answer(q, asked \ missing, missing)
    <3>1. req' # [req EXCEPT ![q].pc = "refused"]
      BY <1>1, <1>2 DEF Request, PolicyInv, PolicyTypes
    <3> QED
      BY <1>8, <3>1 DEF DecideCheck
  <2> DEFINE missing == asked \ Effective(q)
  <2>2. req'[q].granted = asked \ missing /\ req'[q].missing = missing
    BY <2>1, <1>answer
  <2>3. missing # {} => ~Uncertain(q, missing)
    BY <2>1
  <2>4. asked \ missing \subseteq Effective(q) /\ missing \cap Effective(q) = {}
    OBVIOUS
  <2> HIDE DEF missing
  <2> QED
    BY <1>1, <2>2, <2>3, <2>4
<1> QED
  BY <1>5, <1>6, <1>7, <1>8 DEF Decide

\* Every scope that an answer grants is the address's own, or is granted to a group the
\* user was in during the request, by a provider that is enabled and configured as asked.
LEMMA GrantedJustified ==
  ASSUME PolicyInv, [Next]_vars, NEW q \in Requests, Decides(q), NEW s \in req'[q].granted,
         s \notin direct[req[q].email].grants
  PROVE  \E pg \in touched[q] : provider[pg[1]].status = "enabled" /\ s \in group[pg].grants
<1>1. s \in Effective(q) /\ req[q] \in Request /\ AnswersFit(q)
  BY Answers
<1>2. PICK m \in req[q].member : Current(m[1]) /\ s \in group[<<m[1][1], m[2]>>].grants
  BY <1>1 DEF Effective
<1>3. m \in Versioned \X Groups
  BY <1>1 DEF Request
<1>4. <<m[1][1], m[2]>> \in touched[q]
  BY <1>1, <1>2, <1>3 DEF AnswersFit
<1> QED
  BY <1>2, <1>4 DEF Current

\* A scope that is answered to be missing is no group's that stayed the user's: its
\* provider was asked as it is configured, and named that group.
LEMMA MissingCertain ==
  ASSUME PolicyInv, [Next]_vars, NEW q \in Requests, Decides(q), NEW s \in req'[q].missing
  PROVE  /\ s \notin direct[req[q].email].grants
         /\ \A pg \in stayed[q] : provider[pg[1]].status = "enabled" => s \notin group[pg].grants
<1>1. /\ s \notin Effective(q) /\ ~Uncertain(q, req'[q].missing)
      /\ req[q] \in Request /\ AnswersFit(q)
  BY Answers
<1>2. s \notin direct[req[q].email].grants
  BY <1>1 DEF Effective
<1>3. ASSUME NEW pg \in stayed[q], provider[pg[1]].status = "enabled", s \in group[pg].grants
      PROVE  FALSE
  <2>1. PICK p \in Providers, g \in Groups : pg = <<p, g>>
    BY <1>1 DEF AnswersFit, PolicyInv, PolicyTypes, Request, Pairs
  <2> DEFINE pv == <<p, provider[p].version>>
  <2>2. pv \in req[q].resolved
    BY <1>1, <1>3, <2>1 DEF Uncertain
  <2>3. Current(pv) /\ pv[1] = p
    BY <1>3, <2>1 DEF Current
  <2> HIDE DEF pv
  <2>4. <<pv, g>> \in req[q].member
    BY <1>1, <1>3, <2>1, <2>2, <2>3 DEF AnswersFit
  <2> DEFINE m == <<pv, g>>
  <2>5. m \in {n \in req[q].member : Current(n[1])} /\ <<m[1][1], m[2]>> = pg
    BY <2>1, <2>3, <2>4
  <2> HIDE DEF m
  <2>6. s \in group[<<m[1][1], m[2]>>].grants
    BY <1>3, <2>5
  <2>7. s \in Effective(q)
    BY <2>5, <2>6 DEF Effective
  <2> QED
    BY <1>1, <2>7
<1> QED
  BY <1>2, <1>3

\* Nobody is granted a scope on the word of a configuration that is no longer the current one.
THEOREM GrantsAreJustified == Spec => GrantedIsJustified
<1>1. PolicyInv /\ [Next]_vars
        => [\A q \in Requests : Decides(q) =>
              \A s \in req'[q].granted :
                \/ s \in direct[req[q].email].grants
                \/ \E pg \in touched[q] : /\ provider[pg[1]].status = "enabled"
                                          /\ s \in group[pg].grants]_<<accessVars, policyVars>>
  BY GrantedJustified
<1> QED
  BY <1>1, PolicyInvariant, PTL DEF Spec, GrantedIsJustified

\* A machine is told that a subject lacks a scope only if that is certain.
THEOREM MissingScopesAreCertain == Spec => MissingIsCertain
<1>1. PolicyInv /\ [Next]_vars
        => [\A q \in Requests : Decides(q) =>
              \A s \in req'[q].missing :
                /\ s \notin direct[req[q].email].grants
                /\ \A pg \in stayed[q] :
                     provider[pg[1]].status = "enabled" => s \notin group[pg].grants
           ]_<<accessVars, policyVars>>
  BY MissingCertain
<1> QED
  BY <1>1, PolicyInvariant, PTL DEF Spec, MissingIsCertain
--------------------------------------------------------------------------------
(* What the tables are to a plan *)

Table == [scopes : SUBSET Scopes, verified : SUBSET Emails, direct : [Emails -> Assignment],
          group : [Providers \X Groups -> GroupRow], resource : [Resources -> Resource],
          skill : [Skills -> Skill], binding : [Addresses -> Binding], revision : Nat,
          failed : BOOLEAN]

\* An assignment with grants has a version, and what an address is bound to is of its kind.
RowsInOrder(t) ==
  /\ \A e \in Emails : t.direct[e].grants # {} => t.direct[e].version > 0
  /\ \A a \in Addresses : t.binding[a] # NoBinding =>
       t.binding[a].identity \in (IF a \in ScopeAddresses THEN Scopes ELSE Emails)

\* What is bound exists, and is bound once.
BoundOnce(t) ==
  /\ \A a \in Addresses : t.binding[a].live => Exists(t, a, t.binding[a].identity)
  /\ \A a, b \in Addresses :
       /\ t.binding[a].live /\ t.binding[b].live
       /\ t.binding[a].identity = t.binding[b].identity
       /\ a \in ScopeAddresses <=> b \in ScopeAddresses
       => a = b

InOrder(t) == t \in Table /\ ~t.failed /\ RowsInOrder(t) /\ BoundOnce(t)

\* A plan that is confirmed is not blocked; one that is applied has its snapshot.
RunPhase == {"idle", "planned", "waiting"}
RunInOrder(u) ==
  /\ run[u].pc \in RunPhase
  /\ run[u].pc # "idle" => run[u].manifest \in Manifests /\ ~run[u].plan.blocked
  /\ run[u].pc = "waiting" => InOrder(run[u].snapshot) /\ run[u].snapshot.verified \subseteq verified

RunShape ==
  run = [u \in Runners |-> [pc |-> run[u].pc, manifest |-> run[u].manifest,
                            plan |-> run[u].plan, snapshot |-> run[u].snapshot]]

\* Assignments with grants have a version; and what is said of bindings holds now.
Numbered == \A e \in Emails : direct[e].grants # {} => direct[e].version > 0
LiveExists(a, id) == IF a \in ScopeAddresses THEN id \in scopes ELSE direct[id].version > 0
Bound ==
  /\ binding \in [Addresses -> Binding] /\ revision \in Nat
  /\ \A a \in Addresses : binding[a] # NoBinding =>
       binding[a].identity \in (IF a \in ScopeAddresses THEN Scopes ELSE Emails)
  /\ \A a \in Addresses : binding[a].live => LiveExists(a, binding[a].identity)
  /\ \A a, b \in Addresses :
       /\ binding[a].live /\ binding[b].live
       /\ binding[a].identity = binding[b].identity
       /\ a \in ScopeAddresses <=> b \in ScopeAddresses
       => a = b

AdministrationInv ==
  /\ AccessTypeOK /\ IsFiniteSet(verified)
  /\ Numbered /\ Bound
  /\ RunShape
  /\ \A u \in Runners : RunInOrder(u)
  /\ AdministratorRemains

\* What one mutation of the transaction leaves alone.
Mutated(s, r) ==
  /\ r \in Table /\ RowsInOrder(r)
  /\ r.verified = s.verified /\ r.group = s.group /\ r.resource = s.resource
  /\ r.skill = s.skill /\ r.revision = s.revision
  /\ s.failed => r.failed
Sound(s) == s \in Table /\ RowsInOrder(s)

\* The fields of the tables, and those of tables that failed.
LEMMA TableFields ==
  ASSUME NEW s \in Table
  PROVE  /\ s.scopes \subseteq Scopes /\ s.verified \subseteq Emails
         /\ s.direct \in [Emails -> Assignment] /\ s.binding \in [Addresses -> Binding]
         /\ s.failed \in BOOLEAN /\ Failed(s) \in Table
         /\ Failed(s).scopes = s.scopes /\ Failed(s).verified = s.verified
         /\ Failed(s).direct = s.direct /\ Failed(s).group = s.group
         /\ Failed(s).resource = s.resource /\ Failed(s).skill = s.skill
         /\ Failed(s).binding = s.binding /\ Failed(s).revision = s.revision
BY DEF Table, Failed

\* Tables that failed have failed.
LEMMA FailedFails ==
  ASSUME NEW s \in Table
  PROVE  Failed(s).failed
BY Zenon DEF Table, Failed

\* A mutation that is refused only marks the transaction as failed.
LEMMA FailedFacts ==
  ASSUME NEW s, Sound(s)
  PROVE  /\ Mutated(s, Failed(s)) /\ Failed(s).failed
         /\ Failed(s).direct = s.direct /\ Failed(s).binding = s.binding /\ Failed(s).scopes = s.scopes
BY TableFields, FailedFails DEF Sound, Mutated, RowsInOrder

\* A row of the tables is rewritten.
LEMMA RowWritten ==
  ASSUME NEW s, Sound(s), NEW d \in [Emails -> Assignment],
         \A x \in Emails : d[x].grants # {} => d[x].version > 0
  PROVE  /\ Mutated(s, [s EXCEPT !.direct = d])
         /\ [s EXCEPT !.direct = d].direct = d /\ [s EXCEPT !.direct = d].binding = s.binding
         /\ [s EXCEPT !.direct = d].scopes = s.scopes /\ [s EXCEPT !.direct = d].failed = s.failed
<1> DEFINE r == [s EXCEPT !.direct = d]
<1>1. /\ r \in Table /\ r.direct = d /\ r.binding = s.binding /\ r.scopes = s.scopes
      /\ r.verified = s.verified /\ r.group = s.group /\ r.resource = s.resource
      /\ r.skill = s.skill /\ r.revision = s.revision /\ r.failed = s.failed
  BY DEF Sound, Table
<1> HIDE DEF r
<1>2. Mutated(s, r)
  BY <1>1 DEF Sound, Mutated, RowsInOrder
<1> QED
  BY <1>1, <1>2 DEF r

\* A binding of the tables is rewritten.
LEMMA BindingWritten ==
  ASSUME NEW s, Sound(s), NEW b \in [Addresses -> Binding],
         \A a \in Addresses : b[a] # NoBinding =>
           b[a].identity \in (IF a \in ScopeAddresses THEN Scopes ELSE Emails)
  PROVE  /\ Mutated(s, [s EXCEPT !.binding = b])
         /\ [s EXCEPT !.binding = b].binding = b /\ [s EXCEPT !.binding = b].direct = s.direct
         /\ [s EXCEPT !.binding = b].scopes = s.scopes /\ [s EXCEPT !.binding = b].failed = s.failed
<1> DEFINE r == [s EXCEPT !.binding = b]
<1>1. /\ r \in Table /\ r.binding = b /\ r.direct = s.direct /\ r.scopes = s.scopes
      /\ r.verified = s.verified /\ r.group = s.group /\ r.resource = s.resource
      /\ r.skill = s.skill /\ r.revision = s.revision /\ r.failed = s.failed
  BY DEF Sound, Table
<1> HIDE DEF r
<1>2. Mutated(s, r)
  BY <1>1 DEF Sound, Mutated, RowsInOrder
<1> QED
  BY <1>1, <1>2 DEF r

\* Assign leaves the other rows alone, and the row with the keys unless it fails.
LEMMA AssignFacts ==
  ASSUME NEW s, Sound(s), NEW e \in Emails, NEW keys \in SUBSET Keys
  PROVE  /\ Mutated(s, Assign(s, e, keys))
         /\ Assign(s, e, keys).binding = s.binding /\ Assign(s, e, keys).scopes = s.scopes
         /\ \A x \in Emails \ {e} : Assign(s, e, keys).direct[x] = s.direct[x]
         /\ ~Assign(s, e, keys).failed => Assign(s, e, keys).direct[e].grants = keys
<1> DEFINE row == [version |-> IF keys = {} THEN 0 ELSE s.direct[e].version + 1, grants |-> keys]
           d == [s.direct EXCEPT ![e] = row]
           bad == \/ ~(keys \subseteq s.scopes \cup {Admin})
                  \/ Removes(s, e, keys) /\ Cardinality(AdministratorsIn(s.verified, s.direct)) <= 1
<1>0. s.direct \in [Emails -> Assignment]
  BY TableFields DEF Sound
<1>1. row \in Assignment /\ row.grants = keys /\ (row.grants # {} => row.version > 0)
  BY <1>0 DEF Assignment
<1>2. CASE s.direct[e].grants = keys
  <2>1. Assign(s, e, keys) = s
    BY <1>2 DEF Assign
  <2> QED
    BY <1>2, <2>1 DEF Sound, Mutated
<1>3. CASE s.direct[e].grants # keys /\ bad
  <2>1. Assign(s, e, keys) = Failed(s)
    BY <1>3 DEF Assign
  <2> QED
    BY <2>1, FailedFacts
<1>4. CASE s.direct[e].grants # keys /\ ~bad
  <2>1. Assign(s, e, keys) = [s EXCEPT !.direct = d]
    <3>1. Assign(s, e, keys) =
            [s EXCEPT !.direct[e] = [version |-> IF keys = {} THEN 0 ELSE @.version + 1,
                                     grants |-> keys]]
      BY <1>4 DEF Assign
    <3> QED
      BY <3>1 DEF Sound, Table
  <2> HIDE DEF row
  <2>2. /\ d \in [Emails -> Assignment] /\ d[e] = row
        /\ \A x \in Emails \ {e} : d[x] = s.direct[x]
    BY <1>0, <1>1
  <2> HIDE DEF d
  <2>3. \A x \in Emails : d[x].grants # {} => d[x].version > 0
    BY <1>1, <2>2 DEF Sound, RowsInOrder
  <2> QED
    BY <1>1, <2>1, <2>2, <2>3, RowWritten
<1> QED
  BY <1>2, <1>3, <1>4

LiveAt(id) == [identity |-> id, live |-> TRUE]

\* A live binding is a binding, and not the one of an unbound address.
LEMMA LiveFacts ==
  ASSUME NEW id \in Scopes \cup Emails
  PROVE  /\ LiveAt(id) \in Binding /\ LiveAt(id).identity = id /\ LiveAt(id).live
         /\ LiveAt(id) # NoBinding
BY NoneIsNoObject DEF LiveAt, Binding, NoBinding

\* The row that Reconciled clears, of an address bound elsewhere.
Cleared(s, a, id) ==
  IF s.binding[a].live /\ s.binding[a] # LiveAt(id) THEN {s.binding[a].identity} ELSE {}

\* Reconciled writes the declared row and the one it clears, binds its address, and leaves
\* the keys that are declared unless it fails.
LEMMA ReconciledFacts ==
  ASSUME NEW s, Sound(s), NEW a \in AssignmentAddresses, NEW id \in Emails, NEW keys \in SUBSET Keys
  PROVE  /\ Mutated(s, Reconciled(s, a, id, keys))
         /\ Reconciled(s, a, id, keys).scopes = s.scopes
         /\ \A x \in Emails \ ({id} \cup Cleared(s, a, id)) :
              Reconciled(s, a, id, keys).direct[x] = s.direct[x]
         /\ \A b \in Addresses \ {a} : Reconciled(s, a, id, keys).binding[b] = s.binding[b]
         /\ Reconciled(s, a, id, keys).binding[a] \in {s.binding[a], LiveAt(id)}
         /\ ~Reconciled(s, a, id, keys).failed =>
              /\ Reconciled(s, a, id, keys).binding[a] = LiveAt(id)
              /\ Reconciled(s, a, id, keys).direct[id].grants = keys
<1> DEFINE bound == s.binding[a]
           kept == bound = LiveAt(id)
           cleared == IF bound.live /\ ~kept THEN Assign(s, bound.identity, {}) ELSE s
           assigned == Assign(cleared, id, keys)
           b == [assigned.binding EXCEPT ![a] = LiveAt(id)]
           r == Reconciled(s, a, id, keys)
<1>a. a \in Addresses /\ a \notin ScopeAddresses
  BY AddressesHaveOneKind DEF Addresses
<1>0. s.binding \in [Addresses -> Binding] /\ bound \in Binding
  BY <1>a, TableFields DEF Sound
<1>r. r = IF ~kept /\ cleared.direct[id].version > 0 THEN Failed(s)
          ELSE [assigned EXCEPT !.binding[a] = LiveAt(id)]
  BY DEF Reconciled, LiveAt
<1>1. /\ Mutated(s, cleared) /\ cleared.scopes = s.scopes /\ cleared.binding = s.binding
      /\ \A x \in Emails \ Cleared(s, a, id) : cleared.direct[x] = s.direct[x]
  <2>1. CASE bound.live /\ ~kept
    <3>1. bound.identity \in Emails /\ {} \in SUBSET Keys
      BY <1>a, <2>1 DEF Sound, RowsInOrder, NoBinding
    <3>2. cleared = Assign(s, bound.identity, {}) /\ Cleared(s, a, id) = {bound.identity}
      BY <2>1 DEF Cleared
    <3> HIDE DEF cleared
    <3> QED
      BY <3>1, <3>2, AssignFacts
  <2>2. CASE ~(bound.live /\ ~kept)
    BY <2>2 DEF Sound, Mutated
  <2> QED
    BY <2>1, <2>2
<1> HIDE DEF cleared
<1>s. Sound(cleared)
  BY <1>1 DEF Mutated, Sound
<1>2. /\ Mutated(cleared, assigned) /\ assigned.scopes = cleared.scopes
      /\ assigned.binding = s.binding
      /\ \A x \in Emails \ {id} : assigned.direct[x] = cleared.direct[x]
      /\ ~assigned.failed => assigned.direct[id].grants = keys
  BY <1>1, <1>s, AssignFacts
<1>3. CASE ~kept /\ cleared.direct[id].version > 0
  <2>1. r = Failed(s)
    BY <1>3, <1>r
  <2>2. /\ Mutated(s, r) /\ r.failed /\ r.direct = s.direct
        /\ r.binding = s.binding /\ r.scopes = s.scopes
    BY <2>1, FailedFacts
  <2> QED
    BY <2>2
<1>4. CASE ~(~kept /\ cleared.direct[id].version > 0)
  <2>1. r = [assigned EXCEPT !.binding = b]
    <3>1. r = [assigned EXCEPT !.binding[a] = LiveAt(id)]
      BY <1>4, <1>r
    <3>2. assigned \in Table
      BY <1>2 DEF Mutated
    <3> QED
      BY <3>1, <3>2 DEF Table
  <2> HIDE DEF assigned
  <2>2. LiveAt(id) \in Binding /\ LiveAt(id).identity = id
    BY LiveFacts
  <2>3. /\ b \in [Addresses -> Binding] /\ b[a] = LiveAt(id)
        /\ \A c \in Addresses \ {a} : b[c] = s.binding[c]
    BY <1>a, <1>0, <1>2, <2>2
  <2> HIDE DEF b
  <2>4. \A c \in Addresses : b[c] # NoBinding =>
          b[c].identity \in (IF c \in ScopeAddresses THEN Scopes ELSE Emails)
    BY <1>a, <2>2, <2>3 DEF Sound, RowsInOrder
  <2>5. Sound(assigned)
    BY <1>2 DEF Mutated, Sound
  <2>6. /\ Mutated(assigned, r) /\ r.binding = b /\ r.direct = assigned.direct
        /\ r.scopes = assigned.scopes /\ r.failed = assigned.failed
    BY <2>1, <2>3, <2>4, <2>5, BindingWritten
  <2>7. Mutated(s, r)
    BY <1>1, <1>2, <2>6 DEF Mutated
  <2> HIDE DEF r
  <2> QED
    BY <1>1, <1>2, <2>3, <2>6, <2>7 DEF r
<1> QED
  BY <1>3, <1>4

\* There are finitely many scope keys.
LEMMA KeysFinite == IsFiniteSet(Keys)
<1>1. Keys = Scopes \cup {Admin}
  BY DEF Keys
<1> QED
  BY <1>1, ScopesFinite, FS_AddElement

\* DropScopes leaves the rows that have none of the scopes.
LEMMA DropScopesFacts ==
  ASSUME NEW s, Sound(s), NEW S \in SUBSET Scopes
  PROVE  /\ Mutated(s, DropScopes(s, S)) /\ DropScopes(s, S).binding = s.binding
         /\ \A e \in Emails : s.direct[e].grants \cap S = {} =>
              DropScopes(s, S).direct[e] = s.direct[e]
         /\ DropScopes(s, S).scopes \subseteq s.scopes
         /\ ~DropScopes(s, S).failed => DropScopes(s, S).scopes = s.scopes \ S
<1> DEFINE bad == \E x \in S : \/ \E y \in Resources : x \in s.resource[y].supports
                               \/ \E k \in Skills : x \in s.skill[k].requires
           row(e) == [version |-> s.direct[e].version + Cardinality(s.direct[e].grants \cap S),
                      grants |-> s.direct[e].grants \ S]
           d == [e \in Emails |-> row(e)]
           left == s.scopes \ S
           r == DropScopes(s, S)
<1>0. s \in Table /\ s.direct \in [Emails -> Assignment] /\ s.scopes \subseteq Scopes
  BY TableFields DEF Sound
<1>1. CASE bad
  <2>1. r = Failed(s)
    BY <1>1 DEF DropScopes
  <2> QED
    BY <2>1, FailedFacts
<1>2. CASE ~bad
  <2>1. r = [s EXCEPT !.scopes = left, !.direct = d]
    BY <1>2, <1>0 DEF DropScopes, Table
  <2>2. ASSUME NEW e \in Emails
        PROVE  /\ row(e) \in Assignment
               /\ row(e).grants # {} => row(e).version > 0
               /\ s.direct[e].grants \cap S = {} => row(e) = s.direct[e]
    <3>1. s.direct[e] \in Assignment /\ s.direct[e].version \in Nat
      BY <1>0 DEF Assignment
    <3>2. Cardinality(s.direct[e].grants \cap S) \in Nat
      <4>1. s.direct[e].grants \cap S \in SUBSET Keys
        BY <1>0 DEF Assignment
      <4> QED
        BY <4>1, KeysFinite, FS_Subset, FS_CardinalityType
    <3>3. /\ s.direct[e].grants \in SUBSET Keys
          /\ s.direct[e].grants # {} => s.direct[e].version > 0
      BY <3>1 DEF Sound, RowsInOrder, Assignment
    <3> DEFINE n == Cardinality(s.direct[e].grants \cap S)
    <3>4. s.direct[e].grants \cap S = {} => n = 0
      BY FS_EmptySet
    <3> HIDE DEF n
    <3>5. n \in Nat
      BY <3>2 DEF n
    <3>6. row(e) = [version |-> s.direct[e].version + n, grants |-> s.direct[e].grants \ S]
      BY DEF n
    <3> HIDE DEF row
    <3>7. row(e) \in Assignment /\ (row(e).grants # {} => row(e).version > 0)
      BY <3>1, <3>3, <3>5, <3>6 DEF Assignment
    <3>8. ASSUME s.direct[e].grants \cap S = {}
          PROVE  row(e) = s.direct[e]
      <4>1. s.direct[e].version + n = s.direct[e].version
        BY <3>1, <3>4, <3>8
      <4>2. s.direct[e].grants \ S = s.direct[e].grants
        BY <3>3, <3>8
      <4>3. s.direct[e] = [version |-> s.direct[e].version, grants |-> s.direct[e].grants]
        BY <3>1 DEF Assignment
      <4> QED
        BY <3>6, <4>1, <4>2, <4>3
    <3> QED
      BY <3>7, <3>8
  <2> HIDE DEF row
  <2>3. /\ d \in [Emails -> Assignment]
        /\ \A e \in Emails : d[e] = row(e)
    BY <2>2
  <2> HIDE DEF d
  <2>4. /\ r \in Table /\ r.direct = d /\ r.binding = s.binding /\ r.scopes = left
        /\ r.verified = s.verified /\ r.group = s.group /\ r.resource = s.resource
        /\ r.skill = s.skill /\ r.revision = s.revision /\ r.failed = s.failed
    BY <1>0, <2>1, <2>3 DEF Table
  <2> HIDE DEF r
  <2>5. RowsInOrder(r)
    BY <2>2, <2>3, <2>4 DEF RowsInOrder, Sound
  <2>6. Mutated(s, r) /\ r.scopes \subseteq s.scopes
    BY <2>4, <2>5 DEF Mutated
  <2>7. \A e \in Emails : s.direct[e].grants \cap S = {} => r.direct[e] = s.direct[e]
    BY <2>2, <2>3, <2>4
  <2> QED
    BY <2>4, <2>6, <2>7 DEF r
<1> QED
  BY <1>1, <1>2
--------------------------------------------------------------------------------
(* The passes of executeDesiredState that go over assignments one by one *)

Assignments(m) == Declared(m, AssignmentAddresses)
StagedOne(m, moved, a, s) ==
  IF m[a].keys \ moved # {} THEN Reconciled(s, a, m[a].identity, m[a].keys \ moved)
  ELSE IF s.binding[a].live THEN [s EXCEPT !.direct[s.binding[a].identity].grants = {}]
  ELSE s
DeletedOne(a, s) == IF s.binding[a].live THEN Assign(s, s.binding[a].identity, {}) ELSE s
DeletedRest(t, gone) ==
  FoldSet(LAMBDA a, s : IF s.binding[a].live THEN Assign(s, s.binding[a].identity, {}) ELSE s,
          t, gone)
ReconnectedOne(m, a, s) == Reconciled(s, a, m[a].identity, m[a].keys)

\* What each step of Staged keeps is so after all of them.
LEMMA StagedInduction ==
  ASSUME NEW m, NEW moved, NEW t, NEW D, D = Assignments(m), IsFiniteSet(D),
         NEW V, t \in V, \A a \in D : \A v \in V : StagedOne(m, moved, a, v) \in V,
         NEW G \in SUBSET ((SUBSET D) \X V), <<{}, t>> \in G,
         \A s \in SUBSET D : \A a \in D \ s : \A v \in V :
           <<s, v>> \in G => <<s \cup {a}, StagedOne(m, moved, a, v)>> \in G
  PROVE  <<D, Staged(m, t, moved)>> \in G
<1> DEFINE step(a, v) == StagedOne(m, moved, a, v)
           c == [s \in SUBSET D |-> Chosen(s)]
           g == [av \in D \X V |-> step(av[1], av[2])]
           Recursion(it) == it = [s \in SUBSET D |-> IF s = {} THEN t
                                                     ELSE step(Chosen(s), it[s \ {Chosen(s)}])]
           it == CHOOSE it : Recursion(it)
<1>1. Staged(m, t, moved) = it[D]
  BY DEF Staged, StagedOne, FoldSet, MapThenFoldSet, Chosen, Assignments
<1>2. \A s \in SUBSET D : s # {} => Chosen(s) \in s
  BY DEF Chosen
<1>3. \A a \in D : \A v \in V : step(a, v) \in V
  OBVIOUS
<1>s. \A s \in SUBSET D : \A a \in D \ s : \A v \in V :
        <<s, v>> \in G => <<s \cup {a}, step(a, v)>> \in G
  OBVIOUS
<1> HIDE DEF step
<1>4. PICK h \in [SUBSET D -> V] : Folds(h, D, t, c, g)
  <2>1. \A s \in SUBSET D : s # {} => c[s] \in s
    BY <1>2
  <2>2. \A a \in D : \A v \in V : g[<<a, v>>] \in V
    BY <1>3
  <2> HIDE DEF c, g
  <2> QED
    BY <2>1, <2>2, FoldExists
<1>5. Recursion(h)
  <2>1. SUFFICES ASSUME NEW s \in SUBSET D
                 PROVE  h[s] = IF s = {} THEN t ELSE step(Chosen(s), h[s \ {Chosen(s)}])
    BY <2>1
  <2>2. h[s] = IF s = {} THEN t ELSE g[<<c[s], h[s \ {c[s]}]>>]
    BY <1>4 DEF Folds
  <2>3. CASE s # {}
    <3>1. c[s] = Chosen(s) /\ Chosen(s) \in D /\ h[s \ {Chosen(s)}] \in V
      BY <1>2, <2>3
    <3>2. g[<<Chosen(s), h[s \ {Chosen(s)}]>>] = step(Chosen(s), h[s \ {Chosen(s)}])
      BY <3>1
    <3> QED
      BY <2>2, <2>3, <3>1, <3>2
  <2> QED
    BY <2>2, <2>3
<1>6. Recursion(it)
  <2> HIDE DEF Recursion
  <2> QED
    BY <1>5
<1>7. ASSUME NEW s \in SUBSET D
      PROVE  it[s] = IF s = {} THEN t ELSE step(Chosen(s), it[s \ {Chosen(s)}])
  BY <1>6, <1>7
<1> HIDE DEF it
<1>8. <<{}, it[{}]>> \in G
  BY <1>7
<1>9. ASSUME NEW s \in SUBSET D, s # {}, <<s \ {Chosen(s)}, it[s \ {Chosen(s)}]>> \in G
      PROVE  <<s, it[s]>> \in G
  <2> DEFINE a == Chosen(s)
             v == it[s \ {Chosen(s)}]
  <2>1. a \in s /\ a \in D \ (s \ {a}) /\ (s \ {a}) \cup {a} = s /\ s \ {a} \in SUBSET D
    BY <1>2, <1>9
  <2>2. v \in V
    BY <1>9
  <2>3. it[s] = step(a, v)
    BY <1>7, <1>9
  <2>4. <<s \ {a}, v>> \in G
    BY <1>9
  <2> HIDE DEF a, v
  <2> QED
    BY <1>s, <2>1, <2>2, <2>3, <2>4
<1>10. <<D, it[D]>> \in G
  BY <1>8, <1>9, FoldInduction
<1> QED
  BY <1>1, <1>10

\* What each step of DeletedRest keeps is so after all of them.
LEMMA DeletedRestInduction ==
  ASSUME NEW t, NEW D, IsFiniteSet(D),
         NEW V, t \in V, \A a \in D : \A v \in V : DeletedOne(a, v) \in V,
         NEW G \in SUBSET ((SUBSET D) \X V), <<{}, t>> \in G,
         \A s \in SUBSET D : \A a \in D \ s : \A v \in V :
           <<s, v>> \in G => <<s \cup {a}, DeletedOne(a, v)>> \in G
  PROVE  <<D, DeletedRest(t, D)>> \in G
<1> DEFINE step(a, v) == DeletedOne(a, v)
           c == [s \in SUBSET D |-> Chosen(s)]
           g == [av \in D \X V |-> step(av[1], av[2])]
           Recursion(it) == it = [s \in SUBSET D |-> IF s = {} THEN t
                                                     ELSE step(Chosen(s), it[s \ {Chosen(s)}])]
           it == CHOOSE it : Recursion(it)
<1>1. DeletedRest(t, D) = it[D]
  BY DEF DeletedRest, DeletedOne, FoldSet, MapThenFoldSet, Chosen
<1>2. \A s \in SUBSET D : s # {} => Chosen(s) \in s
  BY DEF Chosen
<1>3. \A a \in D : \A v \in V : step(a, v) \in V
  OBVIOUS
<1>s. \A s \in SUBSET D : \A a \in D \ s : \A v \in V :
        <<s, v>> \in G => <<s \cup {a}, step(a, v)>> \in G
  OBVIOUS
<1> HIDE DEF step
<1>4. PICK h \in [SUBSET D -> V] : Folds(h, D, t, c, g)
  <2>1. \A s \in SUBSET D : s # {} => c[s] \in s
    BY <1>2
  <2>2. \A a \in D : \A v \in V : g[<<a, v>>] \in V
    BY <1>3
  <2> HIDE DEF c, g
  <2> QED
    BY <2>1, <2>2, FoldExists
<1>5. Recursion(h)
  <2>1. SUFFICES ASSUME NEW s \in SUBSET D
                 PROVE  h[s] = IF s = {} THEN t ELSE step(Chosen(s), h[s \ {Chosen(s)}])
    BY <2>1
  <2>2. h[s] = IF s = {} THEN t ELSE g[<<c[s], h[s \ {c[s]}]>>]
    BY <1>4 DEF Folds
  <2>3. CASE s # {}
    <3>1. c[s] = Chosen(s) /\ Chosen(s) \in D /\ h[s \ {Chosen(s)}] \in V
      BY <1>2, <2>3
    <3>2. g[<<Chosen(s), h[s \ {Chosen(s)}]>>] = step(Chosen(s), h[s \ {Chosen(s)}])
      BY <3>1
    <3> QED
      BY <2>2, <2>3, <3>1, <3>2
  <2> QED
    BY <2>2, <2>3
<1>6. Recursion(it)
  <2> HIDE DEF Recursion
  <2> QED
    BY <1>5
<1>7. ASSUME NEW s \in SUBSET D
      PROVE  it[s] = IF s = {} THEN t ELSE step(Chosen(s), it[s \ {Chosen(s)}])
  BY <1>6, <1>7
<1> HIDE DEF it
<1>8. <<{}, it[{}]>> \in G
  BY <1>7
<1>9. ASSUME NEW s \in SUBSET D, s # {}, <<s \ {Chosen(s)}, it[s \ {Chosen(s)}]>> \in G
      PROVE  <<s, it[s]>> \in G
  <2> DEFINE a == Chosen(s)
             v == it[s \ {Chosen(s)}]
  <2>1. a \in s /\ a \in D \ (s \ {a}) /\ (s \ {a}) \cup {a} = s /\ s \ {a} \in SUBSET D
    BY <1>2, <1>9
  <2>2. v \in V
    BY <1>9
  <2>3. it[s] = step(a, v)
    BY <1>7, <1>9
  <2>4. <<s \ {a}, v>> \in G
    BY <1>9
  <2> HIDE DEF a, v
  <2> QED
    BY <1>s, <2>1, <2>2, <2>3, <2>4
<1>10. <<D, it[D]>> \in G
  BY <1>8, <1>9, FoldInduction
<1> QED
  BY <1>1, <1>10

\* What each step of Reconnected keeps is so after all of them.
LEMMA ReconnectedInduction ==
  ASSUME NEW m, NEW t, NEW D, D = Assignments(m), IsFiniteSet(D),
         NEW V, t \in V, \A a \in D : \A v \in V : ReconnectedOne(m, a, v) \in V,
         NEW G \in SUBSET ((SUBSET D) \X V), <<{}, t>> \in G,
         \A s \in SUBSET D : \A a \in D \ s : \A v \in V :
           <<s, v>> \in G => <<s \cup {a}, ReconnectedOne(m, a, v)>> \in G
  PROVE  <<D, Reconnected(m, t)>> \in G
<1> DEFINE step(a, v) == ReconnectedOne(m, a, v)
           c == [s \in SUBSET D |-> Chosen(s)]
           g == [av \in D \X V |-> step(av[1], av[2])]
           Recursion(it) == it = [s \in SUBSET D |-> IF s = {} THEN t
                                                     ELSE step(Chosen(s), it[s \ {Chosen(s)}])]
           it == CHOOSE it : Recursion(it)
<1>1. Reconnected(m, t) = it[D]
  BY DEF Reconnected, ReconnectedOne, FoldSet, MapThenFoldSet, Chosen, Assignments
<1>2. \A s \in SUBSET D : s # {} => Chosen(s) \in s
  BY DEF Chosen
<1>3. \A a \in D : \A v \in V : step(a, v) \in V
  OBVIOUS
<1>s. \A s \in SUBSET D : \A a \in D \ s : \A v \in V :
        <<s, v>> \in G => <<s \cup {a}, step(a, v)>> \in G
  OBVIOUS
<1> HIDE DEF step
<1>4. PICK h \in [SUBSET D -> V] : Folds(h, D, t, c, g)
  <2>1. \A s \in SUBSET D : s # {} => c[s] \in s
    BY <1>2
  <2>2. \A a \in D : \A v \in V : g[<<a, v>>] \in V
    BY <1>3
  <2> HIDE DEF c, g
  <2> QED
    BY <2>1, <2>2, FoldExists
<1>5. Recursion(h)
  <2>1. SUFFICES ASSUME NEW s \in SUBSET D
                 PROVE  h[s] = IF s = {} THEN t ELSE step(Chosen(s), h[s \ {Chosen(s)}])
    BY <2>1
  <2>2. h[s] = IF s = {} THEN t ELSE g[<<c[s], h[s \ {c[s]}]>>]
    BY <1>4 DEF Folds
  <2>3. CASE s # {}
    <3>1. c[s] = Chosen(s) /\ Chosen(s) \in D /\ h[s \ {Chosen(s)}] \in V
      BY <1>2, <2>3
    <3>2. g[<<Chosen(s), h[s \ {Chosen(s)}]>>] = step(Chosen(s), h[s \ {Chosen(s)}])
      BY <3>1
    <3> QED
      BY <2>2, <2>3, <3>1, <3>2
  <2> QED
    BY <2>2, <2>3
<1>6. Recursion(it)
  <2> HIDE DEF Recursion
  <2> QED
    BY <1>5
<1>7. ASSUME NEW s \in SUBSET D
      PROVE  it[s] = IF s = {} THEN t ELSE step(Chosen(s), it[s \ {Chosen(s)}])
  BY <1>6, <1>7
<1> HIDE DEF it
<1>8. <<{}, it[{}]>> \in G
  BY <1>7
<1>9. ASSUME NEW s \in SUBSET D, s # {}, <<s \ {Chosen(s)}, it[s \ {Chosen(s)}]>> \in G
      PROVE  <<s, it[s]>> \in G
  <2> DEFINE a == Chosen(s)
             v == it[s \ {Chosen(s)}]
  <2>1. a \in s /\ a \in D \ (s \ {a}) /\ (s \ {a}) \cup {a} = s /\ s \ {a} \in SUBSET D
    BY <1>2, <1>9
  <2>2. v \in V
    BY <1>9
  <2>3. it[s] = step(a, v)
    BY <1>7, <1>9
  <2>4. <<s \ {a}, v>> \in G
    BY <1>9
  <2> HIDE DEF a, v
  <2> QED
    BY <1>s, <2>1, <2>2, <2>3, <2>4
<1>10. <<D, it[D]>> \in G
  BY <1>8, <1>9, FoldInduction
<1> QED
  BY <1>1, <1>10
--------------------------------------------------------------------------------
(* What a plan that is not blocked does to the rows it works on *)

PlanFits(m, t) == m \in Manifests /\ InOrder(t) /\ ~PlanOf(m, t).blocked /\ ReferencesSafe(m, t)

\* The rows of the addresses that the plan declares, or that are bound.
LiveAssignments(t) == {a \in AssignmentAddresses : t.binding[a].live}
Touched(m, t) == Identities(m, Assignments(m)) \cup Identities(t.binding, LiveAssignments(t))

\* The tables after some of the passes.
Underway(m, t, s) ==
  /\ Sound(s) /\ s.verified = t.verified /\ s.group = t.group /\ s.resource = t.resource
  /\ s.skill = t.skill /\ s.revision = t.revision
  /\ \A e \in Emails \ Touched(m, t) : s.direct[e] = t.direct[e]
  /\ \A a \in AssignmentAddresses :
       \/ s.binding[a] = t.binding[a]
       \/ s.binding[a] = NoBinding
       \/ Declares(m, a) /\ s.binding[a] = LiveAt(m[a].identity)

\* Addresses that are bound as declared, with the keys that are declared.
Connected(m, S, s) == \A a \in S :
  s.binding[a] = LiveAt(m[a].identity) /\ s.direct[m[a].identity].grants = m[a].keys

\* What a pass over assignments leaves alone.
Passed(m, t, s, r) ==
  /\ Underway(m, t, r) /\ r.scopes = s.scopes
  /\ \A b \in ScopeAddresses : r.binding[b] = s.binding[b]
  /\ \A b \in Addresses : ~Declares(m, b) => r.binding[b] = s.binding[b]
  /\ s.failed => r.failed

\* What a manifest declares is of the kind of its address, and declared once.
LEMMA ManifestFacts ==
  ASSUME NEW m \in Manifests
  PROVE  /\ \A a \in ScopeAddresses : Declares(m, a) => m[a].identity \in Scopes
         /\ \A a \in AssignmentAddresses : Declares(m, a) =>
              m[a].identity \in Emails /\ m[a].keys \in SUBSET Keys /\ m[a].keys # {}
         /\ \A a \in Addresses : ~Declares(m, a) => m[a].identity = None /\ m[a].keys = {}
         /\ \A a, b \in Addresses : Declares(m, a) /\ m[a].identity = m[b].identity => a = b
<1>1. /\ \A a \in Addresses : m[a] = Undeclared \/ m[a] \in Declaration(a)
      /\ \A a, b \in Addresses : a # b /\ m[a].identity = m[b].identity => m[a] = Undeclared
  BY DEF Manifests
<1>2. ASSUME NEW a \in Addresses, Declares(m, a)
      PROVE  m[a] \in Declaration(a)
  BY <1>1, <1>2 DEF Declares
<1>3. ASSUME NEW a \in ScopeAddresses, Declares(m, a)
      PROVE  m[a].identity \in Scopes
  BY <1>2, <1>3 DEF Declaration, Addresses
<1>4. ASSUME NEW a \in AssignmentAddresses, Declares(m, a)
      PROVE  m[a].identity \in Emails /\ m[a].keys \in SUBSET Keys /\ m[a].keys # {}
  <2>1. a \notin ScopeAddresses /\ a \in Addresses
    BY AddressesHaveOneKind DEF Addresses
  <2> QED
    BY <1>2, <1>4, <2>1 DEF Declaration
<1>5. \A a \in Addresses : ~Declares(m, a) => m[a].identity = None /\ m[a].keys = {}
  BY DEF Declares, Undeclared
<1>6. \A a, b \in Addresses : Declares(m, a) /\ m[a].identity = m[b].identity => a = b
  BY <1>1 DEF Declares
<1> QED
  BY <1>3, <1>4, <1>5, <1>6

\* A binding names an object.
LEMMA BindingFacts ==
  ASSUME NEW b \in Binding, b # NoBinding
  PROVE  /\ b.identity \in Scopes \cup Emails /\ b.identity # None
         /\ b.live => b = LiveAt(b.identity)
<1>1. b \in [identity : Scopes \cup Emails, live : BOOLEAN]
  BY DEF Binding
<1>2. b.identity \in Scopes \cup Emails
  BY <1>1
<1>3. ASSUME b.live
      PROVE  b = LiveAt(b.identity)
  <2>1. b = [identity |-> b.identity, live |-> b.live] /\ b.live \in BOOLEAN
    BY <1>1
  <2> QED
    BY <1>3, <2>1, Zenon DEF LiveAt
<1> QED
  BY <1>2, <1>3, NoneIsNoObject

\* An unbound address names none.
LEMMA NotBoundFacts == ~NoBinding.live /\ NoBinding.identity = None
BY DEF NoBinding

\* A declared object that exists is bound to its address.
LEMMA DeclaredFits ==
  ASSUME NEW m, NEW t, PlanFits(m, t), NEW a \in Addresses, Declares(m, a),
         Exists(t, a, m[a].identity)
  PROVE  t.binding[a] = LiveAt(m[a].identity)
<1> DEFINE bound == t.binding[a]
           id == m[a].identity
<1>1. Verb(m, t, a) # "blocked"
  BY DEF PlanFits, PlanOf
<1>2. bound \in Binding
  BY TableFields DEF PlanFits, InOrder
<1>3. id # None
  BY ManifestFacts, NoneIsNoObject DEF PlanFits, Addresses
<1>4. CASE bound = NoBinding
  BY <1>1, <1>4 DEF Verb, NoBinding
<1>5. CASE bound # NoBinding /\ bound.identity # id
  BY <1>1, <1>5 DEF Verb
<1>6. CASE bound # NoBinding /\ bound.identity = id /\ ~bound.live
  BY <1>1, <1>6 DEF Verb
<1>7. CASE bound # NoBinding /\ bound.identity = id /\ bound.live
  BY <1>2, <1>7, BindingFacts
<1> QED
  BY <1>4, <1>5, <1>6, <1>7

\* No object is both declared at one address and bound at another of its kind.
LEMMA DeclaredApart ==
  ASSUME NEW m, NEW t, PlanFits(m, t), NEW a \in Addresses, NEW b \in Addresses, Declares(m, a),
         a \in ScopeAddresses <=> b \in ScopeAddresses,
         t.binding[b].live, t.binding[b].identity = m[a].identity
  PROVE  a = b
<1>1. Exists(t, b, t.binding[b].identity)
  BY DEF PlanFits, InOrder, BoundOnce
<1>2. Exists(t, a, m[a].identity)
  BY <1>1 DEF Exists
<1>3. t.binding[a] = LiveAt(m[a].identity)
  BY <1>2, DeclaredFits
<1>4. t.binding[a].live /\ t.binding[a].identity = t.binding[b].identity
  BY <1>3 DEF LiveAt
<1> QED
  BY <1>4 DEF PlanFits, InOrder, BoundOnce

\* What assignments are bound to while the plan is executed.
LEMMA UnderwayBindings ==
  ASSUME NEW m, NEW t, NEW s, PlanFits(m, t), Underway(m, t, s),
         NEW b \in AssignmentAddresses, s.binding[b].live
  PROVE  /\ s.binding[b].identity \in Emails \cap Touched(m, t)
         /\ \A a \in Assignments(m) \ {b} : s.binding[b].identity # m[a].identity
<1>0. m \in Manifests /\ b \in Addresses /\ b \notin ScopeAddresses
  BY AddressesHaveOneKind DEF PlanFits, Addresses
<1>1. s.binding[b] # NoBinding
  BY NotBoundFacts
<1>2. s.binding[b].identity \in Emails
  BY <1>0, <1>1 DEF Underway, Sound, RowsInOrder
<1>3. ASSUME NEW a \in Assignments(m) \ {b}
      PROVE  a \in Addresses /\ a \notin ScopeAddresses /\ Declares(m, a)
  BY <1>3, AddressesHaveOneKind DEF Assignments, Declared, Addresses
<1>4. CASE s.binding[b] = t.binding[b]
  <2>1. b \in LiveAssignments(t)
    BY <1>4 DEF LiveAssignments
  <2>2. s.binding[b].identity \in Touched(m, t)
    BY <1>4, <2>1 DEF Touched, Identities
  <2> QED
    BY <1>0, <1>2, <1>3, <1>4, <2>2, DeclaredApart
<1>5. CASE Declares(m, b) /\ s.binding[b] = LiveAt(m[b].identity)
  <2>1. s.binding[b].identity = m[b].identity /\ b \in Assignments(m)
    BY <1>5 DEF LiveAt, Assignments, Declared
  <2>2. s.binding[b].identity \in Touched(m, t)
    BY <2>1 DEF Touched, Identities
  <2> QED
    BY <1>0, <1>2, <1>3, <1>5, <2>1, <2>2, ManifestFacts
<1> QED
  BY <1>1, <1>4, <1>5 DEF Underway

\* One assignment is made what is declared.
LEMMA ConnectOne ==
  ASSUME NEW m, NEW t, NEW s, PlanFits(m, t), Underway(m, t, s),
         NEW a \in Assignments(m), NEW keys \in SUBSET Keys
  PROVE  /\ Passed(m, t, s, Reconciled(s, a, m[a].identity, keys))
         /\ \A S \in SUBSET Assignments(m) :
              /\ ~Reconciled(s, a, m[a].identity, keys).failed
              /\ keys = m[a].keys /\ Connected(m, S, s)
              => Connected(m, S \cup {a}, Reconciled(s, a, m[a].identity, keys))
<1> DEFINE id == m[a].identity
           r == Reconciled(s, a, id, keys)
           cleared == Cleared(s, a, id)
<1>0. /\ m \in Manifests /\ a \in AssignmentAddresses /\ a \in Addresses /\ a \notin ScopeAddresses
      /\ Declares(m, a) /\ id \in Emails /\ Sound(s)
  BY ManifestFacts, AddressesHaveOneKind
  DEF PlanFits, Assignments, Declared, Addresses, Underway
<1>1. /\ Mutated(s, r) /\ r.scopes = s.scopes
      /\ \A x \in Emails \ ({id} \cup cleared) : r.direct[x] = s.direct[x]
      /\ \A b \in Addresses \ {a} : r.binding[b] = s.binding[b]
      /\ r.binding[a] \in {s.binding[a], LiveAt(id)}
      /\ ~r.failed => r.binding[a] = LiveAt(id) /\ r.direct[id].grants = keys
  BY <1>0, ReconciledFacts
<1>2. /\ id \in Touched(m, t) /\ cleared \subseteq Touched(m, t)
      /\ \A b \in Assignments(m) \ {a} : m[b].identity \notin cleared
  <2>1. id \in Touched(m, t)
    BY DEF Touched, Identities
  <2> QED
    BY <1>0, <2>1, UnderwayBindings DEF Cleared
<1> HIDE DEF cleared, r
<1>3. Underway(m, t, r)
  <2>1. Sound(r)
    BY <1>1 DEF Mutated, Sound
  <2>2. \A e \in Emails \ Touched(m, t) : r.direct[e] = t.direct[e]
    BY <1>1, <1>2 DEF Underway
  <2>3. ASSUME NEW b \in AssignmentAddresses
        PROVE  \/ r.binding[b] = t.binding[b]
               \/ r.binding[b] = NoBinding
               \/ Declares(m, b) /\ r.binding[b] = LiveAt(m[b].identity)
    <3>1. b \in Addresses
      BY DEF Addresses
    <3> QED
      BY <1>0, <1>1, <3>1 DEF Underway
  <2> QED
    BY <1>1, <2>1, <2>2, <2>3 DEF Underway, Mutated
<1>4. Passed(m, t, s, r)
  <2>1. \A b \in ScopeAddresses : b \in Addresses \ {a}
    BY <1>0 DEF Addresses
  <2> QED
    BY <1>0, <1>1, <1>3, <2>1 DEF Passed, Mutated
<1>5. ASSUME NEW S \in SUBSET Assignments(m), ~r.failed, keys = m[a].keys, Connected(m, S, s)
      PROVE  Connected(m, S \cup {a}, r)
  <2> SUFFICES ASSUME NEW b \in S \cup {a}
               PROVE  r.binding[b] = LiveAt(m[b].identity) /\ r.direct[m[b].identity].grants = m[b].keys
    BY DEF Connected
  <2>1. CASE b = a
    BY <1>1, <1>5, <2>1
  <2>2. CASE b # a
    <3>1. /\ b \in S /\ b \in Assignments(m) \ {a} /\ b \in Addresses /\ Declares(m, b)
          /\ m[b].identity \in Emails
      BY <1>0, <2>2, ManifestFacts DEF Assignments, Declared, Addresses
    <3>2. m[b].identity # id /\ m[b].identity \notin cleared
      BY <1>0, <1>2, <2>2, <3>1, ManifestFacts
    <3> QED
      BY <1>1, <1>5, <3>1, <3>2 DEF Connected
  <2> QED
    BY <2>1, <2>2
<1> QED
  BY <1>4, <1>5 DEF r

\* A pass that changes nothing.
LEMMA PassedItself ==
  ASSUME NEW m, NEW t, NEW s, Underway(m, t, s)
  PROVE  Passed(m, t, s, s)
BY DEF Passed

\* Two passes come to one.
LEMMA PassedTwice ==
  ASSUME NEW m, NEW t, NEW s, NEW v, NEW r, Passed(m, t, s, v), Passed(m, t, v, r)
  PROVE  Passed(m, t, s, r)
BY DEF Passed

\* A row that loses its grants and keeps its version.
LEMMA WithoutGrants ==
  \A x \in Assignment : [x EXCEPT !.grants = {}] = [version |-> x.version, grants |-> {}]
BY DEF Assignment

\* One assignment waits for scopes that are replaced.
LEMMA StageOne ==
  ASSUME NEW m, NEW t, NEW s, NEW moved, PlanFits(m, t), Underway(m, t, s),
         NEW a \in Assignments(m)
  PROVE  /\ Passed(m, t, s, StagedOne(m, moved, a, s))
         /\ \A S \in SUBSET Assignments(m) :
              /\ ~StagedOne(m, moved, a, s).failed
              /\ moved = {} /\ Connected(m, S, s)
              => Connected(m, S \cup {a}, StagedOne(m, moved, a, s))
<1> DEFINE r == StagedOne(m, moved, a, s)
<1>0. m[a].keys \in SUBSET Keys /\ m[a].keys # {} /\ a \in AssignmentAddresses
  BY ManifestFacts DEF PlanFits, Assignments, Declared
<1>1. CASE m[a].keys \ moved # {}
  <2>1. r = Reconciled(s, a, m[a].identity, m[a].keys \ moved)
    BY <1>1 DEF StagedOne
  <2>2. m[a].keys \ moved \in SUBSET Keys
    BY <1>0
  <2> QED
    BY <2>1, <2>2, ConnectOne
<1>2. CASE m[a].keys \ moved = {} /\ ~s.binding[a].live
  <2>1. r = s /\ moved # {}
    BY <1>0, <1>2 DEF StagedOne
  <2> QED
    BY <2>1, PassedItself
<1>3. CASE m[a].keys \ moved = {} /\ s.binding[a].live
  <2> DEFINE e == s.binding[a].identity
             row == [version |-> s.direct[e].version, grants |-> {}]
             d == [s.direct EXCEPT ![e] = row]
  <2>1. e \in Emails \cap Touched(m, t)
    BY <1>0, <1>3, UnderwayBindings
  <2>2. s.direct \in [Emails -> Assignment] /\ s \in Table
    BY TableFields DEF Underway, Sound
  <2>3. r = [s EXCEPT !.direct = d] /\ moved # {}
    <3>1. r = [s EXCEPT !.direct[e].grants = {}] /\ moved # {}
      BY <1>0, <1>3 DEF StagedOne
    <3>2. [s.direct[e] EXCEPT !.grants = {}] = row
      <4>1. s.direct[e] \in Assignment
        BY <2>1, <2>2
      <4> QED
        BY <4>1, WithoutGrants
    <3> HIDE DEF row, e
    <3>3. [s EXCEPT !.direct[e].grants = {}] = [s EXCEPT !.direct = [s.direct EXCEPT ![e].grants = {}]]
      BY <2>1, <2>2 DEF Table
    <3>4. [s.direct EXCEPT ![e].grants = {}] = [s.direct EXCEPT ![e] = [s.direct[e] EXCEPT !.grants = {}]]
      BY <2>1, <2>2
    <3> QED
      BY <3>1, <3>2, <3>3, <3>4
  <2>4. row \in Assignment /\ row.grants = {}
    BY <2>1, <2>2 DEF Assignment
  <2> HIDE DEF row, e
  <2>5. d \in [Emails -> Assignment] /\ d[e] = row /\ \A x \in Emails \ {e} : d[x] = s.direct[x]
    BY <2>1, <2>2, <2>4
  <2> HIDE DEF d, r
  <2>6. \A x \in Emails : d[x].grants # {} => d[x].version > 0
    BY <2>4, <2>5 DEF Underway, Sound, RowsInOrder
  <2>7. /\ Mutated(s, r) /\ r.direct = d /\ r.binding = s.binding /\ r.scopes = s.scopes
        /\ r.failed = s.failed
    BY <2>3, <2>5, <2>6, RowWritten DEF Underway
  <2>8. Passed(m, t, s, r)
    <3>1. \A x \in Emails \ Touched(m, t) : r.direct[x] = t.direct[x]
      BY <2>1, <2>5, <2>7 DEF Underway
    <3> QED
      BY <2>7, <3>1 DEF Passed, Underway, Mutated, Sound
  <2> QED
    BY <2>3, <2>8 DEF r
<1> QED
  BY <1>1, <1>2, <1>3

\* One assignment that is not declared is deleted.
LEMMA DeleteOne ==
  ASSUME NEW m, NEW t, NEW s, PlanFits(m, t), Underway(m, t, s),
         NEW a \in AssignmentAddresses, ~Declares(m, a)
  PROVE  /\ Passed(m, t, s, DeletedOne(a, s))
         /\ DeletedOne(a, s).binding = s.binding
         /\ Connected(m, Assignments(m), s) => Connected(m, Assignments(m), DeletedOne(a, s))
<1> DEFINE r == DeletedOne(a, s)
           e == s.binding[a].identity
<1>1. CASE ~s.binding[a].live
  <2>1. r = s
    BY <1>1 DEF DeletedOne
  <2> QED
    BY <2>1, PassedItself
<1>2. CASE s.binding[a].live
  <2>1. /\ e \in Emails \cap Touched(m, t)
        /\ \A b \in Assignments(m) \ {a} : e # m[b].identity
    BY <1>2, UnderwayBindings
  <2>2. r = Assign(s, e, {}) /\ {} \in SUBSET Keys /\ Sound(s)
    BY <1>2 DEF DeletedOne, Underway
  <2> HIDE DEF r, e
  <2>3. /\ Mutated(s, r) /\ r.binding = s.binding /\ r.scopes = s.scopes
        /\ \A x \in Emails \ {e} : r.direct[x] = s.direct[x]
    BY <2>1, <2>2, AssignFacts
  <2>4. Passed(m, t, s, r)
    <3>1. \A x \in Emails \ Touched(m, t) : r.direct[x] = t.direct[x]
      BY <2>1, <2>3 DEF Underway
    <3> QED
      BY <2>3, <3>1 DEF Passed, Underway, Mutated, Sound
  <2>5. ASSUME Connected(m, Assignments(m), s), NEW b \in Assignments(m)
        PROVE  r.binding[b] = LiveAt(m[b].identity) /\ r.direct[m[b].identity].grants = m[b].keys
    <3>1. m[b].identity \in Emails /\ b # a
      BY ManifestFacts DEF PlanFits, Assignments, Declared
    <3> QED
      BY <2>1, <2>3, <2>5, <3>1 DEF Connected
  <2> QED
    BY <2>3, <2>4, <2>5 DEF Connected, r
<1> QED
  BY <1>1, <1>2
--------------------------------------------------------------------------------
(* The passes *)

\* A pass goes over finitely many addresses.
LEMMA FiniteAddresses ==
  ASSUME NEW D \in SUBSET AssignmentAddresses
  PROVE  IsFiniteSet(D)
BY AddressesFinite, FS_Subset

\* The pass before the deletions keeps to the rows of the plan, and connects every
\* declared assignment when no scope is replaced.
LEMMA StagedFacts ==
  ASSUME NEW m, NEW t, NEW s, NEW moved, PlanFits(m, t), Underway(m, t, s)
  PROVE  /\ Passed(m, t, s, Staged(m, s, moved))
         /\ ~Staged(m, s, moved).failed /\ moved = {}
              => Connected(m, Assignments(m), Staged(m, s, moved))
<1> DEFINE D == Assignments(m)
           V == {v \in Table : Underway(m, t, v)}
           good(S, v) == /\ Passed(m, t, s, v)
                         /\ ~v.failed /\ moved = {} => Connected(m, S, v)
           G == {sv \in (SUBSET D) \X V : good(sv[1], sv[2])}
<1>0. IsFiniteSet(D)
  BY FiniteAddresses DEF Assignments, Declared
<1>1. ASSUME NEW v, Underway(m, t, v)
      PROVE  v \in V
  BY <1>1 DEF Underway, Sound
<1>2. ASSUME NEW a \in D, NEW v \in V
      PROVE  StagedOne(m, moved, a, v) \in V
  <2>1. Passed(m, t, v, StagedOne(m, moved, a, v))
    BY StageOne
  <2> HIDE DEF V
  <2> QED
    BY <1>1, <2>1 DEF Passed
<1>3. <<{}, s>> \in G
  <2>1. good({}, s)
    BY PassedItself DEF Connected
  <2> QED
    BY <1>1, <2>1
<1>4. ASSUME NEW S \in SUBSET D, NEW a \in D \ S, NEW v \in V, <<S, v>> \in G
      PROVE  <<S \cup {a}, StagedOne(m, moved, a, v)>> \in G
  <2> DEFINE r == StagedOne(m, moved, a, v)
  <2>1. /\ Passed(m, t, v, r)
        /\ ~r.failed /\ moved = {} /\ Connected(m, S, v) => Connected(m, S \cup {a}, r)
    BY StageOne
  <2>2. good(S, v) /\ r \in V
    BY <1>2, <1>4
  <2> HIDE DEF r, V
  <2>3. Passed(m, t, s, r)
    BY <2>1, <2>2, PassedTwice
  <2>4. ~r.failed => ~v.failed
    BY <2>1 DEF Passed
  <2>5. good(S \cup {a}, r)
    BY <2>1, <2>2, <2>3, <2>4
  <2>6. <<S \cup {a}, r>> \in (SUBSET D) \X V
    BY <2>2
  <2> HIDE DEF good
  <2> QED
    BY <2>5, <2>6 DEF r
<1>5. s \in V /\ G \in SUBSET ((SUBSET D) \X V)
  BY <1>1
<1>6. <<D, Staged(m, s, moved)>> \in G
  <2> HIDE DEF G, V
  <2> QED
    BY <1>0, <1>2, <1>3, <1>4, <1>5, StagedInduction
<1> QED
  BY <1>6

\* The pass after the replacements connects every declared assignment.
LEMMA ReconnectedFacts ==
  ASSUME NEW m, NEW t, NEW s, PlanFits(m, t), Underway(m, t, s)
  PROVE  /\ Passed(m, t, s, Reconnected(m, s))
         /\ ~Reconnected(m, s).failed => Connected(m, Assignments(m), Reconnected(m, s))
<1> DEFINE D == Assignments(m)
           V == {v \in Table : Underway(m, t, v)}
           good(S, v) == /\ Passed(m, t, s, v)
                         /\ ~v.failed => Connected(m, S, v)
           G == {sv \in (SUBSET D) \X V : good(sv[1], sv[2])}
<1>0. IsFiniteSet(D)
  BY FiniteAddresses DEF Assignments, Declared
<1>1. ASSUME NEW v, Underway(m, t, v)
      PROVE  v \in V
  BY <1>1 DEF Underway, Sound
<1>c. ASSUME NEW a \in D, NEW v, Underway(m, t, v)
      PROVE  /\ Passed(m, t, v, ReconnectedOne(m, a, v))
             /\ \A S \in SUBSET D : ~ReconnectedOne(m, a, v).failed /\ Connected(m, S, v)
                  => Connected(m, S \cup {a}, ReconnectedOne(m, a, v))
  <2>1. m[a].keys \in SUBSET Keys
    BY ManifestFacts DEF PlanFits, Assignments, Declared
  <2> QED
    BY <1>c, <2>1, ConnectOne DEF ReconnectedOne
<1>2. ASSUME NEW a \in D, NEW v \in V
      PROVE  ReconnectedOne(m, a, v) \in V
  <2>1. Passed(m, t, v, ReconnectedOne(m, a, v))
    BY <1>c
  <2> HIDE DEF V
  <2> QED
    BY <1>1, <2>1 DEF Passed
<1>3. <<{}, s>> \in G
  <2>1. good({}, s)
    BY PassedItself DEF Connected
  <2> QED
    BY <1>1, <2>1
<1>4. ASSUME NEW S \in SUBSET D, NEW a \in D \ S, NEW v \in V, <<S, v>> \in G
      PROVE  <<S \cup {a}, ReconnectedOne(m, a, v)>> \in G
  <2> DEFINE r == ReconnectedOne(m, a, v)
  <2>1. /\ Passed(m, t, v, r)
        /\ ~r.failed /\ Connected(m, S, v) => Connected(m, S \cup {a}, r)
    BY <1>c
  <2>2. good(S, v) /\ r \in V
    BY <1>2, <1>4
  <2> HIDE DEF r, V
  <2>3. Passed(m, t, s, r)
    BY <2>1, <2>2, PassedTwice
  <2>4. ~r.failed => ~v.failed
    BY <2>1 DEF Passed
  <2>5. good(S \cup {a}, r)
    BY <2>1, <2>2, <2>3, <2>4
  <2>6. <<S \cup {a}, r>> \in (SUBSET D) \X V
    BY <2>2
  <2> HIDE DEF good
  <2> QED
    BY <2>5, <2>6 DEF r
<1>5. s \in V /\ G \in SUBSET ((SUBSET D) \X V)
  BY <1>1
<1>6. <<D, Reconnected(m, s)>> \in G
  <2> HIDE DEF G, V
  <2> QED
    BY <1>0, <1>2, <1>3, <1>4, <1>5, ReconnectedInduction
<1> QED
  BY <1>6

\* The deletions leave the declared assignments as they are.
LEMMA DeletedRestFacts ==
  ASSUME NEW m, NEW t, NEW s, PlanFits(m, t), Underway(m, t, s),
         NEW gone \in SUBSET AssignmentAddresses, \A a \in gone : ~Declares(m, a)
  PROVE  /\ Passed(m, t, s, DeletedRest(s, gone))
         /\ DeletedRest(s, gone).binding = s.binding
         /\ Connected(m, Assignments(m), s) => Connected(m, Assignments(m), DeletedRest(s, gone))
<1> DEFINE V == {v \in Table : Underway(m, t, v)}
           good(v) == /\ Passed(m, t, s, v) /\ v.binding = s.binding
                      /\ Connected(m, Assignments(m), s) => Connected(m, Assignments(m), v)
           G == {sv \in (SUBSET gone) \X V : good(sv[2])}
<1>0. IsFiniteSet(gone)
  BY FiniteAddresses
<1>1. ASSUME NEW v, Underway(m, t, v)
      PROVE  v \in V
  BY <1>1 DEF Underway, Sound
<1>2. ASSUME NEW a \in gone, NEW v \in V
      PROVE  DeletedOne(a, v) \in V
  <2>1. Passed(m, t, v, DeletedOne(a, v))
    BY DeleteOne
  <2> HIDE DEF V
  <2> QED
    BY <1>1, <2>1 DEF Passed
<1>3. <<{}, s>> \in G
  <2>1. good(s)
    BY PassedItself
  <2> QED
    BY <1>1, <2>1
<1>4. ASSUME NEW S \in SUBSET gone, NEW a \in gone \ S, NEW v \in V, <<S, v>> \in G
      PROVE  <<S \cup {a}, DeletedOne(a, v)>> \in G
  <2> DEFINE r == DeletedOne(a, v)
  <2>1. /\ Passed(m, t, v, r) /\ r.binding = v.binding
        /\ Connected(m, Assignments(m), v) => Connected(m, Assignments(m), r)
    BY DeleteOne
  <2>2. good(v) /\ r \in V
    BY <1>2, <1>4
  <2> HIDE DEF r, V
  <2>3. Passed(m, t, s, r)
    BY <2>1, <2>2, PassedTwice
  <2>4. good(r)
    BY <2>1, <2>2, <2>3
  <2>5. <<S \cup {a}, r>> \in (SUBSET gone) \X V
    BY <2>2
  <2> HIDE DEF good
  <2> QED
    BY <2>4, <2>5 DEF r
<1>5. s \in V /\ G \in SUBSET ((SUBSET gone) \X V)
  BY <1>1
<1>6. <<gone, DeletedRest(s, gone)>> \in G
  <2> HIDE DEF G, V
  <2> QED
    BY <1>0, <1>2, <1>3, <1>4, <1>5, DeletedRestInduction
<1> QED
  BY <1>6

\* A scope that goes away is nobody's outside the workspace, and in no declaration.
LEMMA RetiredFacts ==
  ASSUME NEW m, NEW t, PlanFits(m, t), NEW a \in Retired(m, t)
  PROVE  /\ t.binding[a].identity \in Scopes
         /\ \A e \in Emails \ Touched(m, t) : t.binding[a].identity \notin t.direct[e].grants
         /\ \A x \in AssignmentAddresses : t.binding[a].identity \notin m[x].keys
         /\ \A b \in ScopeAddresses : Declares(m, b) => m[b].identity # t.binding[a].identity
<1> DEFINE id == t.binding[a].identity
<1>0. a \in ScopeAddresses /\ a \in Addresses /\ t.binding[a].live /\ id # m[a].identity
  BY DEF Retired, Addresses
<1>1. id \in Scopes
  BY <1>0, NotBoundFacts DEF PlanFits, InOrder, RowsInOrder
<1>2. ~Referenced(m, t, id)
  BY DEF PlanFits, PlanOf
<1>3. ASSUME NEW e \in Emails, e \notin Touched(m, t), id \in t.direct[e].grants
      PROVE  FALSE
  <2>1. ~Keeps(m, t, id)
    BY <1>2 DEF Referenced
  <2>2. PICK x \in AssignmentAddresses : t.binding[x] = [identity |-> e, live |-> TRUE]
    BY <1>3, <2>1 DEF Keeps
  <2>3. t.binding[x].live /\ t.binding[x].identity = e
    BY <2>2
  <2> QED
    BY <1>3, <2>3 DEF Touched, Identities, LiveAssignments
<1>4. \A x \in AssignmentAddresses : id \notin m[x].keys
  BY <1>0 DEF PlanFits, ReferencesSafe
<1>5. ASSUME NEW b \in ScopeAddresses, Declares(m, b), m[b].identity = id
      PROVE  FALSE
  <2>1. b \in Addresses
    BY DEF Addresses
  <2> QED
    BY <1>0, <1>5, <2>1, DeclaredApart
<1> QED
  BY <1>1, <1>3, <1>4, <1>5

\* Dropping retired scopes touches no row outside the plan and no declared one.
LEMMA DropFacts ==
  ASSUME NEW m, NEW t, NEW s, PlanFits(m, t), Underway(m, t, s),
         NEW R \in SUBSET Retired(m, t), NEW S, S = Identities(t.binding, R),
         NEW r, r = DropScopes(s, S)
  PROVE  /\ Underway(m, t, r) /\ r.binding = s.binding
         /\ s.failed => r.failed
         /\ ~r.failed => r.scopes = s.scopes \ S
         /\ Connected(m, Assignments(m), s) => Connected(m, Assignments(m), r)
<1>1. /\ S \in SUBSET Scopes
      /\ \A e \in Emails \ Touched(m, t) : t.direct[e].grants \cap S = {}
      /\ \A x \in AssignmentAddresses : m[x].keys \cap S = {}
  BY RetiredFacts DEF Identities
<1>2. /\ Mutated(s, r) /\ r.binding = s.binding
      /\ \A e \in Emails : s.direct[e].grants \cap S = {} => r.direct[e] = s.direct[e]
      /\ ~r.failed => r.scopes = s.scopes \ S
  BY <1>1, DropScopesFacts DEF Underway
<1>3. Underway(m, t, r)
  <2>1. \A e \in Emails \ Touched(m, t) : r.direct[e] = t.direct[e]
    BY <1>1, <1>2 DEF Underway
  <2> QED
    BY <1>2, <2>1 DEF Underway, Mutated, Sound
<1>4. ASSUME Connected(m, Assignments(m), s), NEW a \in Assignments(m)
      PROVE  r.binding[a] = LiveAt(m[a].identity) /\ r.direct[m[a].identity].grants = m[a].keys
  <2>1. m[a].identity \in Emails /\ a \in AssignmentAddresses
    BY ManifestFacts DEF PlanFits, Assignments, Declared
  <2>2. s.direct[m[a].identity].grants = m[a].keys /\ s.binding[a] = LiveAt(m[a].identity)
    BY <1>4 DEF Connected
  <2> QED
    BY <1>1, <1>2, <2>1, <2>2
<1>5. Connected(m, Assignments(m), s) => Connected(m, Assignments(m), r)
  BY <1>4 DEF Connected
<1> QED
  BY <1>2, <1>3, <1>5 DEF Mutated
--------------------------------------------------------------------------------
(* What executing a plan comes to *)

Created(m, t) == Declared(m, ScopeAddresses) \ Replaced(m, t)
Doomed(m, t) == {a \in ScopeAddresses : ~Declares(m, a) /\ t.binding[a].live}

\* Addresses of scopes, before anything is deleted.
ScopesStand(m, t, s) == \A b \in ScopeAddresses :
  s.binding[b] = IF b \in Created(m, t) THEN LiveAt(m[b].identity) ELSE t.binding[b]

\* All the bindings, after what is not declared was deleted.
NothingElse(m, s) == \A a \in Addresses : ~Declares(m, a) => s.binding[a] = NoBinding

\* A scope that a plan deletes or replaces is retired by it.
LEMMA DoomedIsRetired ==
  ASSUME NEW m, NEW t, PlanFits(m, t)
  PROVE  Doomed(m, t) \in SUBSET Retired(m, t) /\ Replaced(m, t) \in SUBSET Retired(m, t)
<1>1. ASSUME NEW a \in Doomed(m, t)
      PROVE  a \in Retired(m, t)
  <2>1. a \in Addresses /\ a \in ScopeAddresses /\ t.binding[a].live /\ ~Declares(m, a)
    BY DEF Doomed, Addresses
  <2>2. m[a].identity = None
    BY <2>1, ManifestFacts DEF PlanFits
  <2>3. t.binding[a].identity # None
    BY <2>1, NotBoundFacts, NoneIsNoObject DEF PlanFits, InOrder, RowsInOrder
  <2> QED
    BY <2>1, <2>2, <2>3 DEF Retired
<1> QED
  BY <1>1 DEF Replaced

\* Before its first pass a plan has changed nothing.
LEMMA UnderwayAtFirst ==
  ASSUME NEW m, NEW t, PlanFits(m, t)
  PROVE  Underway(m, t, t)
BY DEF PlanFits, InOrder, Underway, Sound

\* Scopes and bindings are rewritten.
Rescoped(s, r) ==
  /\ r \in Table /\ r.direct = s.direct /\ r.verified = s.verified /\ r.group = s.group
  /\ r.resource = s.resource /\ r.skill = s.skill /\ r.revision = s.revision
  /\ r.failed = s.failed

\* Rewriting scopes and releasing bindings keeps to the rows of the plan.
LEMMA UnderwayRescoped ==
  ASSUME NEW m, NEW t, NEW s, Underway(m, t, s), NEW r, Rescoped(s, r),
         \A a \in Addresses : r.binding[a] # NoBinding =>
           r.binding[a].identity \in (IF a \in ScopeAddresses THEN Scopes ELSE Emails),
         \A a \in AssignmentAddresses :
           r.binding[a] = s.binding[a] \/ r.binding[a] = NoBinding
  PROVE  Underway(m, t, r)
<1>1. Sound(r)
  BY DEF Rescoped, Underway, Sound, RowsInOrder
<1>2. \A a \in AssignmentAddresses :
       \/ r.binding[a] = t.binding[a]
       \/ r.binding[a] = NoBinding
       \/ Declares(m, a) /\ r.binding[a] = LiveAt(m[a].identity)
  BY DEF Underway
<1> QED
  BY <1>1, <1>2 DEF Underway, Rescoped

\* After the first pass every declared scope that is not a replacement exists and is bound.
LEMMA CreatedFacts ==
  ASSUME NEW m, NEW t, PlanFits(m, t)
  PROVE  LET r == ScopesCreated(m, t)
         IN /\ Underway(m, t, r) /\ ~r.failed /\ ScopesStand(m, t, r)
            /\ \A b \in Created(m, t) : m[b].identity \in r.scopes
<1> DEFINE new == Created(m, t)
           S == t.scopes \cup Identities(m, new)
           b == Live(m, t.binding, new)
           r == [t EXCEPT !.scopes = S, !.binding = b]
<1>0. /\ m \in Manifests /\ t \in Table /\ RowsInOrder(t) /\ ~t.failed
      /\ t.binding \in [Addresses -> Binding] /\ t.scopes \subseteq Scopes
  BY TableFields DEF PlanFits, InOrder
<1>1. \A a \in new : a \in ScopeAddresses /\ a \in Addresses /\ m[a].identity \in Scopes
  BY <1>0, ManifestFacts DEF Created, Declared, Addresses
<1>2. S \in SUBSET Scopes
  BY <1>0, <1>1 DEF Identities
<1>3. b = [a \in Addresses |-> IF a \in new THEN LiveAt(m[a].identity) ELSE t.binding[a]]
  BY DEF Live, LiveAt
<1>4. \A a \in new : LiveAt(m[a].identity) \in Binding /\ LiveAt(m[a].identity).identity = m[a].identity
  BY <1>1, LiveFacts
<1>r. ScopesCreated(m, t) = r
  BY <1>0 DEF ScopesCreated, Created, Table
<1> HIDE DEF new, S, b
<1>5. b \in [Addresses -> Binding]
  BY <1>0, <1>3, <1>4
<1>6. \A a \in Addresses : b[a] # NoBinding =>
        b[a].identity \in (IF a \in ScopeAddresses THEN Scopes ELSE Emails)
  BY <1>0, <1>1, <1>3, <1>4 DEF RowsInOrder
<1>7. \A a \in AssignmentAddresses : b[a] = t.binding[a] /\ a \in Addresses
  BY <1>1, <1>3, AddressesHaveOneKind DEF Addresses
<1>e. r = [t EXCEPT !.scopes = S, !.binding = b]
  OBVIOUS
<1> HIDE DEF r
<1>8. /\ Underway(m, t, r) /\ r.scopes = S /\ r.binding = b /\ r.failed = t.failed
  <2>1. Rescoped(t, r) /\ r.scopes = S /\ r.binding = b
    BY <1>0, <1>2, <1>5, <1>e DEF Table, Rescoped
  <2>2. Underway(m, t, r)
    BY <1>6, <1>7, <2>1, UnderwayAtFirst, UnderwayRescoped
  <2> QED
    BY <2>1, <2>2 DEF Rescoped
<1>9. ScopesStand(m, t, r)
  BY <1>3, <1>8 DEF ScopesStand, Addresses, new
<1>10. \A a \in new : m[a].identity \in r.scopes
  BY <1>8 DEF S, Identities
<1> QED
  BY <1>0, <1>8, <1>9, <1>10, <1>r DEF new

\* After the deletions nothing is bound that is not declared.
LEMMA DeletedFacts ==
  ASSUME NEW m, NEW t, NEW s, PlanFits(m, t), Underway(m, t, s), ScopesStand(m, t, s)
  PROVE  LET r == Deleted(m, s)
         IN /\ Underway(m, t, r) /\ (s.failed => r.failed) /\ NothingElse(m, r)
            /\ \A b \in Addresses : Declares(m, b) => r.binding[b] = s.binding[b]
            /\ \A b \in Created(m, t) :
                 ~r.failed /\ m[b].identity \in s.scopes => m[b].identity \in r.scopes
            /\ Connected(m, Assignments(m), s) => Connected(m, Assignments(m), r)
<1> DEFINE gone == Dropped(m, s, AssignmentAddresses)
           rest == DeletedRest(s, gone)
           scopeAddresses == Dropped(m, s, ScopeAddresses)
           doomed == Identities(s.binding, {a \in scopeAddresses : s.binding[a].live})
           dropped == DropScopes(rest, doomed)
           b == Unbound(dropped.binding, gone \cup scopeAddresses)
           r == Deleted(m, s)
<1>1. r = [dropped EXCEPT !.binding = b]
  BY DEF Deleted, DeletedRest
<1>2. doomed = Identities(t.binding, Doomed(m, t))
  <2>1. \A a \in ScopeAddresses : ~Declares(m, a) => s.binding[a] = t.binding[a]
    BY DEF ScopesStand, Created, Declared
  <2>2. {a \in scopeAddresses : s.binding[a].live} = Doomed(m, t)
    BY <2>1, NotBoundFacts DEF Dropped, Doomed
  <2> HIDE DEF scopeAddresses
  <2>3. \A a \in Doomed(m, t) : s.binding[a] = t.binding[a]
    BY <2>1 DEF Doomed
  <2> QED
    BY <2>2, <2>3 DEF Identities
<1>3. /\ Passed(m, t, s, rest) /\ rest.binding = s.binding
      /\ Connected(m, Assignments(m), s) => Connected(m, Assignments(m), rest)
  <2>1. gone \in SUBSET AssignmentAddresses /\ \A a \in gone : ~Declares(m, a)
    BY DEF Dropped
  <2> HIDE DEF gone
  <2> QED
    BY <2>1, DeletedRestFacts
<1> HIDE DEF rest, doomed
<1>4. /\ Underway(m, t, dropped) /\ dropped.binding = rest.binding
      /\ rest.failed => dropped.failed
      /\ ~dropped.failed => dropped.scopes = rest.scopes \ doomed
      /\ Connected(m, Assignments(m), rest) => Connected(m, Assignments(m), dropped)
  BY <1>2, <1>3, DoomedIsRetired, DropFacts DEF Passed
<1> HIDE DEF dropped
<1>5. /\ dropped \in Table /\ RowsInOrder(dropped) /\ dropped.binding \in [Addresses -> Binding]
      /\ dropped.scopes \in SUBSET Scopes
  BY <1>4, TableFields DEF Underway, Sound
<1>6. b = [a \in Addresses |-> IF a \in gone \cup scopeAddresses THEN NoBinding ELSE s.binding[a]]
  BY <1>3, <1>4 DEF Unbound
<1>7. \A a \in gone \cup scopeAddresses : ~Declares(m, a)
  BY DEF Dropped
<1>8. \A a \in Addresses : ~Declares(m, a) => b[a] = NoBinding
  BY <1>6 DEF Dropped, Addresses
<1> HIDE DEF b, gone, scopeAddresses
<1>9. b \in [Addresses -> Binding]
  BY <1>3, <1>4, <1>5, <1>6 DEF Binding
<1>10. r = [dropped EXCEPT !.scopes = dropped.scopes, !.binding = b]
  BY <1>1, <1>5 DEF Table
<1>11. \A a \in Addresses : b[a] # NoBinding =>
        b[a].identity \in (IF a \in ScopeAddresses THEN Scopes ELSE Emails)
  BY <1>3, <1>4, <1>5, <1>6 DEF RowsInOrder
<1>12. \A a \in AssignmentAddresses : b[a] = dropped.binding[a] \/ b[a] = NoBinding
  BY <1>3, <1>4, <1>6 DEF Addresses
<1> HIDE DEF r
<1>13. /\ Underway(m, t, r) /\ r.scopes = dropped.scopes /\ r.binding = b
       /\ r.direct = dropped.direct /\ r.failed = dropped.failed
  <2>1. Rescoped(dropped, r) /\ r.scopes = dropped.scopes /\ r.binding = b
    BY <1>5, <1>9, <1>10 DEF Table, Rescoped
  <2>2. Underway(m, t, r)
    BY <1>4, <1>11, <1>12, <2>1, UnderwayRescoped
  <2> QED
    BY <2>1, <2>2 DEF Rescoped
<1>14. \A a \in Addresses : Declares(m, a) => r.binding[a] = s.binding[a]
  BY <1>6, <1>7, <1>13
<1>15. ASSUME NEW a \in Created(m, t), ~r.failed, m[a].identity \in s.scopes
       PROVE  m[a].identity \in r.scopes
  <2>1. a \in ScopeAddresses /\ Declares(m, a)
    BY DEF Created, Declared
  <2>2. m[a].identity \notin doomed
    BY <1>2, <2>1, DoomedIsRetired, RetiredFacts DEF Identities
  <2> QED
    BY <1>3, <1>4, <1>13, <1>15, <2>2 DEF Passed
<1>16. ASSUME Connected(m, Assignments(m), s)
       PROVE  Connected(m, Assignments(m), r)
  <2>1. Connected(m, Assignments(m), dropped)
    BY <1>3, <1>4, <1>16
  <2>2. \A a \in Assignments(m) : a \in Addresses /\ Declares(m, a)
    BY DEF Assignments, Declared, Addresses
  <2> QED
    BY <1>3, <1>4, <1>13, <1>14, <2>1, <2>2 DEF Connected
<1> QED
  BY <1>3, <1>4, <1>8, <1>13, <1>14, <1>15, <1>16 DEF NothingElse, Passed, r

\* After the replacements every declared scope exists and is bound.
LEMMA ReplacedFacts ==
  ASSUME NEW m, NEW t, NEW s, PlanFits(m, t), Underway(m, t, s), NothingElse(m, s),
         \A b \in Replaced(m, t) : s.binding[b] = t.binding[b],
         \A b \in Created(m, t) : s.binding[b] = LiveAt(m[b].identity)
  PROVE  LET r == ScopesReplaced(m, s, Replaced(m, t))
         IN /\ Underway(m, t, r) /\ (s.failed => r.failed) /\ NothingElse(m, r)
            /\ \A b \in AssignmentAddresses : r.binding[b] = s.binding[b]
            /\ \A b \in ScopeAddresses : Declares(m, b) => r.binding[b] = LiveAt(m[b].identity)
            /\ \A b \in Created(m, t) :
                 ~r.failed /\ m[b].identity \in s.scopes => m[b].identity \in r.scopes
            /\ \A b \in Replaced(m, t) : m[b].identity \in r.scopes
            /\ Connected(m, Assignments(m), s) => Connected(m, Assignments(m), r)
<1> DEFINE replaced == Replaced(m, t)
           old == Identities(s.binding, replaced)
           dropped == DropScopes(s, old)
           S == dropped.scopes \cup Identities(m, replaced)
           b == Live(m, dropped.binding, replaced)
           r == ScopesReplaced(m, s, replaced)
<1>0. \A a \in replaced : /\ a \in ScopeAddresses /\ a \in Addresses /\ Declares(m, a)
                          /\ m[a].identity \in Scopes /\ LiveAt(m[a].identity) \in Binding
                          /\ LiveAt(m[a].identity).identity = m[a].identity
  BY ManifestFacts, LiveFacts DEF Replaced, Retired, Addresses, PlanFits
<1>1. old = Identities(t.binding, replaced)
  BY DEF Identities
<1>r. r = [dropped EXCEPT !.scopes = dropped.scopes \cup Identities(m, replaced),
                          !.binding = Live(m, dropped.binding, replaced)]
  BY DEF ScopesReplaced
<1>d. replaced \in SUBSET Retired(m, t)
  BY DoomedIsRetired
<1> HIDE DEF old, replaced
<1>2. /\ Underway(m, t, dropped) /\ dropped.binding = s.binding
      /\ s.failed => dropped.failed
      /\ ~dropped.failed => dropped.scopes = s.scopes \ old
      /\ Connected(m, Assignments(m), s) => Connected(m, Assignments(m), dropped)
  BY <1>1, <1>d, DropFacts
<1> HIDE DEF dropped
<1>3. /\ dropped \in Table /\ RowsInOrder(dropped) /\ s.binding \in [Addresses -> Binding]
      /\ dropped.scopes \in SUBSET Scopes
  BY <1>2, TableFields DEF Underway, Sound
<1>4. S \in SUBSET Scopes
  BY <1>0, <1>3 DEF Identities
<1>5. b = [a \in Addresses |-> IF a \in replaced THEN LiveAt(m[a].identity) ELSE s.binding[a]]
  BY <1>2 DEF Live, LiveAt
<1>6. r = [dropped EXCEPT !.scopes = S, !.binding = b]
  BY <1>r
<1> HIDE DEF S, b, r
<1>7. b \in [Addresses -> Binding]
  BY <1>0, <1>3, <1>5
<1>8. \A a \in Addresses : b[a] # NoBinding =>
        b[a].identity \in (IF a \in ScopeAddresses THEN Scopes ELSE Emails)
  BY <1>0, <1>2, <1>3, <1>5 DEF RowsInOrder
<1>9. \A a \in AssignmentAddresses : b[a] = s.binding[a] /\ a \in Addresses
  BY <1>0, <1>5, AddressesHaveOneKind DEF Addresses
<1>10. /\ Underway(m, t, r) /\ r.scopes = S /\ r.binding = b
       /\ r.direct = dropped.direct /\ r.failed = dropped.failed
  <2>1. Rescoped(dropped, r) /\ r.scopes = S /\ r.binding = b
    BY <1>3, <1>4, <1>6, <1>7 DEF Table, Rescoped
  <2>2. Underway(m, t, r)
    BY <1>2, <1>8, <1>9, <2>1, UnderwayRescoped
  <2> QED
    BY <2>1, <2>2 DEF Rescoped
<1>11. NothingElse(m, r)
  BY <1>0, <1>5, <1>10 DEF NothingElse
<1>12. \A a \in ScopeAddresses : Declares(m, a) => r.binding[a] = LiveAt(m[a].identity)
  BY <1>5, <1>10 DEF Created, Declared, Addresses, replaced
<1>13. \A a \in replaced : m[a].identity \in r.scopes
  BY <1>10 DEF S, Identities
<1>14. ASSUME NEW a \in Created(m, t), ~r.failed, m[a].identity \in s.scopes
       PROVE  m[a].identity \in r.scopes
  <2>1. a \in ScopeAddresses /\ Declares(m, a)
    BY DEF Created, Declared
  <2>2. m[a].identity \notin old
    BY <1>1, <2>1, DoomedIsRetired, RetiredFacts DEF Identities, replaced
  <2> QED
    BY <1>2, <1>10, <1>14, <2>2 DEF S
<1>15. ASSUME Connected(m, Assignments(m), s)
       PROVE  Connected(m, Assignments(m), r)
  <2>1. Connected(m, Assignments(m), dropped)
    BY <1>2, <1>15
  <2>2. \A a \in Assignments(m) : a \in AssignmentAddresses
    BY DEF Assignments, Declared
  <2> QED
    BY <1>2, <1>9, <1>10, <2>1, <2>2 DEF Connected
<1> QED
  BY <1>2, <1>9, <1>10, <1>11, <1>12, <1>13, <1>14, <1>15 DEF r, replaced

\* Unless it fails, every address is bound as declared and nothing else is touched.
LEMMA ExecutedFacts ==
  ASSUME NEW m, NEW t, PlanFits(m, t), ~Executed(m, t).failed
  PROVE  LET r == Executed(m, t)
         IN /\ Underway(m, t, r) /\ NothingElse(m, r) /\ Connected(m, Assignments(m), r)
            /\ \A b \in Declared(m, ScopeAddresses) :
                 r.binding[b] = LiveAt(m[b].identity) /\ m[b].identity \in r.scopes
<1> DEFINE replaced == Replaced(m, t)
           moved == Identities(t.binding, replaced) \cup Identities(m, replaced)
           created == ScopesCreated(m, t)
           staged == Staged(m, created, moved)
           deleted == Deleted(m, staged)
           last == ScopesReplaced(m, deleted, replaced)
           r == Executed(m, t)
<1>1. r = IF replaced = {} THEN last ELSE Reconnected(m, last)
  BY DEF Executed
<1>2. /\ Underway(m, t, created) /\ ~created.failed /\ ScopesStand(m, t, created)
      /\ \A b \in Created(m, t) : m[b].identity \in created.scopes
  BY CreatedFacts
<1> HIDE DEF created
<1>3. /\ Passed(m, t, created, staged)
      /\ ~staged.failed /\ moved = {} => Connected(m, Assignments(m), staged)
  BY <1>2, StagedFacts
<1>m. replaced = {} => moved = {}
  BY DEF Identities
<1> HIDE DEF staged, moved
<1>4. Underway(m, t, staged) /\ ScopesStand(m, t, staged)
  BY <1>2, <1>3 DEF Passed, ScopesStand
<1>5. /\ Underway(m, t, deleted) /\ (staged.failed => deleted.failed) /\ NothingElse(m, deleted)
      /\ \A b \in Addresses : Declares(m, b) => deleted.binding[b] = staged.binding[b]
      /\ \A b \in Created(m, t) :
           ~deleted.failed /\ m[b].identity \in staged.scopes => m[b].identity \in deleted.scopes
      /\ Connected(m, Assignments(m), staged) => Connected(m, Assignments(m), deleted)
  BY <1>4, DeletedFacts
<1> HIDE DEF deleted
<1>6. /\ \A b \in replaced : deleted.binding[b] = t.binding[b]
      /\ \A b \in Created(m, t) : deleted.binding[b] = LiveAt(m[b].identity)
  <2>1. \A b \in replaced : /\ b \in ScopeAddresses /\ b \in Addresses
                          /\ Declares(m, b) /\ b \notin Created(m, t)
    BY DEF Replaced, Retired, Created, Addresses
  <2>2. \A b \in Created(m, t) : b \in ScopeAddresses /\ b \in Addresses /\ Declares(m, b)
    BY DEF Created, Declared, Addresses
  <2> QED
    BY <1>4, <1>5, <2>1, <2>2 DEF ScopesStand
<1>7. /\ Underway(m, t, last) /\ (deleted.failed => last.failed) /\ NothingElse(m, last)
      /\ \A b \in ScopeAddresses : Declares(m, b) => last.binding[b] = LiveAt(m[b].identity)
      /\ \A b \in Created(m, t) :
           ~last.failed /\ m[b].identity \in deleted.scopes => m[b].identity \in last.scopes
      /\ \A b \in replaced : m[b].identity \in last.scopes
      /\ Connected(m, Assignments(m), deleted) => Connected(m, Assignments(m), last)
  BY <1>5, <1>6, ReplacedFacts
<1> HIDE DEF last
<1>8. ~last.failed => \A b \in Declared(m, ScopeAddresses) : m[b].identity \in last.scopes
  <2>1. \A b \in Created(m, t) : m[b].identity \in staged.scopes
    BY <1>2, <1>3 DEF Passed
  <2>2. ~last.failed => \A b \in Created(m, t) : m[b].identity \in last.scopes
    BY <1>5, <1>7, <2>1
  <2> QED
    BY <1>7, <2>2 DEF Created
<1>9. CASE replaced = {}
  <2>1. ~staged.failed /\ ~last.failed /\ r = last
    BY <1>1, <1>5, <1>7, <1>9
  <2>2. Connected(m, Assignments(m), last)
    BY <1>3, <1>5, <1>7, <1>9, <1>m, <2>1
  <2> HIDE DEF r
  <2> QED
    BY <1>7, <1>8, <2>1, <2>2 DEF Declared, r
<1>10. CASE replaced # {}
  <2>1. r = Reconnected(m, last)
    BY <1>1, <1>10
  <2>2. /\ Passed(m, t, last, r)
        /\ Connected(m, Assignments(m), r)
    BY <1>7, <2>1, ReconnectedFacts
  <2>f. ~r.failed
    OBVIOUS
  <2> HIDE DEF r
  <2>3. ~last.failed
    BY <2>2, <2>f DEF Passed
  <2>4. NothingElse(m, r)
    <3>1. ASSUME NEW a \in Addresses, ~Declares(m, a)
          PROVE  r.binding[a] = NoBinding
      BY <1>7, <2>2, <3>1 DEF Passed, NothingElse
    <3> QED
      BY <3>1 DEF NothingElse
  <2> QED
    BY <1>7, <1>8, <2>2, <2>3, <2>4 DEF Passed, Declared, r
<1> QED
  BY <1>9, <1>10
--------------------------------------------------------------------------------
(* Mutations of administrators *)

\* The bound on mutations.
LEMMA ChangeCounts ==
  ASSUME AccessTypeOK, Change \/ changes' = changes
  PROVE  changes' \in 0 .. MaxChanges
BY ChangesBounded DEF AccessTypeOK, Change

\* Scopes that exist, and the system scope, are keys.
LEMMA KnownKeys ==
  ASSUME AccessTypeOK
  PROVE  Known \subseteq Keys
BY DEF AccessTypeOK, Known, Keys

\* The rows of what does not exist are well typed.
LEMMA EmptyRows ==
  /\ NoSkill \in Skill /\ NoGroup \in GroupRow /\ NoForm \in Form
  /\ [status |-> "absent", supports |-> {}] \in Resource
BY DEF NoSkill, Skill, NoGroup, GroupRow, NoForm, Form, Resource

\* One row of an assignment is written, with a version if it has grants.
RowMade(e, row) ==
  /\ row \in Assignment /\ (row.grants # {} => row.version > 0)
  /\ direct' = [direct EXCEPT ![e] = row]

\* A save of an assignment writes one row.
LEMMA SavedRow ==
  ASSUME AccessTypeOK, NEW e \in Emails, NEW keys \in SUBSET Keys, Saved(e, keys)
  PROVE  \E row : RowMade(e, row) /\ row.grants = keys
<1> DEFINE row == [version |-> IF keys = {} THEN 0 ELSE direct[e].version + 1, grants |-> keys]
<1>1. direct \in [Emails -> Assignment] /\ direct[e].version \in Nat
  BY DEF AccessTypeOK, Assignment
<1>2. row \in Assignment /\ row.grants = keys
  BY <1>1 DEF Assignment
<1>3. row.grants # {} => row.version > 0
  BY <1>1
<1>4. direct' = [direct EXCEPT ![e] = row]
  BY <1>1 DEF Saved
<1> QED
  BY <1>2, <1>3, <1>4 DEF RowMade

\* An open form is of some address.
LEMMA FormTyped ==
  ASSUME AccessTypeOK, NEW f \in Forms, form[f] # NoForm
  PROVE  form[f].email \in Emails
BY DEF AccessTypeOK, Form

\* What a mutation may do to users and assignments.
RowsKept ==
  /\ AccessTypeOK' /\ verified \subseteq verified'
  /\ IsFiniteSet(verified) => IsFiniteSet(verified')

\* Saving and deleting a skill keeps the types.
LEMMA SkillsTyped ==
  ASSUME AccessTypeOK, NEW k \in Skills, SaveSkill(k) \/ DeleteSkill(k)
  PROVE  AccessTypeOK'
<1>1. changes' \in 0 .. MaxChanges
  BY ChangeCounts DEF SaveSkill, DeleteSkill
<1>2. skill' \in [Skills -> Skill]
  <2>1. CASE SaveSkill(k)
    <3>1. PICK requires \in SUBSET Known, needs \in SUBSET Resources :
            skill' = [skill EXCEPT ![k] = [exists |-> TRUE, requires |-> requires, needs |-> needs]]
      BY <2>1 DEF SaveSkill
    <3>2. [exists |-> TRUE, requires |-> requires, needs |-> needs] \in Skill
      BY KnownKeys DEF Skill
    <3> QED
      BY <3>1, <3>2 DEF AccessTypeOK
  <2>2. CASE DeleteSkill(k)
    BY <2>2, EmptyRows DEF DeleteSkill, AccessTypeOK
  <2> QED
    BY <2>1, <2>2
<1> QED
  BY <1>1, <1>2 DEF AccessTypeOK, SaveSkill, DeleteSkill

\* Saving and deleting a resource keeps the types.
LEMMA ResourcesTyped ==
  ASSUME AccessTypeOK, NEW r \in Resources, SaveResource(r) \/ DeleteResource(r)
  PROVE  AccessTypeOK'
<1>1. changes' \in 0 .. MaxChanges
  BY ChangeCounts DEF SaveResource, DeleteResource
<1>2. resource' \in [Resources -> Resource]
  <2>1. CASE SaveResource(r)
    <3>1. PICK status \in {"disabled", "enabled"}, supports \in SUBSET Known :
            resource' = [resource EXCEPT ![r] = [status |-> status, supports |-> supports]]
      BY <2>1 DEF SaveResource
    <3>2. [status |-> status, supports |-> supports] \in Resource
      BY KnownKeys DEF Resource
    <3> QED
      BY <3>1, <3>2 DEF AccessTypeOK
  <2>2. CASE DeleteResource(r)
    BY <2>2, EmptyRows DEF DeleteResource, AccessTypeOK
  <2> QED
    BY <2>1, <2>2
<1> QED
  BY <1>1, <1>2 DEF AccessTypeOK, SaveResource, DeleteResource

\* Creating, saving and removing a provider keeps the types.
LEMMA ProvidersTyped ==
  ASSUME AccessTypeOK, Administration, NEW p \in Providers,
         CreateProvider(p) \/ SaveProvider(p) \/ RemoveProvider(p)
  PROVE  AccessTypeOK'
<1>1. changes' \in 0 .. MaxChanges
  BY ChangeCounts DEF CreateProvider, SaveProvider, RemoveProvider
<1>2. provider' \in [Providers -> Provider]
  BY ProvidersMove DEF AccessTypeOK
<1> QED
  BY <1>1, <1>2 DEF AccessTypeOK, CreateProvider, SaveProvider, RemoveProvider

\* Saving and deleting a group assignment keeps the types.
LEMMA GroupsTyped ==
  ASSUME AccessTypeOK, NEW p \in Providers, NEW g \in Groups, SaveGroup(p, g) \/ DeleteGroup(p, g)
  PROVE  AccessTypeOK'
<1>1. changes' \in 0 .. MaxChanges
  BY ChangeCounts DEF SaveGroup, DeleteGroup
<1>2. group' \in [Providers \X Groups -> GroupRow]
  <2>1. CASE SaveGroup(p, g)
    <3>1. PICK keys \in (SUBSET Known) \ {{}} :
            group' = [group EXCEPT ![<<p, g>>] = [exists |-> TRUE, grants |-> keys]]
      BY <2>1 DEF SaveGroup
    <3>2. [exists |-> TRUE, grants |-> keys] \in GroupRow
      BY KnownKeys DEF GroupRow
    <3> QED
      BY <3>1, <3>2 DEF AccessTypeOK
  <2>2. CASE DeleteGroup(p, g)
    BY <2>2, EmptyRows DEF DeleteGroup, AccessTypeOK
  <2> QED
    BY <2>1, <2>2
<1> QED
  BY <1>1, <1>2 DEF AccessTypeOK, SaveGroup, DeleteGroup

\* Creating a scope touches no grant, and deleting one takes only that scope from the grants.
LEMMA ScopesTyped ==
  ASSUME AccessTypeOK, NEW s \in Scopes, CreateScope(s) \/ DeleteScope(s)
  PROVE  /\ AccessTypeOK'
         /\ Numbered => Numbered'
         /\ \A e \in Emails : direct'[e].grants \in {direct[e].grants, direct[e].grants \ {s}}
<1>1. changes' \in 0 .. MaxChanges /\ scopes' \subseteq Scopes
  BY ChangeCounts DEF CreateScope, DeleteScope, AccessTypeOK
<1>2. CASE CreateScope(s)
  BY <1>1, <1>2 DEF AccessTypeOK, CreateScope, Numbered
<1>3. CASE DeleteScope(s)
  <2> DEFINE row(e) == IF s \in direct[e].grants
                       THEN [version |-> direct[e].version + 1, grants |-> direct[e].grants \ {s}]
                       ELSE direct[e]
             left(pg) == [group[pg] EXCEPT !.grants = @ \ {s}]
  <2>1. ASSUME NEW e \in Emails
        PROVE  /\ row(e) \in Assignment
               /\ row(e).grants \in {direct[e].grants, direct[e].grants \ {s}}
               /\ (row(e).version = direct[e].version /\ row(e).grants = direct[e].grants)
                  \/ row(e).version > 0
    <3>1. direct[e] \in Assignment /\ direct[e].version \in Nat
      BY DEF AccessTypeOK, Assignment
    <3> QED
      BY <3>1 DEF Assignment
  <2>2. ASSUME NEW pg \in Providers \X Groups
        PROVE  left(pg) \in GroupRow
    <3>1. group[pg] \in GroupRow
      BY DEF AccessTypeOK
    <3> QED
      BY <3>1 DEF GroupRow
  <2>3. direct' = [e \in Emails |-> row(e)] /\ group' = [pg \in Providers \X Groups |-> left(pg)]
    BY <1>3 DEF DeleteScope
  <2> HIDE DEF row, left
  <2>4. direct' \in [Emails -> Assignment] /\ group' \in [Providers \X Groups -> GroupRow]
    BY <2>1, <2>2, <2>3
  <2>5. AccessTypeOK'
    BY <1>1, <1>3, <2>4 DEF AccessTypeOK, DeleteScope
  <2>6. Numbered => Numbered'
    BY <2>1, <2>3 DEF Numbered
  <2> QED
    BY <2>1, <2>3, <2>5, <2>6
<1> QED
  BY <1>2, <1>3

\* The last administrator who can sign in is not removed.
LEMMA AssignmentSaved ==
  ASSUME AccessTypeOK, IsFiniteSet(verified), Numbered, AdministratorRemains,
         NEW f \in Forms, SaveAssignment(f)
  PROVE  AccessTypeOK' /\ Numbered' /\ AdministratorRemains'
<1> DEFINE e == form[f].email
<1>1. e \in Emails /\ changes' \in 0 .. MaxChanges
  BY FormTyped, ChangeCounts DEF SaveAssignment
<1>2. PICK keys \in SUBSET Known :
        keys # direct[e].grants /\ ~LastAdministrator(e, keys) /\ Saved(e, keys)
  BY DEF SaveAssignment
<1>3. keys \in SUBSET Keys
  BY KnownKeys
<1>v. verified' = verified /\ form' = [form EXCEPT ![f] = NoForm]
      /\ UNCHANGED <<scopes, provider, group, resource, unseen, skill>>
  BY DEF SaveAssignment
<1> HIDE DEF e
<1>4. PICK row : RowMade(e, row) /\ row.grants = keys
  BY <1>1, <1>2, <1>3, SavedRow
<1>5. /\ direct' \in [Emails -> Assignment] /\ direct'[e].grants = keys
      /\ (direct'[e].grants # {} => direct'[e].version > 0)
      /\ \A x \in Emails \ {e} : direct'[x] = direct[x]
  BY <1>1, <1>4 DEF RowMade, AccessTypeOK
<1>6. form' \in [Forms -> Form]
  BY <1>v, EmptyRows DEF AccessTypeOK
<1>7. AccessTypeOK'
  BY <1>1, <1>5, <1>6, <1>v DEF AccessTypeOK
<1>8. Numbered'
  BY <1>5 DEF Numbered
<1>9. AdministratorRemains'
  <2>1. \A x \in Administrators \ {e} : x \in Administrators'
    BY <1>5, <1>v DEF Administrators, AdministratorsIn, AccessTypeOK
  <2>2. CASE Admin \in direct[e].grants \ keys
    <3>1. Cardinality(Administrators) > 1
      <4>1. ~(Cardinality(Administrators) <= 1)
        BY <1>2, <2>2 DEF LastAdministrator
      <4>2. IsFiniteSet(Administrators)
        BY FS_Subset DEF Administrators, AdministratorsIn
      <4>3. Cardinality(Administrators) \in Nat
        BY <4>2, FS_CardinalityType
      <4> QED
        BY <4>1, <4>3
    <3>2. Administrators # {e}
      <4>1. Cardinality({e}) = 1
        BY FS_Singleton
      <4> QED
        BY <3>1, <4>1
    <3>3. PICK x \in Administrators : x # e
      BY <3>2 DEF AdministratorRemains
    <3> QED
      BY <2>1, <3>3 DEF AdministratorRemains
  <2>3. CASE Admin \notin direct[e].grants \ keys
    <3>1. e \in Administrators => e \in Administrators'
      BY <1>1, <1>5, <1>v, <2>3 DEF Administrators, AdministratorsIn
    <3> QED
      BY <2>1, <3>1 DEF AdministratorRemains
  <2> QED
    BY <2>2, <2>3
<1> QED
  BY <1>7, <1>8, <1>9

\* Opening and closing a form touches no row.
LEMMA FormsTyped ==
  ASSUME AccessTypeOK, NEW f \in Forms, CloseForm(f) \/ \E e \in Emails : OpenForm(f, e)
  PROVE  AccessTypeOK' /\ UNCHANGED <<scopes, verified, direct>>
<1>1. CASE CloseForm(f)
  BY <1>1, EmptyRows DEF CloseForm, AccessTypeOK
<1>2. ASSUME NEW e \in Emails, OpenForm(f, e)
      PROVE  AccessTypeOK' /\ UNCHANGED <<scopes, verified, direct>>
  <2>1. [email |-> e, expected |-> direct[e].version, shown |-> direct[e].grants] \in Form
    BY DEF AccessTypeOK, Form, Assignment
  <2> QED
    BY <1>2, <2>1 DEF OpenForm, AccessTypeOK
<1> QED
  BY <1>1, <1>2

\* A sign-in only adds an address.
LEMMA VerifyTyped ==
  ASSUME AccessTypeOK, NEW e \in Emails, Verify(e)
  PROVE  RowsKept /\ UNCHANGED <<scopes, direct>>
<1>1. changes' \in 0 .. MaxChanges
  BY ChangeCounts DEF Verify
<1>2. IsFiniteSet(verified) => IsFiniteSet(verified')
  BY FS_AddElement DEF Verify
<1> QED
  BY <1>1, <1>2 DEF Verify, AccessTypeOK, RowsKept

\* Whatever administrators do, their tables stay in order and one of them remains.
LEMMA AdministrationKeeps ==
  ASSUME AccessTypeOK, IsFiniteSet(verified), Numbered, AdministratorRemains, Administration
  PROVE  RowsKept /\ Numbered' /\ AdministratorRemains'
<1>same. ASSUME AccessTypeOK', UNCHANGED <<verified, direct>>
         PROVE  RowsKept /\ Numbered' /\ AdministratorRemains'
  BY <1>same DEF RowsKept, Numbered, AdministratorRemains, Administrators
<1>1. ASSUME NEW s \in Scopes, CreateScope(s) \/ DeleteScope(s)
      PROVE  RowsKept /\ Numbered' /\ AdministratorRemains'
  <2>1. /\ AccessTypeOK' /\ Numbered'
        /\ \A e \in Emails : direct'[e].grants \in {direct[e].grants, direct[e].grants \ {s}}
    BY <1>1, ScopesTyped
  <2>2. verified' = verified
    BY <1>1 DEF CreateScope, DeleteScope
  <2>3. s # Admin
    BY AdminIsSystem
  <2>4. \A e \in Administrators : e \in Administrators'
    BY <2>1, <2>2, <2>3 DEF Administrators, AdministratorsIn, AccessTypeOK
  <2> QED
    BY <2>1, <2>2, <2>4 DEF RowsKept, AdministratorRemains
<1>2. ASSUME NEW k \in Skills, SaveSkill(k) \/ DeleteSkill(k)
      PROVE  RowsKept /\ Numbered' /\ AdministratorRemains'
  BY <1>2, <1>same, SkillsTyped DEF SaveSkill, DeleteSkill
<1>3. ASSUME NEW r \in Resources, SaveResource(r) \/ DeleteResource(r)
      PROVE  RowsKept /\ Numbered' /\ AdministratorRemains'
  BY <1>3, <1>same, ResourcesTyped DEF SaveResource, DeleteResource
<1>4. ASSUME NEW f \in Forms, SaveAssignment(f)
      PROVE  RowsKept /\ Numbered' /\ AdministratorRemains'
  <2>1. verified' = verified
    BY <1>4 DEF SaveAssignment
  <2> QED
    BY <1>4, <2>1, AssignmentSaved DEF RowsKept
<1>5. ASSUME NEW f \in Forms, CloseForm(f) \/ \E e \in Emails : OpenForm(f, e)
      PROVE  RowsKept /\ Numbered' /\ AdministratorRemains'
  BY <1>5, <1>same, FormsTyped
<1>6. ASSUME NEW e \in Emails, Verify(e)
      PROVE  RowsKept /\ Numbered' /\ AdministratorRemains'
  <2>1. RowsKept /\ UNCHANGED direct
    BY <1>6, VerifyTyped
  <2>2. \A x \in Administrators : x \in Administrators'
    BY <2>1 DEF RowsKept, Administrators, AdministratorsIn
  <2> QED
    BY <2>1, <2>2 DEF Numbered, AdministratorRemains
<1>7. ASSUME NEW p \in Providers, CreateProvider(p) \/ SaveProvider(p) \/ RemoveProvider(p)
      PROVE  RowsKept /\ Numbered' /\ AdministratorRemains'
  BY <1>7, <1>same, ProvidersTyped DEF CreateProvider, SaveProvider, RemoveProvider
<1>8. ASSUME NEW p \in Providers, NEW g \in Groups, SaveGroup(p, g) \/ DeleteGroup(p, g)
      PROVE  RowsKept /\ Numbered' /\ AdministratorRemains'
  BY <1>8, <1>same, GroupsTyped DEF SaveGroup, DeleteGroup
<1> QED
  BY <1>1, <1>2, <1>3, <1>4, <1>5, <1>6, <1>7, <1>8 DEF Administration
--------------------------------------------------------------------------------
(* Bindings follow the rows *)

\* The tombstone of a live binding.
LEMMA Buried ==
  ASSUME NEW b \in Binding, b.live
  PROVE  /\ [b EXCEPT !.live = FALSE] \in Binding
         /\ [b EXCEPT !.live = FALSE].identity = b.identity
         /\ ~[b EXCEPT !.live = FALSE].live
<1>1. b \in [identity : Scopes \cup Emails, live : BOOLEAN]
  BY NotBoundFacts DEF Binding
<1>2. [b EXCEPT !.live = FALSE] \in [identity : Scopes \cup Emails, live : BOOLEAN]
  BY <1>1
<1>3. [b EXCEPT !.live = FALSE].identity = b.identity
  BY <1>1
<1>4. ~[b EXCEPT !.live = FALSE].live
  BY <1>1, Zenon
<1> QED
  BY <1>2, <1>3, <1>4 DEF Binding

\* A binding is live only while its row exists, because every mutation leaves tombstones.
LEMMA TombstonesKeep ==
  ASSUME Bound, AccessTypeOK', Tombstones, revision' = revision
  PROVE  Bound'
<1> DEFINE id(a) == binding[a].identity
           gone(a) == IF a \in ScopeAddresses THEN id(a) \notin scopes' ELSE direct'[id(a)].version = 0
           dead(a) == [binding[a] EXCEPT !.live = FALSE]
<1>0. ASSUME NEW a \in Addresses
      PROVE  /\ binding[a] \in Binding
             /\ binding[a].live => id(a) \in (IF a \in ScopeAddresses THEN Scopes ELSE Emails)
  BY NotBoundFacts DEF Bound
<1>1. binding' = [a \in Addresses |-> IF binding[a].live /\ gone(a) THEN dead(a) ELSE binding[a]]
  BY DEF Tombstones
<1>2. \A a \in Addresses : binding[a].live =>
        dead(a) \in Binding /\ dead(a).identity = id(a) /\ ~dead(a).live
  BY <1>0, Buried
<1> HIDE DEF dead
<1>3. ASSUME NEW a \in Addresses
      PROVE  /\ binding'[a] \in Binding
             /\ binding'[a].identity = id(a)
             /\ binding'[a] # NoBinding => binding[a] # NoBinding
             /\ binding'[a].live => binding[a].live /\ ~gone(a)
  <2>1. CASE binding[a].live /\ gone(a)
    <3>1. binding'[a] = dead(a)
      BY <1>1, <2>1
    <3> QED
      BY <1>2, <2>1, <3>1, NotBoundFacts
  <2>2. CASE ~(binding[a].live /\ gone(a))
    <3>1. binding'[a] = binding[a]
      BY <1>1, <2>2
    <3> QED
      BY <1>0, <2>2, <3>1
  <2> QED
    BY <2>1, <2>2
<1>4. ASSUME NEW a \in Addresses, binding'[a].live
      PROVE  LiveExists(a, binding[a].identity)'
  <2>1. binding[a].live /\ ~gone(a) /\ binding'[a].identity = id(a)
    BY <1>3, <1>4
  <2>2. CASE a \in ScopeAddresses
    BY <2>1, <2>2 DEF LiveExists
  <2>3. CASE a \notin ScopeAddresses
    <3>1. id(a) \in Emails
      BY <1>0, <2>1, <2>3
    <3>2. direct'[id(a)].version \in Nat
      BY <3>1 DEF AccessTypeOK, Assignment
    <3> QED
      BY <2>1, <2>3, <3>2 DEF LiveExists
  <2> QED
    BY <2>2, <2>3
<1>5. binding' \in [Addresses -> Binding]
  <2>1. binding' = [a \in Addresses |-> binding'[a]]
    BY <1>1
  <2> QED
    BY <1>3, <2>1
<1>6. \A a \in Addresses : binding'[a] # NoBinding =>
        binding'[a].identity \in (IF a \in ScopeAddresses THEN Scopes ELSE Emails)
  BY <1>3 DEF Bound
<1> HIDE DEF id, gone
<1>7. \A a, b \in Addresses :
       /\ binding'[a].live /\ binding'[b].live
       /\ binding'[a].identity = binding'[b].identity
       /\ a \in ScopeAddresses <=> b \in ScopeAddresses
       => a = b
  BY <1>3 DEF Bound, id
<1> QED
  BY <1>4, <1>5, <1>6, <1>7 DEF Bound
--------------------------------------------------------------------------------
(* Bindings that users change, and plans that are made *)

\* The bindings of a state in which what is said of them holds.
BoundAs(b) ==
  /\ b \in [Addresses -> Binding]
  /\ \A a \in Addresses : b[a] # NoBinding =>
       b[a].identity \in (IF a \in ScopeAddresses THEN Scopes ELSE Emails)
  /\ \A a \in Addresses : b[a].live => LiveExists(a, b[a].identity)
  /\ \A a, c \in Addresses :
       /\ b[a].live /\ b[c].live
       /\ b[a].identity = b[c].identity
       /\ a \in ScopeAddresses <=> c \in ScopeAddresses
       => a = c

\* Bindings that are in order may replace the present ones.
LEMMA RebindKeeps ==
  ASSUME Bound, NEW b, BoundAs(b), Rebind(b)
  PROVE  Bound'
<1>1. binding' = b /\ revision' = revision + 1 /\ scopes' = scopes /\ direct' = direct
  BY DEF Rebind, accessVars
<1>2. \A a, id : LiveExists(a, id)' = LiveExists(a, id)
  BY <1>1 DEF LiveExists
<1>3. revision' \in Nat
  BY <1>1 DEF Bound
<1> QED
  BY <1>1, <1>2, <1>3 DEF Bound, BoundAs

\* An import binds an object that exists and is bound nowhere.
LEMMA ImportKeeps ==
  ASSUME Bound, AccessTypeOK, NEW a \in Addresses, Import(a)
  PROVE  Bound'
<1>1. PICK id \in IF a \in ScopeAddresses THEN scopes ELSE Emails :
        /\ Exists(Tables, a, id)
        /\ \A b \in Addresses : binding[b] # [identity |-> id, live |-> TRUE]
        /\ Rebind([binding EXCEPT ![a] = [identity |-> id, live |-> TRUE]])
  BY DEF Import
<1> DEFINE b == [binding EXCEPT ![a] = LiveAt(id)]
<1>2. id \in (IF a \in ScopeAddresses THEN Scopes ELSE Emails) /\ id \in Scopes \cup Emails
  BY DEF AccessTypeOK
<1>3. LiveAt(id) \in Binding /\ LiveAt(id).identity = id
  BY <1>2, LiveFacts
<1>4. LiveExists(a, id)
  BY <1>1 DEF Exists, LiveExists, Tables
<1>5. \A x \in Addresses : binding[x] # LiveAt(id) /\ binding[x] \in Binding
  BY <1>1 DEF LiveAt, Bound
<1>6. Rebind(b)
  BY <1>1 DEF LiveAt
<1>7. \A x \in Addresses : binding[x].live => binding[x].identity # id
  BY <1>5, BindingFacts, NotBoundFacts
<1>8. /\ b \in [Addresses -> Binding] /\ b[a] = LiveAt(id)
      /\ \A x \in Addresses \ {a} : b[x] = binding[x]
  BY <1>3 DEF Bound
<1> HIDE DEF b
<1>9. BoundAs(b)
  BY <1>2, <1>3, <1>4, <1>7, <1>8 DEF BoundAs, Bound
<1> QED
  BY <1>6, <1>9, RebindKeeps

\* Unmanaging releases one address.
LEMMA UnmanageKeeps ==
  ASSUME Bound, NEW a \in Addresses, Unmanage(a)
  PROVE  Bound'
<1> DEFINE b == [binding EXCEPT ![a] = NoBinding]
<1>1. Rebind(b)
  BY DEF Unmanage
<1>2. /\ b \in [Addresses -> Binding] /\ b[a] = NoBinding
      /\ \A x \in Addresses \ {a} : b[x] = binding[x]
  BY DEF Bound, Binding
<1> HIDE DEF b
<1>3. BoundAs(b)
  BY <1>2, NotBoundFacts DEF BoundAs, Bound
<1> QED
  BY <1>1, <1>3, RebindKeeps

\* A move takes a binding to a free address of the same kind.
LEMMA MoveStateKeeps ==
  ASSUME Bound, NEW a \in Addresses, NEW c \in Addresses, MoveState(a, c)
  PROVE  Bound'
<1> DEFINE b == [binding EXCEPT ![a] = NoBinding, ![c] = binding[a]]
<1>1. /\ Rebind(b) /\ a # c
      /\ a \in ScopeAddresses <=> c \in ScopeAddresses
  BY DEF MoveState
<1>2. /\ b \in [Addresses -> Binding] /\ b[a] = NoBinding /\ b[c] = binding[a]
      /\ \A x \in Addresses \ {a, c} : b[x] = binding[x]
  BY <1>1 DEF Bound, Binding
<1> HIDE DEF b
<1>3. \A id : LiveExists(a, id) => LiveExists(c, id)
  BY <1>1 DEF LiveExists
<1>4. BoundAs(b)
  <2>1. \A x \in Addresses : b[x] # NoBinding =>
          b[x].identity \in (IF x \in ScopeAddresses THEN Scopes ELSE Emails)
    BY <1>1, <1>2 DEF Bound
  <2>2. \A x \in Addresses : b[x].live => LiveExists(x, b[x].identity)
    BY <1>1, <1>2, <1>3, NotBoundFacts DEF Bound
  <2>3. ASSUME NEW x \in Addresses, NEW y \in Addresses, b[x].live, b[y].live,
               b[x].identity = b[y].identity, x \in ScopeAddresses <=> y \in ScopeAddresses
        PROVE  x = y
    <3>1. x # a /\ y # a
      BY <1>2, <2>3, NotBoundFacts
    <3> DEFINE from(z) == IF z = c THEN a ELSE z
    <3>2. /\ from(x) \in Addresses /\ from(y) \in Addresses
          /\ b[x] = binding[from(x)] /\ b[y] = binding[from(y)]
          /\ from(x) \in ScopeAddresses <=> from(y) \in ScopeAddresses
      BY <1>1, <1>2, <2>3, <3>1
    <3>3. from(x) = from(y)
      <4> HIDE DEF from
      <4> QED
        BY <2>3, <3>2 DEF Bound
    <3> QED
      BY <3>1, <3>3
  <2> QED
    BY <1>2, <2>1, <2>2, <2>3 DEF BoundAs
<1> QED
  BY <1>1, <1>4, RebindKeeps

\* A transaction that reads the tables finds them in order.
LEMMA TablesInOrder ==
  ASSUME AccessTypeOK, Numbered, Bound
  PROVE  InOrder(Tables) /\ Tables.verified = verified
<1>1. /\ Tables.scopes = scopes /\ Tables.verified = verified /\ Tables.direct = direct
      /\ Tables.binding = binding
  BY DEF Tables
<1>2. Tables \in Table
  BY DEF Tables, Table, AccessTypeOK, Bound
<1>3. ~Tables.failed
  BY Zenon DEF Tables
<1>4. RowsInOrder(Tables)
  BY <1>1 DEF RowsInOrder, Numbered, Bound
<1>5. BoundOnce(Tables)
  BY <1>1 DEF BoundOnce, Bound, Exists, LiveExists
<1> QED
  BY <1>1, <1>2, <1>3, <1>4, <1>5 DEF InOrder

\* An assignment that a plan rewrites and that exists is bound in the tables it works on.
LEMMA TouchedLive ==
  ASSUME NEW m, NEW t, PlanFits(m, t), NEW e \in Emails \cap Touched(m, t),
         t.direct[e].version > 0
  PROVE  \E a \in AssignmentAddresses : t.binding[a] = LiveAt(e)
<1>1. CASE e \in Identities(m, Assignments(m))
  <2>1. PICK a \in Assignments(m) : e = m[a].identity
    BY <1>1 DEF Identities
  <2>2. /\ a \in AssignmentAddresses /\ a \in Addresses /\ a \notin ScopeAddresses
        /\ Declares(m, a)
    BY AddressesHaveOneKind DEF Assignments, Declared, Addresses
  <2>3. Exists(t, a, m[a].identity)
    BY <2>1, <2>2 DEF Exists
  <2> QED
    BY <2>1, <2>2, <2>3, DeclaredFits
<1>2. CASE e \in Identities(t.binding, LiveAssignments(t))
  <2>1. PICK a \in LiveAssignments(t) : e = t.binding[a].identity
    BY <1>2 DEF Identities
  <2>2. a \in AssignmentAddresses /\ a \in Addresses /\ t.binding[a].live
    BY DEF LiveAssignments, Addresses
  <2>3. t.binding[a] \in Binding
    BY <2>2, TableFields DEF PlanFits, InOrder
  <2> QED
    BY <2>1, <2>2, <2>3, BindingFacts, NotBoundFacts
<1> QED
  BY <1>1, <1>2 DEF Touched
--------------------------------------------------------------------------------
(* A plan that is committed *)

\* What a plan that did not fail leaves behind in the tables it works on.
Outcome(m, t, r) ==
  /\ Underway(m, t, r) /\ NothingElse(m, r) /\ Connected(m, Assignments(m), r)
  /\ \A b \in Declared(m, ScopeAddresses) :
       r.binding[b] = LiveAt(m[b].identity) /\ m[b].identity \in r.scopes

\* The transaction commits it over what others committed while it waited.
Commits(t, r) ==
  /\ ~Conflict(t, r)
  /\ scopes' = (scopes \ (t.scopes \ r.scopes)) \cup (r.scopes \ t.scopes)
  /\ direct' = [e \in Emails |-> IF r.direct[e] # t.direct[e] THEN r.direct[e] ELSE direct[e]]
  /\ binding' = r.binding
  /\ revision' = revision + 1
  /\ UNCHANGED <<verified, provider, group, resource, unseen, skill, form, changes>>

\* A commit writes the rows that the plan changed, none of which others changed since its
\* snapshot, and leaves the others.
LEMMA CommittedRows ==
  ASSUME NEW m, NEW t, NEW r, PlanFits(m, t), Outcome(m, t, r), Commits(t, r),
         AccessTypeOK, Numbered, Bound
  PROVE  /\ AccessTypeOK' /\ Numbered' /\ binding = t.binding
         /\ \A e \in Emails :
              \/ direct'[e] = direct[e] /\ r.direct[e] = t.direct[e]
              \/ /\ e \in Written(t, r) \cap Touched(m, t)
                 /\ direct[e] = t.direct[e] /\ direct'[e] = r.direct[e]
<1>0. Sound(r) /\ r \in Table /\ t \in Table
  BY DEF Outcome, Underway, Sound, PlanFits, InOrder
<1>1. binding = t.binding /\ \A e \in Written(t, r) : direct[e] = t.direct[e]
  BY DEF Commits, Conflict, RowConflict
<1>2. ASSUME NEW e \in Emails
      PROVE  \/ direct'[e] = direct[e] /\ r.direct[e] = t.direct[e]
             \/ /\ e \in Written(t, r) \cap Touched(m, t)
                /\ direct[e] = t.direct[e] /\ direct'[e] = r.direct[e]
  <2>1. direct'[e] = IF r.direct[e] # t.direct[e] THEN r.direct[e] ELSE direct[e]
    BY DEF Commits
  <2>2. r.direct[e] # t.direct[e] => e \in Written(t, r) \cap Touched(m, t)
    BY DEF Written, Outcome, Underway
  <2> QED
    BY <1>1, <2>1, <2>2
<1>3. ASSUME NEW e \in Emails
      PROVE  direct'[e] \in Assignment /\ (direct'[e].grants # {} => direct'[e].version > 0)
  BY <1>0, <1>2, TableFields DEF AccessTypeOK, Numbered, Sound, RowsInOrder
<1>4. direct' \in [Emails -> Assignment]
  <2>1. direct' = [e \in Emails |-> direct'[e]]
    BY DEF Commits
  <2> QED
    BY <1>3, <2>1
<1>5. scopes' \subseteq Scopes
  BY <1>0, TableFields DEF Commits, AccessTypeOK
<1>6. AccessTypeOK'
  BY <1>4, <1>5 DEF AccessTypeOK, Commits
<1>7. Numbered'
  BY <1>3 DEF Numbered
<1> QED
  BY <1>1, <1>2, <1>6, <1>7

\* Where the addresses are bound then.
LEMMA OutcomeBindings ==
  ASSUME NEW m, NEW t, NEW r, PlanFits(m, t), Outcome(m, t, r), NEW a \in Addresses
  PROVE  /\ ~Declares(m, a) => r.binding[a] = NoBinding
         /\ Declares(m, a) => r.binding[a] = LiveAt(m[a].identity)
         /\ Declares(m, a) /\ a \notin ScopeAddresses =>
              /\ a \in AssignmentAddresses /\ m[a].identity \in Emails /\ m[a].keys # {}
              /\ r.direct[m[a].identity].grants = m[a].keys
<1>1. CASE a \in ScopeAddresses
  BY <1>1 DEF Outcome, NothingElse, Declared
<1>2. CASE a \notin ScopeAddresses
  <2>1. a \in AssignmentAddresses
    BY <1>2 DEF Addresses
  <2> QED
    BY <1>2, <2>1, ManifestFacts DEF Outcome, NothingElse, Connected, Assignments, Declared, PlanFits
<1> QED
  BY <1>1, <1>2

\* Every declared object exists after the commit, also one that the plan did not write.
LEMMA CommittedObjects ==
  ASSUME NEW m, NEW t, NEW r, PlanFits(m, t), Outcome(m, t, r), Commits(t, r),
         AccessTypeOK, Numbered, Bound, NEW a \in Addresses, Declares(m, a)
  PROVE  LiveExists(a, m[a].identity)'
<1> DEFINE id == m[a].identity
<1>1. binding = t.binding
  BY CommittedRows
<1>2. ASSUME Exists(t, a, id)
      PROVE  LiveExists(a, id)
  <2>1. binding[a] = LiveAt(id)
    BY <1>1, <1>2, DeclaredFits
  <2>2. binding[a].live /\ binding[a].identity = id
    BY <2>1 DEF LiveAt
  <2> QED
    BY <2>2 DEF Bound
<1>3. CASE a \in ScopeAddresses
  <2>1. id \in r.scopes
    BY <1>3 DEF Outcome, Declared
  <2>2. id \in scopes'
    BY <1>2, <1>3, <2>1 DEF Commits, Exists, LiveExists
  <2> QED
    BY <1>3, <2>2 DEF LiveExists
<1>4. CASE a \notin ScopeAddresses
  <2>1. id \in Emails /\ r.direct[id].grants # {}
    BY <1>4, OutcomeBindings
  <2>2. r.direct[id].version > 0
    BY <2>1 DEF Outcome, Underway, Sound, RowsInOrder
  <2>3. CASE direct'[id] = direct[id] /\ r.direct[id] = t.direct[id]
    <3>1. direct[id].version > 0
      BY <1>2, <1>4, <2>2, <2>3 DEF Exists, LiveExists
    <3> QED
      BY <1>4, <2>3, <3>1 DEF LiveExists
  <2>4. CASE direct'[id] = r.direct[id]
    BY <1>4, <2>2, <2>4 DEF LiveExists
  <2> QED
    BY <2>1, <2>3, <2>4, CommittedRows
<1> QED
  BY <1>3, <1>4

\* After the commit every binding is one of the manifest.
LEMMA CommittedBindings ==
  ASSUME NEW m, NEW t, NEW r, PlanFits(m, t), Outcome(m, t, r), Commits(t, r),
         AccessTypeOK, Numbered, Bound
  PROVE  Bound'
<1>0. m \in Manifests /\ r \in Table
  BY DEF PlanFits, Outcome, Underway, Sound
<1>1. ASSUME NEW a \in Addresses
      PROVE  /\ binding'[a] = r.binding[a]
             /\ binding'[a].live => Declares(m, a) /\ binding'[a].identity = m[a].identity
             /\ binding'[a] # NoBinding =>
                  binding'[a].identity \in (IF a \in ScopeAddresses THEN Scopes ELSE Emails)
  <2>1. binding'[a] = r.binding[a]
    BY DEF Commits
  <2>2. ASSUME binding'[a].live
        PROVE  Declares(m, a) /\ binding'[a].identity = m[a].identity
    <3>1. Declares(m, a)
      BY <2>1, <2>2, OutcomeBindings, NotBoundFacts
    <3>2. binding'[a] = LiveAt(m[a].identity)
      BY <2>1, <3>1, OutcomeBindings
    <3> QED
      BY <3>1, <3>2 DEF LiveAt
  <2> QED
    BY <2>1, <2>2 DEF Outcome, Underway, Sound, RowsInOrder
<1>2. ASSUME NEW a \in Addresses, binding'[a].live
      PROVE  LiveExists(a, binding[a].identity)'
  <2>1. Declares(m, a) /\ binding'[a].identity = m[a].identity
    BY <1>1, <1>2
  <2>2. LiveExists(a, m[a].identity)'
    BY <2>1, CommittedObjects
  <2> QED
    BY <2>1, <2>2 DEF LiveExists
<1>3. ASSUME NEW a \in Addresses, NEW b \in Addresses, binding'[a].live, binding'[b].live,
             binding'[a].identity = binding'[b].identity
      PROVE  a = b
  BY <1>0, <1>1, <1>3, ManifestFacts
<1>4. binding' \in [Addresses -> Binding] /\ revision' \in Nat
  BY <1>0, TableFields DEF Commits, Bound
<1> QED
  BY <1>1, <1>2, <1>3, <1>4 DEF Bound

\* Whoever the plan leaves as an administrator is one, or the transaction did not miss
\* a save that took it away.
LEMMA CommittedAdministrator ==
  ASSUME NEW m, NEW t, NEW r, PlanFits(m, t), Outcome(m, t, r), Commits(t, r),
         AccessTypeOK, Numbered, Bound, AdministratorRemains,
         AdministratorSafe(m, t), t.verified \subseteq verified
  PROVE  AdministratorRemains'
<1> DEFINE managed == {t.binding[a].identity : a \in {x \in AssignmentAddresses : t.binding[x].live}}
           desired == {m[a].identity : a \in {x \in AssignmentAddresses : Admin \in m[x].keys}}
<1>0. m \in Manifests /\ verified' = verified /\ t \in Table
  BY DEF PlanFits, InOrder, Commits
<1>1. PICK w : w \in (AdministratorsIn(t.verified, t.direct) \ managed) \cup (desired \cap t.verified)
  BY DEF AdministratorSafe
<1>2. w \in t.verified /\ w \in verified /\ w \in Emails
  BY <1>0, <1>1, TableFields DEF AdministratorsIn
<1>3. Admin \in r.direct[w].grants
  <2>1. CASE w \in desired
    <3>1. PICK a \in AssignmentAddresses : Admin \in m[a].keys /\ w = m[a].identity
      BY <2>1
    <3>2. a \in Addresses /\ a \notin ScopeAddresses /\ Declares(m, a)
      BY <1>0, <3>1, AddressesHaveOneKind, ManifestFacts DEF Addresses
    <3> QED
      BY <3>1, <3>2, OutcomeBindings
  <2>2. CASE w \in AdministratorsIn(t.verified, t.direct) \ managed
    <3>1. Admin \in t.direct[w].grants
      BY <2>2 DEF AdministratorsIn
    <3>2. t.direct[w].version > 0
      BY <1>2, <3>1 DEF PlanFits, InOrder, RowsInOrder
    <3>3. w \notin Touched(m, t)
      <4> SUFFICES ASSUME w \in Touched(m, t) PROVE FALSE
        OBVIOUS
      <4>1. PICK a \in AssignmentAddresses : t.binding[a] = LiveAt(w)
        BY <1>2, <3>2, TouchedLive
      <4>2. t.binding[a].live /\ t.binding[a].identity = w
        BY <4>1 DEF LiveAt
      <4> QED
        BY <2>2, <4>2
    <3>4. r.direct[w] = t.direct[w]
      BY <1>2, <3>3 DEF Outcome, Underway
    <3> QED
      BY <3>1, <3>4
  <2> QED
    BY <1>1, <2>1, <2>2
<1>4. CASE Admin \in direct'[w].grants
  BY <1>0, <1>2, <1>4 DEF AdministratorRemains, Administrators, AdministratorsIn
<1>5. CASE Admin \notin direct'[w].grants
  <2>1. Admin \in t.direct[w].grants \ direct[w].grants
    BY <1>2, <1>3, <1>5, CommittedRows
  <2>2. \A e \in Written(t, r) : Admin \notin t.direct[e].grants
    BY <1>2, <2>1 DEF Commits, Conflict, ReadConflict
  <2>3. PICK c \in verified : c \in Emails /\ Admin \in direct[c].grants
    BY DEF AdministratorRemains, Administrators, AdministratorsIn, AccessTypeOK
  <2>4. Admin \in direct'[c].grants
    BY <2>2, <2>3, CommittedRows
  <2> QED
    BY <1>0, <2>3, <2>4 DEF AdministratorRemains, Administrators, AdministratorsIn
<1> QED
  BY <1>4, <1>5

\* The properties of the step.
LEMMA CommittedAsSeen ==
  ASSUME NEW m, NEW t, NEW r, PlanFits(m, t), Outcome(m, t, r), Commits(t, r),
         AccessTypeOK, Numbered, Bound,
         NEW e \in Emails, direct'[e] # direct[e], direct[e].version > 0
  PROVE  \E a \in AssignmentAddresses :
           /\ binding[a] = [identity |-> e, live |-> TRUE]
           /\ PlanOf(m, t).actions[a].observed = direct[e].version
<1>1. /\ e \in Touched(m, t) /\ direct[e] = t.direct[e] /\ binding = t.binding
  BY CommittedRows
<1>2. PICK a \in AssignmentAddresses : t.binding[a] = LiveAt(e)
  BY <1>1, TouchedLive
<1>3. a \in Addresses /\ a \notin ScopeAddresses
  BY AddressesHaveOneKind DEF Addresses
<1>4. t.binding[a].live /\ t.binding[a].identity = e
  BY <1>2 DEF LiveAt
<1>5. Version(t, a) = t.direct[e].version
  BY <1>3, <1>4 DEF Version
<1>6. PlanOf(m, t).actions[a].observed = Version(t, a)
  BY <1>3 DEF PlanOf
<1> QED
  BY <1>1, <1>2, <1>5, <1>6 DEF LiveAt

\* After the commit every address is as declared.
LEMMA CommittedAsDeclared ==
  ASSUME NEW m, NEW t, NEW r, PlanFits(m, t), Outcome(m, t, r), Commits(t, r),
         AccessTypeOK, Numbered, Bound, NEW a \in Addresses
  PROVE  IF m[a] = Undeclared THEN binding'[a] = NoBinding
         ELSE /\ binding'[a] = [identity |-> m[a].identity, live |-> TRUE]
              /\ IF a \in ScopeAddresses THEN m[a].identity \in scopes'
                 ELSE \/ direct'[m[a].identity].grants = m[a].keys
                      \/ direct[m[a].identity] # t.direct[m[a].identity]
<1>1. binding'[a] = r.binding[a]
  BY DEF Commits
<1>2. CASE ~Declares(m, a)
  BY <1>1, <1>2, OutcomeBindings DEF Declares
<1>3. CASE Declares(m, a)
  <2>1. binding'[a] = [identity |-> m[a].identity, live |-> TRUE]
    BY <1>1, <1>3, OutcomeBindings DEF LiveAt
  <2>2. CASE a \in ScopeAddresses
    <3>1. LiveExists(a, m[a].identity)'
      BY <1>3, CommittedObjects
    <3> QED
      BY <1>3, <2>1, <2>2, <3>1 DEF LiveExists, Declares
  <2>3. CASE a \notin ScopeAddresses
    <3>1. m[a].identity \in Emails /\ r.direct[m[a].identity].grants = m[a].keys
      BY <1>3, <2>3, OutcomeBindings
    <3>2. \/ direct'[m[a].identity].grants = m[a].keys
          \/ direct[m[a].identity] # t.direct[m[a].identity]
      BY <3>1, CommittedRows
    <3> QED
      BY <1>3, <2>1, <2>3, <3>2 DEF Declares
  <2> QED
    BY <2>2, <2>3
<1> QED
  BY <1>2, <1>3
--------------------------------------------------------------------------------
(* The invariant of the tables and the runs, and what an applied plan did *)

\* The record of a run that has a plan.
LEMMA PlannedRun ==
  ASSUME NEW m, NEW plan
  PROVE  [NoRun EXCEPT !.pc = "planned", !.manifest = m, !.plan = plan]
         = [pc |-> "planned", manifest |-> m, plan |-> plan, snapshot |-> None]
<1> DEFINE a == [pc |-> "planned", manifest |-> None, plan |-> None, snapshot |-> None]
           b == [pc |-> "planned", manifest |-> m, plan |-> None, snapshot |-> None]
<1>1. [NoRun EXCEPT !.pc = "planned"] = a
  BY DEF NoRun
<1>2. [a EXCEPT !.manifest = m] = b
  OBVIOUS
<1>3. [b EXCEPT !.plan = plan] = [pc |-> "planned", manifest |-> m, plan |-> plan, snapshot |-> None]
  OBVIOUS
<1> QED
  BY <1>1, <1>2, <1>3

\* The record of a run whose transaction waits.
LEMMA WaitingRun ==
  ASSUME NEW f, NEW u \in Runners, f = [x \in Runners |-> f[x]], NEW s,
         f[u] = [pc |-> f[u].pc, manifest |-> f[u].manifest, plan |-> f[u].plan,
                 snapshot |-> f[u].snapshot]
  PROVE  [f EXCEPT ![u].pc = "waiting", ![u].snapshot = s]
         = [f EXCEPT ![u] = [pc |-> "waiting", manifest |-> f[u].manifest,
                             plan |-> f[u].plan, snapshot |-> s]]
<1> DEFINE a == [pc |-> "waiting", manifest |-> f[u].manifest, plan |-> f[u].plan,
                 snapshot |-> f[u].snapshot]
           b == [pc |-> "waiting", manifest |-> f[u].manifest, plan |-> f[u].plan,
                 snapshot |-> s]
           g == [f EXCEPT ![u] = a]
<1>1. [f[u] EXCEPT !.pc = "waiting"] = a
  OBVIOUS
<1>2. [f EXCEPT ![u].pc = "waiting"] = g
  BY <1>1
<1>3. [a EXCEPT !.snapshot = s] = b
  OBVIOUS
<1>4. g[u] = a /\ g = [x \in Runners |-> g[x]]
  OBVIOUS
<1>5. [g EXCEPT ![u].snapshot = s] = [g EXCEPT ![u] = b]
  BY <1>3, <1>4
<1>6. [g EXCEPT ![u] = b] = [f EXCEPT ![u] = b]
  OBVIOUS
<1> QED
  BY <1>2, <1>5, <1>6

\* One run gets a record that is in order.
LEMMA RunChanged ==
  ASSUME RunShape, \A x \in Runners : RunInOrder(x), verified \subseteq verified',
         NEW u \in Runners, NEW pc \in RunPhase, NEW m, NEW plan, NEW t,
         run' = [run EXCEPT ![u] = [pc |-> pc, manifest |-> m, plan |-> plan, snapshot |-> t]],
         pc # "idle" => m \in Manifests /\ ~plan.blocked,
         pc = "waiting" => InOrder(t) /\ t.verified \subseteq verified
  PROVE  RunShape' /\ \A x \in Runners : RunInOrder(x)'
<1> DEFINE row == [pc |-> pc, manifest |-> m, plan |-> plan, snapshot |-> t]
<1>1. /\ row.pc = pc /\ row.manifest = m /\ row.plan = plan /\ row.snapshot = t
      /\ row = [pc |-> row.pc, manifest |-> row.manifest, plan |-> row.plan,
                snapshot |-> row.snapshot]
  OBVIOUS
<1>2. run' = [run EXCEPT ![u] = row]
  OBVIOUS
<1> HIDE DEF row
<1>3. /\ run' = [x \in Runners |-> IF x = u THEN row ELSE run[x]]
  BY <1>2 DEF RunShape
<1>4. \A x \in Runners \ {u} :
        run'[x] = run[x] /\ run[x] = [pc |-> run[x].pc, manifest |-> run[x].manifest,
                                      plan |-> run[x].plan, snapshot |-> run[x].snapshot]
  BY <1>3 DEF RunShape
<1>5. RunShape'
  <2>1. run'[u] = row
    BY <1>3
  <2>2. \A x \in Runners : run'[x] = [pc |-> run'[x].pc, manifest |-> run'[x].manifest,
                                      plan |-> run'[x].plan, snapshot |-> run'[x].snapshot]
    BY <1>1, <1>4, <2>1
  <2>3. run' = [x \in Runners |-> run'[x]]
    BY <1>3
  <2> QED
    BY <2>2, <2>3 DEF RunShape
<1>6. ASSUME NEW x \in Runners
      PROVE  RunInOrder(x)'
  <2>1. CASE x = u
    BY <1>1, <1>3, <2>1 DEF RunInOrder
  <2>2. CASE x # u
    BY <1>4, <2>2 DEF RunInOrder
  <2> QED
    BY <2>1, <2>2
<1> QED
  BY <1>5, <1>6

\* Runs stay in order while others verify addresses.
LEMMA RunsSame ==
  ASSUME RunShape, \A x \in Runners : RunInOrder(x), verified \subseteq verified', run' = run
  PROVE  RunShape' /\ \A x \in Runners : RunInOrder(x)'
BY DEF RunShape, RunInOrder

\* A run that ends is in order.
LEMMA RunEnds ==
  ASSUME RunShape, \A x \in Runners : RunInOrder(x), verified \subseteq verified',
         NEW u \in Runners, Refuse(u)
  PROVE  RunShape' /\ \A x \in Runners : RunInOrder(x)'
<1>1. run' = [run EXCEPT ![u] = [pc |-> "idle", manifest |-> None, plan |-> None,
                                 snapshot |-> None]]
  BY DEF Refuse, NoRun
<1>2. "idle" \in RunPhase /\ "idle" # "waiting"
  BY DEF RunPhase
<1> QED
  BY <1>1, <1>2, RunChanged

\* The plan of a run is committed.
RunCommits(u, r) ==
  /\ PlanFits(run[u].manifest, run[u].snapshot)
  /\ Outcome(run[u].manifest, run[u].snapshot, r)
  /\ Commits(run[u].snapshot, r)
  /\ AdministratorSafe(run[u].manifest, run[u].snapshot)
  /\ run[u].plan = PlanOf(run[u].manifest, run[u].snapshot)

\* An application of a plan commits it, or leaves the tables as they are.
LEMMA ApplyCommits ==
  ASSUME AdministrationInv, NEW u \in Runners, Apply(u)
  PROVE  \/ \E r : RunCommits(u, r)
         \/ UNCHANGED <<accessVars, binding, revision>>
<1> DEFINE t == run[u].snapshot
           m == run[u].manifest
           r == Executed(m, t)
           fits == /\ IsPlanned(m, t, run[u].plan)
                   /\ ReferencesSafe(m, t) /\ AdministratorSafe(m, t)
                   /\ ~r.failed /\ ~Conflict(t, r)
<1>1. /\ m \in Manifests /\ ~run[u].plan.blocked /\ InOrder(t)
  BY DEF AdministrationInv, RunInOrder, Apply
<1>2. CASE fits
  <2>1. PlanOf(m, t) = run[u].plan
    BY <1>2 DEF IsPlanned
  <2>2. PlanFits(m, t)
    BY <1>1, <1>2, <2>1 DEF PlanFits
  <2>3. Commits(t, r)
    BY <1>2 DEF Apply, Commits
  <2>4. Outcome(m, t, r)
    <3>1. ~r.failed
      BY <1>2
    <3> HIDE DEF m, t
    <3> QED
      BY <2>2, <3>1, ExecutedFacts DEF Outcome
  <2>5. AdministratorSafe(m, t)
    BY <1>2
  <2>6. RunCommits(u, r)
    <3> HIDE DEF r
    <3> QED
      BY <2>1, <2>2, <2>3, <2>4, <2>5 DEF RunCommits
  <2> QED
    BY <2>6
<1>3. CASE ~fits
  BY <1>3 DEF Apply, accessVars
<1> QED
  BY <1>2, <1>3

\* The tables, bindings and runs after a step that changes none of them.
Undisturbed == UNCHANGED <<scopes, verified, direct, binding, revision, run>> /\ AccessTypeOK'

\* Such a step keeps the invariant.
LEMMA UndisturbedKeeps ==
  ASSUME AdministrationInv, Undisturbed
  PROVE  AdministrationInv'
<1>1. RunShape' /\ \A x \in Runners : RunInOrder(x)'
  BY RunsSame DEF AdministrationInv, Undisturbed
<1>2. Bound'
  BY DEF AdministrationInv, Undisturbed, Bound, LiveExists
<1> QED
  BY <1>1, <1>2
  DEF AdministrationInv, Undisturbed, Numbered, AdministratorRemains, Administrators

\* A step that leaves the tables leaves their types.
LEMMA AccessSame ==
  ASSUME AccessTypeOK, UNCHANGED accessVars
  PROVE  AccessTypeOK'
BY DEF AccessTypeOK, accessVars

\* Catalogs are refreshed beside the tables.
LEMMA CatalogStepUndisturbed ==
  ASSUME AdministrationInv, CatalogStep, UNCHANGED planVars
  PROVE  Undisturbed
<1>1. CASE UNCHANGED accessVars
  BY <1>1, AccessSame DEF AdministrationInv, Undisturbed, accessVars, planVars
<1>2. ASSUME NEW r \in Resources, SwitchDiscovery(r)
      PROVE  Undisturbed
  <2>1. changes' \in 0 .. MaxChanges
    BY <1>2, ChangeCounts DEF SwitchDiscovery, AdministrationInv
  <2> QED
    BY <1>2, <2>1 DEF AdministrationInv, AccessTypeOK, SwitchDiscovery, Undisturbed, planVars
<1> QED
  BY <1>1, <1>2 DEF CatalogStep

\* The invariant of tables and runs survives every step of a plan, of an import, of an
\* unmanaging and of a move.
LEMMA PlanStepKeeps ==
  ASSUME AdministrationInv, PlanStep
  PROVE  AdministrationInv'
<1>0. /\ AccessTypeOK /\ IsFiniteSet(verified) /\ Numbered /\ Bound /\ AdministratorRemains
      /\ RunShape /\ \A x \in Runners : RunInOrder(x)
  BY DEF AdministrationInv
<1>rows. ASSUME UNCHANGED accessVars, Bound', RunShape', \A x \in Runners : RunInOrder(x)'
         PROVE  AdministrationInv'
  BY <1>0, <1>rows, AccessSame
  DEF AdministrationInv, Numbered, AdministratorRemains, Administrators, accessVars
<1>same. ASSUME UNCHANGED <<accessVars, binding, revision>>
         PROVE  Bound' /\ verified \subseteq verified'
  BY <1>0, <1>same DEF Bound, LiveExists, accessVars
<1>1. ASSUME NEW u \in Runners, Plan(u)
      PROVE  AdministrationInv'
  <2>1. PICK m \in Manifests :
          /\ ~PlanOf(m, Tables).blocked
          /\ run' = [run EXCEPT ![u] = [NoRun EXCEPT !.pc = "planned", !.manifest = m,
                                                     !.plan = PlanOf(m, Tables)]]
    BY <1>1 DEF Plan
  <2> DEFINE plan == PlanOf(m, Tables)
  <2>2. ~plan.blocked
    BY <2>1
  <2>3. run' = [run EXCEPT ![u] = [pc |-> "planned", manifest |-> m, plan |-> plan,
                                   snapshot |-> None]]
    <3>1. run' = [run EXCEPT ![u] = [NoRun EXCEPT !.pc = "planned", !.manifest = m, !.plan = plan]]
      BY <2>1
    <3> HIDE DEF plan
    <3> QED
      BY <3>1, PlannedRun
  <2>4. UNCHANGED <<accessVars, binding, revision>>
    BY <1>1 DEF Plan
  <2>5. "planned" \in RunPhase /\ "planned" # "waiting"
    BY DEF RunPhase
  <2> HIDE DEF plan
  <2>6. RunShape' /\ \A x \in Runners : RunInOrder(x)'
    BY <1>0, <1>same, <2>2, <2>3, <2>4, <2>5, RunChanged
  <2> QED
    BY <1>rows, <1>same, <2>4, <2>6
<1>2. ASSUME NEW u \in Runners, RequestApply(u)
      PROVE  AdministrationInv'
  <2>1. run' = [run EXCEPT ![u] = [pc |-> "waiting", manifest |-> run[u].manifest,
                                   plan |-> run[u].plan, snapshot |-> Tables]]
    <3>1. run[u] = [pc |-> run[u].pc, manifest |-> run[u].manifest,
                    plan |-> run[u].plan, snapshot |-> run[u].snapshot]
      BY <1>0 DEF RunShape
    <3>2. run' = [run EXCEPT ![u].pc = "waiting", ![u].snapshot = Tables]
      BY <1>2 DEF RequestApply
    <3>3. run = [x \in Runners |-> run[x]]
      BY <1>0 DEF RunShape
    <3> QED
      BY <3>1, <3>2, <3>3, WaitingRun
  <2>2. UNCHANGED <<accessVars, binding, revision>>
    BY <1>2 DEF RequestApply
  <2>3. run[u].manifest \in Manifests /\ ~run[u].plan.blocked
    BY <1>0, <1>2 DEF RequestApply, RunInOrder
  <2>4. InOrder(Tables) /\ Tables.verified = verified /\ "waiting" \in RunPhase
    BY <1>0, TablesInOrder DEF RunPhase
  <2>5. RunShape' /\ \A x \in Runners : RunInOrder(x)'
    BY <1>0, <1>same, <2>1, <2>2, <2>3, <2>4, RunChanged
  <2> QED
    BY <1>rows, <1>same, <2>2, <2>5
<1>3. ASSUME NEW u \in Runners, Apply(u)
      PROVE  AdministrationInv'
  <2>0. Refuse(u) /\ verified' = verified
    BY <1>3 DEF Apply
  <2>1. RunShape' /\ \A x \in Runners : RunInOrder(x)'
    BY <1>0, <2>0, RunEnds
  <2>2. CASE UNCHANGED <<accessVars, binding, revision>>
    BY <1>rows, <1>same, <2>1, <2>2
  <2>3. ASSUME NEW r, RunCommits(u, r)
        PROVE  AdministrationInv'
    <3>1. run[u].snapshot.verified \subseteq verified
      BY <1>0, <1>3 DEF Apply, RunInOrder
    <3>2. AccessTypeOK' /\ Numbered'
      BY <1>0, <2>3, CommittedRows DEF RunCommits
    <3>3. Bound'
      BY <1>0, <2>3, CommittedBindings DEF RunCommits
    <3>4. AdministratorRemains'
      BY <1>0, <2>3, <3>1, CommittedAdministrator DEF RunCommits
    <3> QED
      BY <1>0, <2>0, <2>1, <3>2, <3>3, <3>4 DEF AdministrationInv
  <2> QED
    BY <1>3, <2>2, <2>3, ApplyCommits
<1>4. ASSUME NEW u \in Runners, Abandon(u)
      PROVE  AdministrationInv'
  <2>1. Refuse(u) /\ UNCHANGED <<accessVars, binding, revision>>
    BY <1>4 DEF Abandon
  <2>2. RunShape' /\ \A x \in Runners : RunInOrder(x)'
    BY <1>0, <1>same, <2>1, RunEnds
  <2> QED
    BY <1>rows, <1>same, <2>1, <2>2
<1>5. ASSUME NEW a \in Addresses, Import(a) \/ Unmanage(a) \/ \E b \in Addresses : MoveState(a, b)
      PROVE  AdministrationInv'
  <2>1. Bound'
    BY <1>0, <1>5, ImportKeeps, UnmanageKeeps, MoveStateKeeps
  <2>2. UNCHANGED <<accessVars, run>>
    BY <1>5 DEF Import, Unmanage, MoveState, Rebind
  <2>3. RunShape' /\ \A x \in Runners : RunInOrder(x)'
    BY <1>0, <2>2, RunsSame DEF accessVars
  <2> QED
    BY <1>rows, <2>1, <2>2, <2>3
<1> QED
  BY <1>1, <1>2, <1>3, <1>4, <1>5 DEF PlanStep

\* The invariant of tables and runs survives every step.
LEMMA AdministrationStep ==
  ASSUME AdministrationInv, [Next]_vars
  PROVE  AdministrationInv'
<1>1. CASE Administer
  <2>1. /\ Administration /\ Tombstones /\ UNCHANGED <<revision, run>>
    BY <1>1 DEF Administer
  <2>2. RowsKept /\ Numbered' /\ AdministratorRemains'
    BY <2>1, AdministrationKeeps DEF AdministrationInv
  <2>3. Bound'
    BY <2>1, <2>2, TombstonesKeep DEF AdministrationInv, RowsKept
  <2>4. RunShape' /\ \A x \in Runners : RunInOrder(x)'
    BY <2>1, <2>2, RunsSame DEF AdministrationInv, RowsKept
  <2> QED
    BY <2>2, <2>3, <2>4 DEF AdministrationInv, RowsKept
<1>2. CASE PolicyStep /\ UNCHANGED <<planVars, catalogVars>>
  <2>1. UNCHANGED accessVars
    BY <1>2 DEF PolicyStep, Move, Begin, Resolve, Resolved, Decide
  <2>2. Undisturbed
    BY <1>2, <2>1, AccessSame DEF AdministrationInv, Undisturbed, accessVars, planVars
  <2> QED
    BY <2>2, UndisturbedKeeps
<1>3. CASE PlanStep
  BY <1>3, PlanStepKeeps
<1>4. CASE CatalogStep /\ UNCHANGED <<policyVars, planVars>>
  BY <1>4, CatalogStepUndisturbed, UndisturbedKeeps
<1>5. CASE UNCHANGED vars
  <2>1. Undisturbed
    BY <1>5, AccessSame DEF AdministrationInv, Undisturbed, vars, accessVars, planVars
  <2> QED
    BY <2>1, UndisturbedKeeps
<1> QED
  BY <1>1, <1>2, <1>3, <1>4, <1>5 DEF Next

\* The administrator of the installation can sign in, and nothing is bound.
LEMMA AdministrationStart ==
  ASSUME Init
  PROVE  AdministrationInv
<1>0. AccessInit /\ PlanInit
  BY DEF Init
<1>1. PICK e \in Emails :
        /\ verified = {e}
        /\ direct = [x \in Emails |-> IF x = e THEN [version |-> 1, grants |-> {Admin}]
                                      ELSE [version |-> 0, grants |-> {}]]
  BY <1>0 DEF AccessInit
<1>2. [version |-> 1, grants |-> {Admin}] \in Assignment /\ [version |-> 0, grants |-> {}] \in Assignment
  BY DEF Assignment, Keys
<1>3. direct \in [Emails -> Assignment] /\ Numbered
  BY <1>1, <1>2 DEF Numbered
<1>4. provider \in [Providers -> Provider]
  <2>1. [status |-> "absent", version |-> 0, credential |-> FALSE] \in Provider
    BY DEF Provider
  <2>2. provider = [p \in Providers |-> [status |-> "absent", version |-> 0, credential |-> FALSE]]
    BY <1>0 DEF AccessInit
  <2> QED
    BY <2>1, <2>2
<1>5. AccessTypeOK
  <2>1. /\ group = [pg \in Providers \X Groups |-> NoGroup]
        /\ resource = [r \in Resources |-> [status |-> "absent", supports |-> {}]]
        /\ skill = [k \in Skills |-> NoSkill] /\ form = [f \in Forms |-> NoForm]
        /\ unseen = {} /\ scopes = {} /\ changes = 0
    BY <1>0 DEF AccessInit
  <2>2. /\ group \in [Providers \X Groups -> GroupRow] /\ resource \in [Resources -> Resource]
        /\ skill \in [Skills -> Skill] /\ form \in [Forms -> Form]
    BY <2>1, EmptyRows
  <2>3. changes \in 0 .. MaxChanges
    BY <2>1, ChangesBounded
  <2> QED
    BY <1>1, <1>3, <1>4, <2>1, <2>2, <2>3 DEF AccessTypeOK
<1>6. IsFiniteSet(verified) /\ AdministratorRemains
  <2>1. direct[e].grants = {Admin}
    BY <1>1
  <2> QED
    BY <1>1, <2>1, FS_Singleton DEF AdministratorRemains, Administrators, AdministratorsIn
<1>7. Bound
  BY <1>0, NotBoundFacts DEF PlanInit, Bound, Binding
<1>8. RunShape /\ \A u \in Runners : RunInOrder(u)
  BY <1>0 DEF PlanInit, RunShape, RunInOrder, RunPhase, NoRun
<1> QED
  BY <1>3, <1>5, <1>6, <1>7, <1>8 DEF AdministrationInv

\* The tables, their bindings and the runs are always in order.
LEMMA AdministrationInvariant == Spec => []AdministrationInv
<1>1. AdministrationInv /\ [Next]_vars => AdministrationInv'
  BY AdministrationStep
<1> QED
  BY <1>1, AdministrationStart, PTL DEF Spec

\* Whatever administrators save and delete, whatever plans are applied over it, and
\* however stale the snapshot of a plan is, an administrator by a grant of their own
\* can sign in.
THEOREM AdministratorsRemain == Spec => []AdministratorRemains
<1>1. AdministrationInv => AdministratorRemains
  BY DEF AdministrationInv
<1> QED
  BY <1>1, AdministrationInvariant, PTL

\* A run that ends with a new revision committed its plan.
LEMMA AppliedCommits ==
  ASSUME AdministrationInv, [Next]_vars, NEW u \in Runners, Applied(u)
  PROVE  \E r : RunCommits(u, r)
<1>0. run[u].pc = "waiting" /\ run'[u].pc = "idle" /\ revision' # revision
  BY DEF Applied
<1>1. PlanStep
  BY <1>0 DEF Next, Administer, vars, planVars
<1>2. ASSUME NEW v \in Runners, Plan(v) \/ RequestApply(v) \/ Abandon(v)
      PROVE  FALSE
  BY <1>0, <1>2 DEF Plan, RequestApply, Abandon
<1>3. ASSUME NEW a \in Addresses, Import(a) \/ Unmanage(a) \/ \E b \in Addresses : MoveState(a, b)
      PROVE  FALSE
  BY <1>0, <1>3 DEF Import, Unmanage, MoveState, Rebind
<1>4. PICK v \in Runners : Apply(v)
  BY <1>1, <1>2, <1>3 DEF PlanStep
<1>5. v = u
  <2>1. run' = [run EXCEPT ![v] = NoRun] /\ DOMAIN run = Runners
    BY <1>4 DEF Apply, Refuse, AdministrationInv, RunShape
  <2>2. v # u => run'[u] = run[u]
    BY <2>1
  <2> QED
    BY <1>0, <2>2
<1> QED
  BY <1>0, <1>4, <1>5, ApplyCommits

\* What a save changes between the plan and the transaction that applies it, or while
\* the transaction waits, the plan does not overwrite: it is not applied then.
THEOREM PlansOverwriteWhatWasSeen == Spec => OverwritesOnlyPlanned
<1> DEFINE Seen == \A u \in Runners : Applied(u) =>
             \A e \in Emails : direct'[e] # direct[e] /\ direct[e].version > 0 =>
               \E a \in AssignmentAddresses :
                 /\ binding[a] = [identity |-> e, live |-> TRUE]
                 /\ run[u].plan.actions[a].observed = direct[e].version
<1>1. AdministrationInv /\ [Next]_vars => [Seen]_<<accessVars, planVars>>
  <2> SUFFICES ASSUME AdministrationInv, [Next]_vars, NEW u \in Runners, Applied(u),
                      NEW e \in Emails, direct'[e] # direct[e], direct[e].version > 0
               PROVE  \E a \in AssignmentAddresses :
                        /\ binding[a] = [identity |-> e, live |-> TRUE]
                        /\ run[u].plan.actions[a].observed = direct[e].version
    OBVIOUS
  <2>1. PICK r : RunCommits(u, r)
    BY AppliedCommits
  <2> QED
    BY <2>1, CommittedAsSeen DEF RunCommits, AdministrationInv
<1> QED
  BY <1>1, AdministrationInvariant, PTL DEF Spec, OverwritesOnlyPlanned

\* The passes of a plan leave every address as it is declared, in whatever order they
\* take the assignments, and a commit over what others saved keeps that.
THEOREM PlansLeaveWhatIsDeclared == Spec => AppliedIsDesired
<1> DEFINE Desired(u, a) ==
             LET d == run[u].manifest[a]
             IN IF d = Undeclared THEN binding'[a] = NoBinding
                ELSE /\ binding'[a] = [identity |-> d.identity, live |-> TRUE]
                     /\ IF a \in ScopeAddresses THEN d.identity \in scopes'
                        ELSE \/ direct'[d.identity].grants = d.keys
                             \/ direct[d.identity] # run[u].snapshot.direct[d.identity]
<1>1. AdministrationInv /\ [Next]_vars
      => [\A u \in Runners : Applied(u) => \A a \in Addresses : Desired(u, a)]_<<accessVars, planVars>>
  <2> SUFFICES ASSUME AdministrationInv, [Next]_vars, NEW u \in Runners, Applied(u),
                      NEW a \in Addresses
               PROVE  Desired(u, a)
    OBVIOUS
  <2>1. PICK r : RunCommits(u, r)
    BY AppliedCommits
  <2> QED
    BY <2>1, CommittedAsDeclared DEF RunCommits, AdministrationInv
<1> QED
  BY <1>1, AdministrationInvariant, PTL DEF Spec, AppliedIsDesired
================================================================================
